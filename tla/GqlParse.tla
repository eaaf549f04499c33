------------------------------ MODULE GqlParse ------------------------------
(***************************************************************************)
(* The recursive-descent parser of the query language, from tokens to the  *)
(* statements GqlExecute and GqlMutate run.  A token is a record whose     *)
(* field t is its kind: a keyword or sign itself, "ident" with a name, or  *)
(* "lit" with a value.  Read(what, p, d) parses one nonterminal of the     *)
(* grammar; a parsing operator takes a position and, in expressions, the   *)
(* nesting depth and returns what it read and the position after it, or    *)
(* Err; positions and messages of errors are left out.  An optional part   *)
(* that is missing is the empty sequence, a missing WHERE is TRUE.         *)
(***************************************************************************)
EXTENDS GqlExpr

CONSTANTS MaxExprDepth,      \* MAX_EXPR_DEPTH
          IndexBits,         \* width of a positional parameter's index
          Written,           \* the statements that are written and parsed
          Parameters         \* the parameters they are run with

ASSUME ParseBounds == MaxExprDepth \in Nat /\ IndexBits \in Nat

VARIABLES written,           \* the statement the tokens were written from
          tokens,
          parsed,            \* what the parser, then the substitution, returned
          reading            \* "written", "parsed", "bound"

parseVars == <<written, tokens, parsed, reading>>

Err == [ok |-> FALSE]
Ok(v, p) == [ok |-> TRUE, v |-> v, p |-> p]
Then(a, F(_, _)) == IF a.ok THEN F(a.v, a.p) ELSE Err

peek(p) == IF p <= Len(tokens) THEN tokens[p].t ELSE "eof"
\* A word the lexer does not reserve, compared without case.
PeekWord(p, w) == peek(p) = "ident" /\ tokens[p].name = <<w>>
expect(t, p) == IF peek(p) = t THEN Ok(t, p + 1) ELSE Err
expect_ident(p) == IF peek(p) = "ident" THEN Ok(tokens[p].name, p + 1) ELSE Err
\* LIMIT and SKIP take a literal that is not negative.
expect_int(p) ==
  IF peek(p) = "lit" /\ Is(tokens[p].v, "int") /\ tokens[p].v.int >= 0 THEN Ok(tokens[p].v.int, p + 1) ELSE Err
Optional(present, Parse(_), p, default) == IF present THEN Parse(p) ELSE Ok(default, p)

\* enter_expr and exit_expr around a nested expression.
Enter(d, inner) == IF d + 1 > MaxExprDepth THEN Err ELSE inner

\* A loop of the parser: Step is taken while More holds.
Loop(start, More(_), Step(_)) ==
  LET RECURSIVE Go(_)
      Go(a) == IF ~a.ok THEN a ELSE IF More(a.p) THEN Go(Step(a)) ELSE a
  IN  Go(start)

\* The nonterminals of the grammar, defined together at its end: each of them may
\* come to read any other.
RECURSIVE Read(_, _, _)

\* One or more items separated by commas.
Commas(item, p, d) ==
  Loop(Then(Read(item, p, d), LAMBDA v, q : Ok(<<v>>, q)), LAMBDA q : peek(q) = ",",
       LAMBDA a : Then(Read(item, a.p + 1, d), LAMBDA v, q : Ok(Append(a.v, v), q)))
\* The same between brackets, or nothing between them.
Bracketed(open, item, close, p, d) ==
  Then(expect(open, p), LAMBDA t, q :
    IF peek(q) = close THEN Ok(<<>>, q + 1)
    ELSE Then(Commas(item, q, d), LAMBDA v, s : Then(expect(close, s), LAMBDA u, e : Ok(v, e))))

\* Operands joined by operators of one precedence, to the left.
Chain(operand, ops, p, d) ==
  Loop(Read(operand, p, d), LAMBDA q : peek(q) \in ops,
       LAMBDA a : Then(Read(operand, a.p + 1, d), LAMBDA v, q : Ok(Bin(a.v, peek(a.p), v), q)))

----------------------------------------------------------------------------
(* Expressions, from the loosest operator to the tightest.                 *)

Comparisons == {"=", "<>", "<", ">", "<=", ">="}
Aggregates == {"count", "sum", "avg", "min", "max", "collect"}
ListPredicates == {"all", "any", "none", "single"}

parse_expr(p, d) == Read("or", p, d)
Nested(p, d) == Enter(d, parse_expr(p, d + 1))

\* Mutant: subtraction groups to the right.
parse_addition_Right(p, d) ==
  Then(Read("multiplication", p, d), LAMBDA left, q :
    IF peek(q) \in {"+", "-"}
    THEN Then(Chain("multiplication", {"+", "-"}, q + 1, d), LAMBDA right, s : Ok(Bin(left, peek(q), right), s))
    ELSE Ok(left, q))

parse_multiplication(p, d) == Chain("unary", {"*", "/"}, p, d)

parse_addition(p, d) == Chain("multiplication", {"+", "-"}, p, d)

\* parse_list_literal: a list of literals is a literal.
parse_list_literal(p, d) ==
  Then(Bracketed("[", "nested", "]", p, d), LAMBDA v, q :
    Ok(IF \A k \in 1..Len(v) : v[k].e = "lit" THEN Lit(ListV(MapSeq(v, LAMBDA x : x.v))) ELSE Items(v), q))

\* parse_comparison: at most one comparison; IN takes a list in brackets only.
parse_comparison(p, d) ==
  LET With(op, left, q) == Then(Read("addition", q, d), LAMBDA right, s : Ok(Bin(left, op, right), s))
      After(left, q) ==
        CASE peek(q) = "is" ->
               LET neg == peek(q + 1) = "not"
               IN  Then(expect("null", IF neg THEN q + 2 ELSE q + 1), LAMBDA t, s : Ok(IsNull(left, neg), s))
          [] PeekWord(q, "starts") /\ peek(q + 1) = "with" -> With("starts", left, q + 2)
          [] PeekWord(q, "ends") /\ peek(q + 1) = "with" -> With("ends", left, q + 2)
          [] PeekWord(q, "contains") -> With("contains", left, q + 1)
          [] PeekWord(q, "in") ->
               Then(Read("list_literal", q + 1, d), LAMBDA right, s : Ok(Bin(left, "in", right), s))
          [] peek(q) \in Comparisons -> With(peek(q), left, q + 1)
          [] OTHER -> Ok(left, q)
  IN  Then(Read("addition", p, d), After)

parse_not(p, d) ==
  IF peek(p) # "not" THEN Read("comparison", p, d)
  ELSE Enter(d, Then(Read("not", p + 1, d + 1), LAMBDA v, q : Ok(Un("not", v), q)))

parse_and(p, d) == Chain("not", {"and"}, p, d)

parse_or(p, d) == Chain("and", {"or"}, p, d)

\* parse_primary_suffix and parse_subscript_chain.
parse_primary_suffix(a, d) ==
  Loop(a, LAMBDA q : peek(q) = "[", LAMBDA b :
    Then(Nested(b.p + 1, d), LAMBDA i, q : Then(expect("]", q), LAMBDA t, s : Ok(At(b.v, i), s))))

parse_list_predicate(kind, p, d) ==
  Then(expect("(", p), LAMBDA t, q : Then(expect_ident(q), LAMBDA x, s :
    IF ~PeekWord(s, "in") THEN Err
    ELSE Then(Nested(s + 1, d), LAMBDA list, w : Then(expect("where", w), LAMBDA u, b :
           Then(Nested(b, d), LAMBDA body, c :
             Then(expect(")", c), LAMBDA z, e : Ok(ListPred(kind, x, list, body), e)))))))

\* parse_primary_ident and parse_function_call: a variable, a property, a call.
\* shortestPath is left out, as in the evaluators.
parse_primary_ident(p, d) ==
  LET name == tokens[p].name
  IN  CASE peek(p + 1) = "(" /\ Head(name) \in ListPredicates -> parse_list_predicate(Head(name), p + 1, d)
        [] peek(p + 1) = "(" /\ Head(name) \notin ListPredicates ->
             Then(Bracketed("(", "nested", ")", p + 1, d), LAMBDA args, q : Ok(Call(Head(name), args), q))
        [] peek(p + 1) = "." -> Then(expect_ident(p + 2), LAMBDA k, q : Ok(Prop(name, Head(k)), q))
        [] OTHER -> Ok(Var(name), p + 1)

parse_aggregate(p, d) ==
  Then(expect("(", p + 1), LAMBDA t, q :
    IF peek(p) = "count" /\ peek(q) = "*" THEN Then(expect(")", q + 1), LAMBDA u, s : Ok(Agg("count", Star), s))
    ELSE Then(Nested(q, d), LAMBDA x, s : Then(expect(")", s), LAMBDA u, e : Ok(Agg(peek(p), x), e))))

\* parse_param_ref: by name, or by an index that is at least one and is cut to its
\* width.
parse_param_ref(p) ==
  CASE peek(p + 1) = "ident" -> Ok(Param(tokens[p + 1].name), p + 2)
    [] peek(p + 1) = "lit" ->
         LET v == tokens[p + 1].v
         IN  IF ~Is(v, "int") THEN Err
             ELSE IF v.int < 1 THEN Err
             ELSE Ok(Param(<<ToString(v.int % 2 ^ IndexBits)>>), p + 2)
    [] OTHER -> Err

parse_primary(p, d) ==
  CASE peek(p) \in Aggregates -> parse_aggregate(p, d)
    [] peek(p) = "lit" -> Ok(Lit(tokens[p].v), p + 1)
    [] peek(p) = "null" -> Ok(Lit(Null), p + 1)
    [] peek(p) = "ident" -> parse_primary_suffix(parse_primary_ident(p, d), d)
    [] peek(p) = "[" -> parse_primary_suffix(Read("list_literal", p, d), d)
    [] peek(p) = "(" -> Then(Nested(p + 1, d), LAMBDA x, q : Then(expect(")", q), LAMBDA t, s : Ok(x, s)))
    [] peek(p) = "$" -> parse_param_ref(p)
    [] OTHER -> Err

parse_unary(p, d) ==
  IF peek(p) # "-" THEN Read("primary", p, d)
  ELSE Enter(d, Then(Read("unary", p + 1, d + 1), LAMBDA v, q : Ok(Un("neg", v), q)))

Expr(p) == parse_expr(p, 0)
\* A nonterminal outside an expression.
Clause(what, p) == Read(what, p, 0)

----------------------------------------------------------------------------
(* Patterns.                                                               *)

\* parse_inline_props and parse_prop_entry: literals only.
parse_prop_entry(p) ==
  Then(expect_ident(p), LAMBDA k, q : Then(expect(":", q), LAMBDA t, s :
    CASE peek(s) = "lit" -> Ok([key |-> Head(k), v |-> tokens[s].v], s + 1)
      [] peek(s) = "null" -> Ok([key |-> Head(k), v |-> Null], s + 1)
      [] OTHER -> Err))
parse_inline_props(p) == Optional(peek(p) = "{", LAMBDA q : Bracketed("{", "prop_entry", "}", q, 0), p, <<>>)

\* parse_create_props and parse_create_prop_entry: any expression.
parse_create_prop_entry(p) ==
  Then(expect_ident(p), LAMBDA k, q : Then(expect(":", q), LAMBDA t, s :
    Then(Read("nested", s, 0), LAMBDA x, e : Ok([key |-> Head(k), x |-> x], e))))
parse_create_props(p) ==
  Optional(peek(p) = "{", LAMBDA q : Bracketed("{", "create_prop_entry", "}", q, 0), p, <<>>)

\* The optional variable and the labels a pattern starts with.
OptionalVar(p) == Optional(peek(p) = "ident", expect_ident, p, <<>>)
Labels(p) ==
  Loop(Ok(<<>>, p), LAMBDA q : peek(q) = ":",
       LAMBDA a : Then(expect_ident(a.p + 1), LAMBDA l, q : Ok(Append(a.v, l), q)))
FirstOf(labels) == IF labels = <<>> THEN <<>> ELSE labels[1]

\* parse_node_pattern: more than one label is refused.
parse_node_pattern(p) ==
  Then(expect("(", p), LAMBDA t, a : Then(OptionalVar(a), LAMBDA x, b : Then(Labels(b), LAMBDA ls, c :
    IF Len(ls) > 1 THEN Err
    ELSE Then(Clause("inline_props", c), LAMBDA f, e : Then(expect(")", e), LAMBDA u, q :
           Ok([var |-> x, label |-> FirstOf(ls), props |-> f], q))))))

\* The bounds after `*`: `*n` is exactly n; a missing lower bound is kept as NoMin, a
\* missing upper bound as -1.
EdgeLength(p) ==
  LET low == Optional(peek(p + 1) = "lit", expect_int, p + 1, -1)
  IN  IF peek(p) # "*" THEN Ok([min |-> -1, max |-> -1], p)
      ELSE Then(low, LAMBDA lo, q :
             IF peek(q) # ".." THEN Ok([min |-> IF lo = -1 THEN NoMin ELSE lo, max |-> lo], q)
             ELSE Then(Optional(peek(q + 1) = "lit", expect_int, q + 1, -1), LAMBDA hi, s :
                    Ok([min |-> IF lo = -1 THEN NoMin ELSE lo, max |-> hi], s)))

\* parse_edge_bracket_content: of several labels the first is used.
parse_edge_bracket_content(p) ==
  Then(OptionalVar(p), LAMBDA x, a : Then(Labels(a), LAMBDA ls, b : Then(Clause("inline_props", b), LAMBDA f, c :
    Then(EdgeLength(c), LAMBDA len, q :
      Ok([var |-> x, label |-> FirstOf(ls), props |-> f, min |-> len.min, max |-> len.max], q)))))

\* parse_edge_and_node: an edge has brackets; its direction is in its two ends.
parse_edge_and_node(p) ==
  LET incoming == peek(p) = "<-"
      Ends == IF incoming THEN {"-"} ELSE {"->", "-"}
      Dir(t) == IF incoming THEN "in" ELSE IF t = "->" THEN "out" ELSE "both"
  IN  IF peek(p) = "->" THEN Err
      ELSE Then(expect("[", p + 1), LAMBDA t, a : Then(parse_edge_bracket_content(a), LAMBDA ep, b :
             Then(expect("]", b), LAMBDA u, c :
               IF peek(c) \notin Ends THEN Err
               ELSE Then(Clause("node_pattern", c + 1), LAMBDA np, q :
                      Ok([edge |-> [dir |-> Dir(peek(c))] @@ ep, node |-> np], q)))))

parse_path_pattern(p) ==
  Loop(Then(Clause("node_pattern", p), LAMBDA np, q : Ok([start |-> np, hops |-> <<>>], q)),
       LAMBDA q : peek(q) \in {"-", "<-", "->"},
       LAMBDA a : Then(Clause("edge_and_node", a.p), LAMBDA h, q : Ok([a.v EXCEPT !.hops = Append(@, h)], q)))

\* parse_match_clause, with the path variable of MATCH p = ....
parse_match_clause(p) ==
  Then(expect("match", p), LAMBDA t, a :
    Then(Optional(peek(a) = "ident" /\ peek(a + 1) = "=", LAMBDA q : Ok(tokens[q].name, q + 2), a, <<>>),
         LAMBDA x, b : Then(Commas("path_pattern", b, 0), LAMBDA pats, q : Ok([path |-> x, patterns |-> pats], q))))

----------------------------------------------------------------------------
(* Clauses.                                                                *)

True3 == Lit(BoolV(TRUE))
parse_where_clause(p) == Optional(peek(p) = "where", LAMBDA q : Expr(q + 1), p, True3)

\* parse_return_item, also the items of WITH.
parse_return_item(p) ==
  Then(Expr(p), LAMBDA x, q :
    Then(Optional(peek(q) = "as", LAMBDA s : expect_ident(s + 1), q, <<>>), LAMBDA c, s :
      Ok([x |-> x, as |-> c], s)))
parse_return_items_after_keyword(p) ==
  Then(Commas("return_item", IF peek(p) = "distinct" THEN p + 1 ELSE p, 0), LAMBDA items, q :
    Ok([distinct |-> peek(p) = "distinct", items |-> items], q))

parse_group_by_clause(p) ==
  Optional(peek(p) = "group", LAMBDA q : Then(expect("by", q + 1), LAMBDA t, s :
             Commas("nested", s, 0)), p, <<>>)

parse_order_item(p) ==
  Then(Expr(p), LAMBDA x, q : Ok([x |-> x, asc |-> peek(q) # "desc"],
                                 IF peek(q) \in {"asc", "desc"} THEN q + 1 ELSE q))
parse_order_by_clause(p) ==
  Optional(peek(p) = "order", LAMBDA q : Then(expect("by", q + 1), LAMBDA t, s : Commas("order_item", s, 0)),
           p, <<>>)
parse_limit_clause(p) == Optional(peek(p) = "limit", LAMBDA q : expect_int(q + 1), p, -1)
parse_skip_clause(p) == Optional(peek(p) = "skip", LAMBDA q : expect_int(q + 1), p, -1)

parse_unwind_body(p) ==
  Then(Expr(p + 1), LAMBDA x, q : Then(expect("as", q), LAMBDA t, s :
    Then(expect_ident(s), LAMBDA u, e : Ok(<<[list |-> x, var |-> u]>>, e))))
parse_unwind_clause(p) == Optional(peek(p) = "unwind", LAMBDA q : Clause("unwind_body", q), p, <<>>)

\* parse_with_clause: WHERE comes before ORDER BY.
parse_with_clause(p) ==
  Then(expect("with", p), LAMBDA t, a : Then(Clause("return_items_after_keyword", a), LAMBDA r, b :
    Then(Clause("where_clause", b), LAMBDA w, c : Then(Clause("order_by_clause", c), LAMBDA o, e :
      Then(Clause("skip_clause", e), LAMBDA sk, f : Then(Clause("limit_clause", f), LAMBDA li, q :
        Ok([kind |-> "with", items |-> r.items, distinct |-> r.distinct, where |-> w, order |-> o,
            skip |-> sk, limit |-> li], q)))))))

\* parse_set_assignment: a property, the whole node, or entries added to it.
parse_set_assignment(p) ==
  Then(expect_ident(p), LAMBDA x, q :
    CASE peek(q) \in {"=", "+="} ->
           Then(Expr(q + 1), LAMBDA v, s : Ok([var |-> x, how |-> peek(q), key |-> "", x |-> v], s))
      [] OTHER -> Then(expect(".", q), LAMBDA t, a : Then(expect_ident(a), LAMBDA k, b :
           Then(expect("=", b), LAMBDA u, c : Then(Expr(c), LAMBDA v, s :
             Ok([var |-> x, how |-> ".", key |-> Head(k), x |-> v], s))))))
parse_set_clause(p) ==
  Then(expect("set", p), LAMBDA t, q : Then(Commas("set_assignment", q, 0), LAMBDA v, s :
    Ok([op |-> "set", assignments |-> v], s)))

parse_delete_clause(p) ==
  LET detach == peek(p) = "detach"
  IN  Then(expect("delete", IF detach THEN p + 1 ELSE p), LAMBDA t, q : Then(Commas("ident", q, 0), LAMBDA v, s :
        Ok([op |-> "delete", detach |-> detach, vars |-> v], s)))

----------------------------------------------------------------------------
(* Mutations.                                                              *)

\* The label and the properties of a node that CREATE makes; all of its properties
\* may come from one parameter.
NewNode(x, p) ==
  Then(expect(":", p), LAMBDA t, a : Then(expect_ident(a), LAMBDA l, b :
    Then(Clause("create_props", b), LAMBDA f, c :
      Ok([c |-> "node", var |-> x, label |-> l, props |-> f, map |-> <<>>], c))))
NewNodeFromMap(x, p) ==
  Then(expect(":", p), LAMBDA t, a : Then(expect_ident(a), LAMBDA l, b : Then(expect_ident(b + 1), LAMBDA m, c :
    Ok([c |-> "node", var |-> x, label |-> l, props |-> <<>>, map |-> <<Param(m)>>], c))))
NameOr(x, k) == IF x # <<>> THEN x ELSE <<"_anon_", ToString(k)>>

\* parse_create_edge_continuation: the relationship's own variable is read and
\* forgotten; the target is a new node when a label follows, else a variable.
parse_create_edge_continuation(out, source, p) ==
  Then(expect("[", p + 1), LAMBDA t1, a : Then(OptionalVar(a), LAMBDA rv, b : Then(expect(":", b), LAMBDA t2, c :
  Then(expect_ident(c), LAMBDA l, e : Then(Clause("create_props", e), LAMBDA f, h : Then(expect("]", h), LAMBDA t3, i :
  Then(expect("->", i), LAMBDA t4, j : Then(expect("(", j), LAMBDA t5, k : Then(OptionalVar(k), LAMBDA x, o :
    LET is_ref == x # <<>> /\ peek(o) # ":"
        edge == [c |-> "edge", from |-> source, label |-> l, props |-> f, to |-> NameOr(x, Len(out))]
    IN  Then(IF is_ref THEN Ok(<<>>, o) ELSE Then(NewNode(x, o), LAMBDA nd, q : Ok(<<nd>>, q)), LAMBDA target, q :
          Then(expect(")", q), LAMBDA t6, s : Ok(out \o target \o <<edge>>, s))))))))))))

\* parse_create_pattern_multi: a lone variable that an edge follows is a reference.
parse_create_pattern_multi(out, p) ==
  Then(expect("(", p), LAMBDA t, a : Then(OptionalVar(a), LAMBDA x, b :
    LET is_ref == x # <<>> /\ peek(b) = ")" /\ peek(b + 1) \in {"-", "<-"}
        node == CASE is_ref -> Ok(<<>>, b)
                  [] ~is_ref /\ peek(b + 2) = "$" -> Then(NewNodeFromMap(x, b), LAMBDA nd, q : Ok(<<nd>>, q))
                  [] OTHER -> Then(NewNode(x, b), LAMBDA nd, q : Ok(<<nd>>, q))
    IN  Then(node, LAMBDA nd, c : Then(expect(")", c), LAMBDA u, q :
          CASE peek(q) = "<-" -> Err
            [] peek(q) = "-" -> parse_create_edge_continuation(out \o nd, NameOr(x, Len(out)), q)
            [] OTHER -> Ok(out \o nd, q)))))

parse_create_clause(p) ==
  Then(expect("create", p), LAMBDA t, q :
    Then(Loop(parse_create_pattern_multi(<<>>, q), LAMBDA s : peek(s) = ",",
              LAMBDA a : parse_create_pattern_multi(a.v, a.p + 1)),
         LAMBDA pats, s : Ok([op |-> "create", patterns |-> pats], s)))

\* parse_merge_clause, with peek_is_on_then.
OnThen(word, p) ==
  Optional(PeekWord(p, "on") /\ peek(p + 1) = word,
           LAMBDA q : Then(Clause("set_clause", q + 2), LAMBDA c, s : Ok(<<c>>, s)), p, <<>>)
parse_merge_clause(p) ==
  Then(expect("merge", p), LAMBDA t, a : Then(expect("(", a), LAMBDA u, b : Then(OptionalVar(b), LAMBDA x, c :
  Then(NewNode(x, c), LAMBDA nd, e : Then(expect(")", e), LAMBDA w, f : Then(OnThen("create", f), LAMBDA oc, h :
  Then(OnThen("match", h), LAMBDA om, i :
    Then(Optional(peek(i) = "return", LAMBDA q : expect_ident(q + 1), i, <<>>), LAMBDA r, q :
      Ok([op |-> "merge", var |-> x, label |-> nd.label, props |-> nd.props, on_create |-> oc,
          on_match |-> om, return |-> r], q)))))))))

----------------------------------------------------------------------------
(* Statements.                                                             *)

AtEnd(a) == Then(a, LAMBDA v, q : IF peek(q) = "eof" THEN Ok(v, q) ELSE Err)

parse_optional_trailing_return(p) ==
  Optional(peek(p) = "return",
           LAMBDA q : Then(Clause("return_items_after_keyword", q + 1), LAMBDA r, s : Ok(<<r>>, s)), p, <<>>)

Mutation(mc, clause, ret) ==
  [kind |-> "mutation", unwind |-> <<>>, match |-> mc, clause |-> clause, return |-> ret]

\* The rest of a query from its RETURN.
parse_return_clause(p) ==
  Then(expect("return", p), LAMBDA t, q : Clause("return_items_after_keyword", q))
QueryFrom(mc, where, p) ==
  Then(Clause("return_clause", p), LAMBDA r, a : Then(parse_group_by_clause(a), LAMBDA gs, b :
  Then(Clause("order_by_clause", b), LAMBDA o, c : Then(Clause("limit_clause", c), LAMBDA li, q :
    Ok([kind |-> "match", path |-> mc.path, patterns |-> mc.patterns, where |-> where, items |-> r.items,
        group |-> gs, order |-> o, distinct |-> r.distinct, limit |-> li, cap |-> 0], q)))))

\* parse_after_match: the condition of the match goes into a query only.
parse_after_match(mc, where, p) ==
  CASE peek(p) = "return" -> AtEnd(QueryFrom(mc, where, p))
    [] peek(p) \in {"delete", "detach"} ->
         AtEnd(Then(Clause("delete_clause", p), LAMBDA c, q : Ok(Mutation(<<mc>>, c, <<>>), q)))
    [] peek(p) \in {"set", "create"} ->
         AtEnd(Then(IF peek(p) = "set" THEN Clause("set_clause", p) ELSE Clause("create_clause", p), LAMBDA c, q :
           Then(Clause("optional_trailing_return", q), LAMBDA r, s : Ok(Mutation(<<mc>>, c, r), s))))
    [] OTHER -> Err

\* parse_pipeline_terminal.
parse_pipeline_terminal(p) ==
  CASE peek(p) = "return" ->
         Then(Clause("return_clause", p), LAMBDA r, a : Then(Clause("order_by_clause", a), LAMBDA o, b :
         Then(Clause("skip_clause", b), LAMBDA sk, c : Then(Clause("limit_clause", c), LAMBDA li, q :
           Ok([kind |-> "with", items |-> r.items, distinct |-> r.distinct, where |-> True3, order |-> o,
               skip |-> sk, limit |-> li], q)))))
    [] peek(p) = "set" -> Clause("set_clause", p)
    [] peek(p) = "create" -> Clause("create_clause", p)
    [] peek(p) \in {"delete", "detach"} -> Clause("delete_clause", p)
    [] OTHER -> Err

UnwindStage(uw) == [kind |-> "unwind", list |-> uw.list, var |-> uw.var]
parse_pipeline_after_match(unwind, mc, where, p) ==
  LET first == MapSeq(unwind, UnwindStage)
               \o <<[kind |-> "match", path |-> mc.path, patterns |-> mc.patterns, where |-> where]>>
      Stage(q) == IF peek(q) = "with" THEN Clause("with_clause", q)
                  ELSE Then(Clause("unwind_body", q), LAMBDA uw, s : Ok(UnwindStage(uw[1]), s))
      stages == Loop(Then(Clause("with_clause", p), LAMBDA w, q : Ok(Append(first, w), q)),
                     LAMBDA q : peek(q) \in {"with", "unwind"},
                     LAMBDA a : Then(Stage(a.p), LAMBDA st, q : Ok(Append(a.v, st), q)))
  IN  AtEnd(Then(stages, LAMBDA ss, q : Then(parse_pipeline_terminal(q), LAMBDA r, s :
        Ok([kind |-> "pipeline", stages |-> ss, return |-> r], s))))

Unwound(q, uw) == [q EXCEPT !.kind = "unwind"] @@ [list |-> uw.list, uvar |-> uw.var]

\* inject_unwind, on what parse_after_match can return.
inject_unwind(stmt, unwind) ==
  CASE unwind = <<>> -> stmt
    [] unwind # <<>> /\ stmt.kind = "match" -> Unwound(stmt, unwind[1])
    [] OTHER -> [stmt EXCEPT !.unwind = unwind]

\* parse_const_return_query: SKIP and LIMIT are expressions here.
parse_const_return_query(p) ==
  LET OptionalExpr(word, q) ==
        Optional(peek(q) = word, LAMBDA s : Then(Expr(s + 1), LAMBDA x, e : Ok(<<x>>, e)), q, <<>>)
  IN  Then(Clause("return_clause", p), LAMBDA r, a : Then(OptionalExpr("skip", a), LAMBDA sk, b :
        Then(OptionalExpr("limit", b), LAMBDA li, q :
          Ok([kind |-> "const", items |-> r.items, distinct |-> r.distinct, skip |-> sk, limit |-> li], q))))

\* The MATCH clauses a statement starts with: one list of patterns, the conditions
\* joined, the path variable of the first.
MatchClauses(p) ==
  LET One(q) == Then(Clause("match_clause", q), LAMBDA mc, s : Then(Clause("where_clause", s), LAMBDA w, e :
                  Ok([mc |-> mc, where |-> w], e)))
      Both(a, b) == IF a = True3 THEN b ELSE IF b = True3 THEN a ELSE Bin(a, "and", b)
  IN  Loop(One(p), LAMBDA q : peek(q) = "match",
           LAMBDA a : Then(One(a.p), LAMBDA b, q :
             Ok([mc |-> [a.v.mc EXCEPT !.patterns = @ \o b.mc.patterns], where |-> Both(a.v.where, b.where)], q)))

parse_statement(p) ==
  Then(Clause("unwind_clause", p), LAMBDA unwind, a :
    CASE peek(a) = "match" ->
           Then(MatchClauses(a), LAMBDA m, q :
             IF peek(q) = "with" THEN parse_pipeline_after_match(unwind, m.mc, m.where, q)
             ELSE Then(parse_after_match(m.mc, m.where, q), LAMBDA st, s : Ok(inject_unwind(st, unwind), s)))
      [] peek(a) = "create" ->
           AtEnd(Then(Clause("create_clause", a), LAMBDA c, q : Then(Clause("optional_trailing_return", q), LAMBDA r, s :
             Ok([Mutation(<<>>, c, r) EXCEPT !.unwind = unwind], s))))
      [] peek(a) = "merge" ->
           AtEnd(Then(parse_merge_clause(a), LAMBDA c, q : Ok([Mutation(<<>>, c, <<>>) EXCEPT !.unwind = unwind], q)))
      [] peek(a) = "return" /\ unwind = <<>> -> AtEnd(parse_const_return_query(a))
      [] OTHER -> Err)

\* parse: the older entry point, for queries of one MATCH.
parse(p) ==
  Then(Clause("unwind_clause", p), LAMBDA unwind, a : Then(Clause("match_clause", a), LAMBDA mc, b :
  Then(Clause("where_clause", b), LAMBDA w, c :
    AtEnd(Then(QueryFrom(mc, w, c), LAMBDA q, s :
      Ok(IF unwind = <<>> THEN q ELSE Unwound(q, unwind[1]), s))))))

----------------------------------------------------------------------------
(* The grammar.                                                            *)

Read(what, p, d) ==
  CASE what = "or" -> parse_or(p, d)
    [] what = "and" -> parse_and(p, d)
    [] what = "not" -> parse_not(p, d)
    [] what = "comparison" -> parse_comparison(p, d)
    [] what = "addition" -> parse_addition(p, d)
    [] what = "multiplication" -> parse_multiplication(p, d)
    [] what = "unary" -> parse_unary(p, d)
    [] what = "primary" -> parse_primary(p, d)
    [] what = "list_literal" -> parse_list_literal(p, d)
    [] what = "nested" -> Nested(p, d)
    [] what = "ident" -> expect_ident(p)
    [] what = "prop_entry" -> parse_prop_entry(p)
    [] what = "create_prop_entry" -> parse_create_prop_entry(p)
    [] what = "inline_props" -> parse_inline_props(p)
    [] what = "create_props" -> parse_create_props(p)
    [] what = "node_pattern" -> parse_node_pattern(p)
    [] what = "edge_and_node" -> parse_edge_and_node(p)
    [] what = "path_pattern" -> parse_path_pattern(p)
    [] what = "match_clause" -> parse_match_clause(p)
    [] what = "where_clause" -> parse_where_clause(p)
    [] what = "return_item" -> parse_return_item(p)
    [] what = "return_items_after_keyword" -> parse_return_items_after_keyword(p)
    [] what = "return_clause" -> parse_return_clause(p)
    [] what = "order_item" -> parse_order_item(p)
    [] what = "order_by_clause" -> parse_order_by_clause(p)
    [] what = "limit_clause" -> parse_limit_clause(p)
    [] what = "skip_clause" -> parse_skip_clause(p)
    [] what = "unwind_body" -> parse_unwind_body(p)
    [] what = "unwind_clause" -> parse_unwind_clause(p)
    [] what = "with_clause" -> parse_with_clause(p)
    [] what = "set_assignment" -> parse_set_assignment(p)
    [] what = "set_clause" -> parse_set_clause(p)
    [] what = "delete_clause" -> parse_delete_clause(p)
    [] what = "create_clause" -> parse_create_clause(p)
    [] what = "optional_trailing_return" -> parse_optional_trailing_return(p)
    [] what = "statement" -> parse_statement(p)
    [] what = "query" -> parse(p)

----------------------------------------------------------------------------
(* Parameters are replaced by their values before a statement runs.        *)

\* What gql_value_to_literal can write; a map stays a parameter, for the executor.
RECURSIVE IsLiteral(_)
IsLiteral(v) ==
  \/ Is(v, "null") \/ IsStorable(v)
  \/ Is(v, "list") /\ \A k \in 1..Len(v.list) : IsLiteral(v.list[k])

\* visit_expr, which fails at a parameter that is missing or has no literal.
RECURSIVE Substitutable(_, _)
Substitutable(x, params) ==
  IF x.e = "param" THEN x.name \in DOMAIN params /\ (Is(params[x.name], "map") \/ IsLiteral(params[x.name]))
  ELSE \A y \in Parts(x) : Substitutable(y, params)

RECURSIVE visit_expr(_, _)
visit_expr(x, params) ==
  LET V(y) == visit_expr(y, params)
  IN  CASE x.e = "param" -> IF Is(params[x.name], "map") THEN x ELSE Lit(params[x.name])
        [] x.e = "bin" -> Bin(V(x.l), x.op, V(x.r))
        [] x.e \in {"un", "isnull"} -> [x EXCEPT !.x = V(@)]
        [] x.e = "agg" -> [x EXCEPT !.arg = V(@)]
        [] x.e = "call" -> [x EXCEPT !.args = MapSeq(@, V)]
        [] x.e = "at" -> At(V(x.list), V(x.index))
        [] x.e = "items" -> Items(MapSeq(x.seq, V))
        [] x.e = "pred" -> [x EXCEPT !.list = V(@), !.body = V(@)]
        [] OTHER -> x

\* The visitor is used for a check of every parameter, then for the replacement.
Visit(x, how) ==
  CASE how.checks -> IF Substitutable(x, how.params) THEN x ELSE Err
    [] ~how.checks -> visit_expr(x, how.params)
VisitAll(seq, how) == MapSeq(seq, LAMBDA x : Visit(x, how))

\* visit_return_item, visit_order_item and the entries of CREATE and SET: each holds
\* one expression.
InItems(items, how) == MapSeq(items, LAMBDA i : [i EXCEPT !.x = Visit(@, how)])
visit_set(c, how) == [c EXCEPT !.assignments = InItems(@, how)]
visit_create_pattern(pat, how) ==
  IF pat.c = "node" THEN [pat EXCEPT !.props = InItems(@, how), !.map = VisitAll(@, how)]
  ELSE [pat EXCEPT !.props = InItems(@, how)]
visit_mutation_clause(c, how) ==
  CASE c.op = "create" -> [c EXCEPT !.patterns = MapSeq(@, LAMBDA pat : visit_create_pattern(pat, how))]
    [] c.op = "set" -> visit_set(c, how)
    [] c.op = "merge" -> [c EXCEPT !.props = InItems(@, how), !.on_create = MapSeq(@, LAMBDA s : visit_set(s, how)),
                                   !.on_match = MapSeq(@, LAMBDA s : visit_set(s, how))]
    [] OTHER -> c
visit_mutation(s, how) ==
  [s EXCEPT !.unwind = MapSeq(@, LAMBDA uw : [uw EXCEPT !.list = Visit(@, how)]), !.clause = visit_mutation_clause(@, how),
            !.return = MapSeq(@, LAMBDA ret : [ret EXCEPT !.items = InItems(@, how)])]

visit_with(w, how) == [w EXCEPT !.items = InItems(@, how), !.where = Visit(@, how), !.order = InItems(@, how)]
VisitStage(st, how) ==
  CASE st.kind = "match" -> [st EXCEPT !.where = Visit(@, how)]
    [] st.kind = "unwind" -> [st EXCEPT !.list = Visit(@, how)]
    [] st.kind = "with" -> visit_with(st, how)
visit_pipeline(s, how) ==
  [s EXCEPT !.stages = MapSeq(@, LAMBDA st : VisitStage(st, how)),
            !.return = IF "kind" \in DOMAIN @ THEN visit_with(@, how) ELSE visit_mutation_clause(@, how)]

visit_query(s, how) ==
  LET q == [s EXCEPT !.where = Visit(@, how), !.group = VisitAll(@, how), !.order = InItems(@, how), !.items = InItems(@, how)]
  IN  IF s.kind = "unwind" THEN [q EXCEPT !.list = Visit(@, how)] ELSE q

visit_const_return(s, how) ==
  [s EXCEPT !.items = InItems(@, how), !.skip = VisitAll(@, how), !.limit = VisitAll(@, how)]

VisitStatement(s, how) ==
  CASE s.kind \in {"match", "unwind"} -> visit_query(s, how)
    [] s.kind = "mutation" -> visit_mutation(s, how)
    [] s.kind = "pipeline" -> visit_pipeline(s, how)
    [] s.kind = "const" -> visit_const_return(s, how)

\* apply: all of the parameters, or the first that fails.
apply(s, params) ==
  LET how(checks) == [checks |-> checks, params |-> params]
  IN  IF VisitStatement(s, how(TRUE)) # s THEN Err ELSE Ok(VisitStatement(s, how(FALSE)), 0)

----------------------------------------------------------------------------
(* How a client writes a statement, with no parenthesis it does not need.  *)
(* An expression is written for the operator around it: level 1 is OR, 2   *)
(* AND, 3 NOT, 4 a comparison, 5 addition, 6 multiplication, 7 a sign.     *)

T(t) == <<[t |-> t]>>
Id(x) == <<[t |-> "ident", name |-> x]>>
IdIf(x) == IF x = <<>> THEN <<>> ELSE Id(x)
Separated(seq, F(_), sep) ==
  FlattenSeq([k \in 1..Len(seq) |-> IF k = 1 THEN F(seq[k]) ELSE sep \o F(seq[k])])
Listed(seq, F(_)) == Separated(seq, F, T(","))

RECURSIVE WriteValue(_)
WriteValue(val) ==
  CASE Is(val, "null") -> T("null")
    [] Is(val, "list") -> T("[") \o Listed(val.list, WriteValue) \o T("]")
    [] OTHER -> <<[t |-> "lit", v |-> val]>>

BinLevel(op) ==
  CASE op = "or" -> 1 [] op = "and" -> 2 [] op \in {"+", "-"} -> 5 [] op \in {"*", "/"} -> 6 [] OTHER -> 4
Level(x) ==
  CASE x.e = "bin" -> BinLevel(x.op) [] x.e = "isnull" -> 4
    [] x.e = "un" -> (IF x.op = "not" THEN 3 ELSE 7) [] OTHER -> 8
\* The level an operand is written at: comparisons do not chain, the others group
\* to the left.
OperandLevel(x, side) ==
  CASE Level(x) = 4 -> 5
    [] x.e = "bin" /\ Level(x) # 4 -> IF side = "l" THEN Level(x) ELSE Level(x) + 1
    [] x.e = "un" -> Level(x)
    [] OTHER -> 1
Word(op) == IF op \in {"starts", "ends"} THEN Id(<<op>>) \o T("with")
            ELSE IF op \in {"contains", "in"} THEN Id(<<op>>) ELSE T(op)

RECURSIVE WriteExpr(_, _)
WriteExpr(x, level) ==
  LET Operand(y, side) == WriteExpr(y, OperandLevel(x, side))
      Whole(y) == WriteExpr(y, 1)
      text ==
        CASE x.e = "lit" -> WriteValue(x.v)
          [] x.e = "var" -> Id(x.name)
          [] x.e = "prop" -> Id(x.of) \o T(".") \o Id(<<x.key>>)
          [] x.e = "param" -> T("$") \o Id(x.name)
          [] x.e = "star" -> T("*")
          [] x.e = "bin" -> Operand(x.l, "l") \o Word(x.op) \o Operand(x.r, "r")
          [] x.e = "un" -> T(IF x.op = "neg" THEN "-" ELSE "not") \o Operand(x.x, "r")
          [] x.e = "isnull" -> Operand(x.x, "l") \o T("is") \o (IF x.neg THEN T("not") ELSE <<>>) \o T("null")
          [] x.e = "agg" -> T(x.func) \o T("(") \o Whole(x.arg) \o T(")")
          [] x.e = "call" -> Id(<<x.fn>>) \o T("(") \o Listed(x.args, Whole) \o T(")")
          [] x.e = "items" -> T("[") \o Listed(x.seq, Whole) \o T("]")
          [] x.e = "at" -> Whole(x.list) \o T("[") \o Whole(x.index) \o T("]")
          [] x.e = "pred" -> Id(<<x.kind>>) \o T("(") \o Id(x.bound) \o Id(<<"in">>) \o Whole(x.list)
                             \o T("where") \o Whole(x.body) \o T(")")
  IN  IF Level(x) < level THEN T("(") \o text \o T(")") ELSE text

\* How deep the parser nests in what WriteExpr writes: a sign, a parenthesis, a
\* bracket or the argument of a call each count one.
RECURSIVE Nesting(_, _)
Nesting(x, level) ==
  LET Deepest(S) == IF S = {} THEN 0 ELSE Max(S)
      own == CASE x.e = "bin" -> Deepest({Nesting(x.l, OperandLevel(x, "l")), Nesting(x.r, OperandLevel(x, "r"))})
               [] x.e = "un" -> 1 + Nesting(x.x, OperandLevel(x, "r"))
               [] x.e = "isnull" -> Nesting(x.x, OperandLevel(x, "l"))
               [] x.e = "at" -> Deepest({Nesting(x.list, 1), 1 + Nesting(x.index, 1)})
               [] x.e = "lit" -> IF ~Is(x.v, "list") THEN 0
                                 ELSE Deepest({1 + Nesting(Lit(x.v.list[k]), 1) : k \in 1..Len(x.v.list)})
               [] OTHER -> Deepest({1 + Nesting(y, 1) : y \in Parts(x) \ {Star}})
  IN  IF Level(x) < level THEN 1 + own ELSE own

WriteProps(props, F(_)) ==
  IF props = <<>> THEN <<>>
  ELSE T("{") \o Listed(props, LAMBDA f : Id(<<f.key>>) \o T(":") \o F(f)) \o T("}")
Label(l) == IF l = <<>> THEN <<>> ELSE T(":") \o Id(l)
WriteNode(np) == T("(") \o IdIf(np.var) \o Label(np.label) \o WriteProps(np.props, LAMBDA f : WriteValue(f.v)) \o T(")")
WriteHop(h) ==
  LET e == h.edge
      Bound(k) == IF k < 0 THEN <<>> ELSE WriteValue(IntV(k))
      length == CASE e.min = -1 -> <<>>
                  [] e.min # -1 /\ (e.min = e.max \/ (e.min = NoMin /\ e.max = -1)) -> T("*") \o Bound(e.min)
                  [] OTHER -> T("*") \o Bound(e.min) \o T("..") \o Bound(e.max)
  IN  T(IF e.dir = "in" THEN "<-" ELSE "-") \o T("[") \o IdIf(e.var) \o Label(e.label)
      \o WriteProps(e.props, LAMBDA f : WriteValue(f.v)) \o length \o T("]")
      \o T(IF e.dir = "out" THEN "->" ELSE "-") \o WriteNode(h.node)
WriteMatch(mc) ==
  T("match") \o (IF mc.path = <<>> THEN <<>> ELSE Id(mc.path) \o T("="))
  \o Listed(mc.patterns, LAMBDA pp : WriteNode(pp.start) \o FlattenSeq(MapSeq(pp.hops, WriteHop)))

Whole(x) == WriteExpr(x, 1)
Where(w) == IF w = True3 THEN <<>> ELSE T("where") \o Whole(w)
WriteItem(i) == Whole(i.x) \o (IF i.as = <<>> THEN <<>> ELSE T("as") \o Id(i.as))
WriteItems(word, r) == T(word) \o (IF r.distinct THEN T("distinct") ELSE <<>>) \o Listed(r.items, WriteItem)
Order(o) == IF o = <<>> THEN <<>>
            ELSE T("order") \o T("by") \o Listed(o, LAMBDA i : Whole(i.x) \o (IF i.asc THEN <<>> ELSE T("desc")))
Bounded(word, k) == IF k = -1 THEN <<>> ELSE T(word) \o WriteValue(IntV(k))
WriteWith(word, w) == WriteItems(word, w) \o Where(w.where) \o Order(w.order) \o Bounded("skip", w.skip)
                      \o Bounded("limit", w.limit)
WriteUnwind(list, x) == T("unwind") \o Whole(list) \o T("as") \o Id(x)

WriteAssignment(a) ==
  Id(a.var) \o (IF a.how = "." THEN T(".") \o Id(<<a.key>>) \o T("=") ELSE T(a.how)) \o Whole(a.x)
WriteSet(c) == T("set") \o Listed(c.assignments, WriteAssignment)
CreateProps(props) == WriteProps(props, LAMBDA f : Whole(f.x))
\* Each pattern of CREATE by itself: an edge between two variables.
WriteCreate(pat) ==
  IF pat.c = "node"
  THEN T("(") \o IdIf(pat.var) \o Label(pat.label) \o CreateProps(pat.props)
       \o FlattenSeq(MapSeq(pat.map, Whole)) \o T(")")
  ELSE T("(") \o Id(pat.from) \o T(")") \o T("-") \o T("[") \o Label(pat.label) \o CreateProps(pat.props)
       \o T("]") \o T("->") \o T("(") \o Id(pat.to) \o T(")")
OnSet(word, cs) == FlattenSeq(MapSeq(cs, LAMBDA c : Id(<<"on">>) \o T(word) \o WriteSet(c)))
WriteClause(c) ==
  CASE c.op = "create" -> T("create") \o Listed(c.patterns, WriteCreate)
    [] c.op = "set" -> WriteSet(c)
    [] c.op = "delete" -> (IF c.detach THEN T("detach") ELSE <<>>) \o T("delete") \o Listed(c.vars, Id)
    [] c.op = "merge" ->
         T("merge") \o T("(") \o IdIf(c.var) \o Label(c.label) \o CreateProps(c.props) \o T(")")
         \o OnSet("create", c.on_create) \o OnSet("match", c.on_match)
         \o (IF c.return = <<>> THEN <<>> ELSE T("return") \o Id(c.return))

WriteStage(st) ==
  CASE st.kind = "match" -> WriteMatch(st) \o Where(st.where)
    [] st.kind = "unwind" -> WriteUnwind(st.list, st.var)
    [] st.kind = "with" -> WriteWith("with", st)

\* A mutation is written with the condition `where` its client meant.
Write(s) ==
  CASE s.kind \in {"match", "unwind"} ->
         (IF s.kind = "unwind" THEN WriteUnwind(s.list, s.uvar) ELSE <<>>)
         \o WriteMatch(s) \o Where(s.where) \o WriteItems("return", s)
         \o (IF s.group = <<>> THEN <<>> ELSE T("group") \o T("by") \o Listed(s.group, Whole))
         \o Order(s.order) \o Bounded("limit", s.limit)
    [] s.kind = "pipeline" ->
         FlattenSeq(MapSeq(s.stages, WriteStage))
         \o (IF "kind" \in DOMAIN s.return THEN WriteWith("return", s.return) ELSE WriteClause(s.return))
    [] s.kind = "const" ->
         WriteItems("return", s) \o FlattenSeq(MapSeq(s.skip, LAMBDA x : T("skip") \o Whole(x)))
         \o FlattenSeq(MapSeq(s.limit, LAMBDA x : T("limit") \o Whole(x)))
    [] s.kind = "mutation" ->
         FlattenSeq(MapSeq(s.unwind, LAMBDA uw : WriteUnwind(uw.list, uw.var)))
         \o FlattenSeq(MapSeq(s.match, WriteMatch)) \o Where(s.where) \o WriteClause(s.clause)
         \o FlattenSeq(MapSeq(s.return, LAMBDA ret : WriteItems("return", ret)))

\* What the statement of the parser says of a written one: a mutation has no place
\* for a condition.
Meant(s) == IF s.kind = "mutation" THEN [f \in DOMAIN s \ {"where"} |-> s[f]] ELSE s

----------------------------------------------------------------------------
InitParse == written \in Written /\ tokens = Write(written) /\ parsed = Err /\ reading = "written"

Parse ==
  /\ reading = "written"
  /\ parsed' = Clause("statement", 1) /\ reading' = "parsed"
  /\ UNCHANGED <<written, tokens>>

\* The text in which the parameters that have a literal are written out.
WrittenOut(params) ==
  FlattenSeq([k \in 1..Len(tokens) |->
    CASE tokens[k].t = "$" /\ ~Is(params[tokens[k + 1].name], "map") -> WriteValue(params[tokens[k + 1].name])
      [] k > 1 /\ tokens[k].t = "ident" ->
           IF tokens[k - 1].t = "$" /\ ~Is(params[tokens[k].name], "map") THEN <<>> ELSE <<tokens[k]>>
      [] OTHER -> <<tokens[k]>>])
NamedParams == {tokens[k + 1].name : k \in {j \in 1..Len(tokens) : tokens[j].t = "$"}}

\* Substitution; `tokens` becomes the text a client without parameters writes.
BindParameters(params) ==
  /\ reading = "parsed" /\ parsed.ok
  /\ parsed' = apply(parsed.v, params) /\ reading' = "bound"
  /\ tokens' = IF NamedParams \subseteq DOMAIN params THEN WrittenOut(params) ELSE <<>>
  /\ UNCHANGED written

NextParse == Parse \/ \E params \in Parameters : BindParameters(params)

\* The nesting of the expressions of a written statement.
ExprsWritten(s) ==
  CASE s.kind \in {"match", "unwind"} -> {s.where} \cup {s.items[k].x : k \in 1..Len(s.items)}
    [] OTHER -> {}
TooDeep(s) == \E x \in ExprsWritten(s) : Nesting(x, 1) > MaxExprDepth

\* What is written without needless parentheses is read back as it was meant, in
\* every clause and with the precedence and the grouping of the operators, or
\* refused exactly when its expressions nest deeper than MAX_EXPR_DEPTH
\* (parse_statement, parse_or to parse_primary, enter_expr).
ReadsWhatIsWritten ==
  (reading = "parsed") => parsed.ok = ~TooDeep(written) /\ (parsed.ok => parsed.v = Meant(written))

\* The condition between MATCH and a mutation takes part in what is read: the
\* statement is refused or differs from the one written without WHERE
\* (parse_after_match is given the conditions of all the MATCH clauses).
WhereIsKept ==
  (reading = "parsed" /\ parsed.ok /\ written.kind = "mutation" /\ written.where # Lit(BoolV(TRUE))) =>
    parsed.v # Meant([written EXCEPT !.where = Lit(BoolV(TRUE))])

Agree(a, b) == a.ok = b.ok /\ (b.ok => a.v = b.v)

\* A query that the older entry point accepts means the same to both
\* (parse, parse_statement, inject_unwind).
EntryPointsAgree == (reading = "parsed" /\ Clause("query", 1).ok) => Agree(parsed, Clause("query", 1))

\* Substitution of parameters is substitution in the text: it reaches every
\* expression of every clause, leaves nothing but maps, and refuses a statement
\* one of whose parameters is missing (param_substitution::apply).
SubstitutionIsTextual == (reading = "bound") => Agree(parsed, Clause("statement", 1))

\* A statement means what was written: read back by the parser, the same by
\* both entry points, and the same as its text with the parameters written in.
StatementsReadBack ==
  ReadsWhatIsWritten /\ EntryPointsAgree /\ SubstitutionIsTextual

=============================================================================
