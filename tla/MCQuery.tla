------------------------------ MODULE MCQuery ------------------------------
(***************************************************************************)
(* Small graphs and a catalogue of queries for the read side of the query  *)
(* language, small graphs and calls for the searches, texts to read and to *)
(* split into tokens, pairs of statements that write, and texts in Cypher, *)
(* each explored by itself.                                                *)
(***************************************************************************)
EXTENDS GqlMutate, GraphSearch, GqlParse, GqlLex, CypherFront

----------------------------------------------------------------------------
(* Graphs: three nodes, the third a B, up to three edges; and some whose   *)
(* indexes list old versions, of a node that is there or was deleted.      *)

s1 == StrV(<<2>>)
Forge(a) == StrV(<<2, 31, 30, 83>> \o a)      \* holds the separators of a key
PropChoices == {<<>>, ("x" :> IntV(1)), ("x" :> IntV(2) @@ "y" :> s1),
                ("x" :> Forge(<<2>>) @@ "y" :> s1)}
MCNode(i, l, f) == [id |-> i, label |-> <<l>>, props |-> f]
MCEdge(i, l, s, d) == [id |-> i, label |-> <<l>>, props |-> "w" :> IntV(i), src |-> s, dst |-> d]
EdgeLists == {<<>>}
  \cup {<<MCEdge(1, "R", p[1], p[2])>> : p \in {<<1, 2>>, <<2, 2>>}}
  \cup {<<MCEdge(1, "R", p[1], p[2]), MCEdge(2, l, q[1], q[2])>> :
          p \in {<<1, 2>>, <<2, 3>>, <<2, 2>>}, q \in {<<2, 3>>, <<1, 2>>, <<3, 1>>}, l \in {"R", "S"}}
  \cup {<<MCEdge(1, l, 1, 3), MCEdge(2, "R", 1, 2), MCEdge(3, "R", 2, 3)>> : l \in {"R", "S"}}
MCGraphs ==
  {[nodes |-> <<MCNode(1, "A", f), MCNode(2, l, h), MCNode(3, "B", k)>>, edges |-> es, old |-> {}] :
     f \in PropChoices \ {"x" :> Forge(<<2>>) @@ "y" :> s1}, h \in PropChoices, l \in {"A", "B"},
     k \in {"x" :> IntV(1)}, es \in EdgeLists}
  \cup {[nodes |-> <<MCNode(1, "A", "x" :> Forge(<<2>>) @@ "y" :> s1),
                     MCNode(2, "A", "x" :> s1 @@ "y" :> Forge(<<2>>)), MCNode(3, "B", <<>>)>>,
         edges |-> <<>>, old |-> {}]}
  \cup {[nodes |-> <<MCNode(1, "A", "x" :> IntV(2) @@ "y" :> StrV(<<4>>)), second, MCNode(3, "B", "x" :> IntV(2))>>,
         edges |-> es, old |-> {MCNode(1, "A", "x" :> IntV(1)), MCNode(2, "A", "x" :> IntV(2))} \cup more] :
           second \in {MCNode(0, "A", "x" :> IntV(2)), MCNode(2, "A", "y" :> StrV(<<4>>)), MCNode(2, "B", "x" :> IntV(2))},
           es \in {<<>>, <<MCEdge(1, "R", 1, 3), MCEdge(2, "S", 3, 1)>>},
           more \in {{}, {MCNode(3, "B", "x" :> IntV(1)), MCNode(3, "B", <<>>)}}}
MCHashes == {<<1, 2, 1, 2, 1, 2, 1, 2, 1, 2, 1, 2>>}

----------------------------------------------------------------------------
(* Queries.                                                                *)

n == <<"n">>
m == <<"m">>
r == <<"r">>
u == <<"u">>
v == <<"v">>
A == <<"A">>
B == <<"B">>
R == <<"R">>
True == Lit(BoolV(TRUE))
One == Lit(IntV(1))
NP(x, l) == [var |-> x, label |-> l, props |-> <<>>]
NPx(x, l, val) == [var |-> x, label |-> l, props |-> <<[key |-> "x", v |-> IntV(val)]>>]
NPxy(x, l) == [var |-> x, label |-> l,
               props |-> <<[key |-> "x", v |-> IntV(2)], [key |-> "y", v |-> StrV(<<4>>)]>>]
EP(x, l, d) == [var |-> x, label |-> l, dir |-> d, props |-> <<>>, min |-> -1, max |-> -1]
EV(x, l, d, lo, hi) == [var |-> x, label |-> l, dir |-> d, props |-> <<>>, min |-> lo, max |-> hi]
Node(np) == [start |-> np, hops |-> <<>>]
Hop(a, e, b) == [start |-> a, hops |-> <<[edge |-> e, node |-> b]>>]
Hop2(a, e, b, f, c) == [start |-> a, hops |-> <<[edge |-> e, node |-> b], [edge |-> f, node |-> c]>>]
It(x) == [x |-> x, as |-> <<>>]
As(x, c) == [x |-> x, as |-> c]
Asc(x) == [x |-> x, asc |-> TRUE]
Desc(x) == [x |-> x, asc |-> FALSE]
nx == Prop(n, "x")
ny == Prop(n, "y")
mx == Prop(m, "x")
Count == Agg("count", Star)

Q(pats, where, items) ==
  [kind |-> "match", path |-> <<>>, patterns |-> pats, where |-> where, items |-> items,
   group |-> <<>>, order |-> <<>>, distinct |-> FALSE, limit |-> Absent, cap |-> 0]
Pairs == <<Hop(NP(n, <<>>), EP(r, <<>>, "out"), NP(m, <<>>))>>
AllN == <<Node(NP(n, <<>>))>>
AllM == <<Node(NP(m, <<>>))>>
Lt(a, b) == Bin(a, "<", b)

MatchQueries ==
  { Q(AllN, Bin(Lt(nx, Lit(IntV(2))), "or", Bin(ny, "=", Lit(s1))), <<It(Var(n))>>),
    Q(AllN, Bin(Un("not", Lt(nx, Lit(IntV(2)))), "and", IsNull(ny, FALSE)), <<It(nx)>>),
    Q(Pairs, Bin(Bin(nx, "<=", mx), "or", Bin(Call("type", <<Var(r)>>), "=", Lit(StrV(R)))),
      <<It(Prop(r, "w"))>>),
    Q(<<Node(NPxy(n, A))>>, True, <<It(nx)>>),
    Q(<<Hop(NPx(n, <<>>, 1), EP(r, R, "in"), NPx(m, B, 1))>>, True, <<It(nx), It(mx)>>),
    Q(<<Hop2(NP(n, <<>>), EP(r, <<>>, "out"), NP(m, <<>>), EP(u, <<>>, "in"), NP(v, B))>>, True,
      <<It(Call("id", <<Var(n)>>)), It(Call("id", <<Var(v)>>))>>),
    Q(<<Node(NP(n, A)), Node(NP(m, B))>>, True, <<It(nx), It(mx)>>),
    [Q(AllN, True, <<It(nx), It(Call("id", <<Var(n)>>))>>) EXCEPT !.order = <<Desc(nx)>>],
    [Q(Pairs, True, <<It(nx), It(mx), It(Prop(r, "w"))>>)
       EXCEPT !.order = <<Asc(mx), Desc(nx)>>, !.limit = 2],
    [Q(AllN, True, <<It(nx), It(Call("size", <<ny>>))>>)
       EXCEPT !.order = <<Desc(Call("size", <<ny>>)), Asc(nx)>>],
    [Q(AllN, True, <<It(nx), It(ny)>>) EXCEPT !.distinct = TRUE],
    [Q(Pairs, True, <<It(Items(<<nx, mx>>))>>) EXCEPT !.distinct = TRUE],
    [Q(AllN, True, <<It(nx), It(ny), It(Count), It(Agg("collect", Call("id", <<Var(n)>>)))>>)
       EXCEPT !.group = <<nx, ny>>],
    [Q(Pairs, True, <<It(nx), It(Agg("sum", Prop(r, "w"))), It(Agg("max", mx)), It(Agg("avg", mx))>>)
       EXCEPT !.group = <<nx>>],
    [Q(AllN, True, <<It(nx), As(Count, u)>>) EXCEPT !.group = <<nx>>, !.order = <<Desc(nx)>>, !.limit = 2],
    [Q(AllN, True, <<It(nx), As(ny, v), It(Count)>>)
       EXCEPT !.group = <<ny, nx>>, !.order = <<Desc(Count), Asc(ny), Desc(nx)>>],
    [Q(AllN, True, <<It(nx), It(Bin(Count, "+", One))>>) EXCEPT !.group = <<nx>>],
    Q(AllN, Bin(nx, "in", Lit(ListV(<<IntV(1), s1>>))), <<It(Agg("min", ny)), It(Agg("count", nx))>>),
    Q(<<Node(NP(n, A))>>, True, <<It(Agg("max", ny)), It(Agg("collect", ny)), It(Agg("count", nx))>>),
    Q(<<Node(NPx(n, A, 1))>>, True, <<It(Count), It(Agg("count", Var(n)))>>),
    Q(<<Hop(NP(n, A), EP(<<>>, <<>>, "out"), NP(m, B))>>, True, <<It(Count)>>),
    Q(<<Hop(NP(n, B), EP(<<>>, R, "in"), NP(m, A))>>, True, <<As(Agg("count", Var(n)), u)>>),
    Q(<<Hop(NP(n, B), EP(<<>>, R, "both"), NP(m, <<>>))>>, True, <<It(Agg("count", mx))>>),
    Q(<<Node(NPx(n, <<>>, 1))>>, True, <<It(Agg("count", Var(n)))>>),
    Q(<<Hop(NP(n, A), EP(<<>>, <<>>, "out"), NPx(m, B, 2))>>, True, <<It(Count)>>),
    [Q(<<Hop(NP(n, <<>>), EP(<<>>, <<>>, "both"), NP(m, <<>>))>>, True, <<It(Var(n))>>)
       EXCEPT !.distinct = TRUE],
    [Q(<<Hop(NP(n, A), EV(r, R, "out", 1, 2), NP(m, <<>>))>>, True,
       <<It(Call("length", <<Var(v)>>))>>) EXCEPT !.path = v],
    [Q(<<Hop(NP(n, <<>>), EV(<<>>, <<>>, "both", 0, -1), NP(m, B))>>,
       Bin(Call("length", <<Var(v)>>), "<", Lit(IntV(2))), <<It(mx)>>) EXCEPT !.path = v],
    [Q(<<Hop(NP(n, A), EV(r, R, "out", NoMin, 2), NP(m, <<>>))>>, True, <<It(mx)>>) EXCEPT !.path = v],
    Q(<<Hop(NP(n, A), EV(<<>>, R, "in", NoMin, -1), NP(m, B))>>, True, <<It(mx)>>),
    [Q(<<Hop(NP(n, <<>>), EP(r, R, "out"), NP(m, <<>>))>>, True, <<It(Var(v))>>) EXCEPT !.path = v],
    [Q(AllN, True, <<It(nx)>>) EXCEPT !.cap = 2],
    Q(AllN, True, <<It(nx), It(mx)>>),
    Q(AllN, True, <<It(nx), It(Count)>>),
    Q(<<Hop(NP(n, <<>>), EP(r, R, "out"), NP(n, <<>>))>>, True, <<It(nx)>>) }

Unwind(q, list, x) ==
  [q EXCEPT !.kind = "unwind"] @@ [list |-> list, uvar |-> x]
UnwindQueries ==
  LET list == Lit(ListV(<<IntV(1), IntV(2), Null>>))
      range == Call("range", <<One, Lit(IntV(3))>>)
  IN  { Unwind(Q(AllN, Bin(nx, "=", Var(u)), <<It(Var(u)), It(Bin(nx, "+", Var(u)))>>), list, u),
        Unwind(Q(AllN, Un("not", Bin(nx, "<", Var(u))), <<It(Un("neg", Var(u))), It(nx)>>), range, u),
        Unwind(Q(Pairs, IsNull(Var(u), TRUE), <<It(IsNull(Prop(u, "x"), FALSE)), It(mx)>>), list, u),
        Unwind([Q(AllN, True, <<It(Var(u))>>) EXCEPT !.order = <<Desc(Var(u))>>, !.distinct = TRUE], range, u),
        Unwind([Q(AllN, True, <<It(nx), As(Var(u), v)>>) EXCEPT !.order = <<Asc(nx), Desc(Var(u))>>, !.limit = 4], list, u),
        Unwind([Q(Pairs, True, <<It(mx), It(Var(u))>>) EXCEPT !.order = <<Desc(mx), Asc(Var(u))>>], range, u),
        Unwind(Q(AllN, True, <<As(Agg("sum", Var(u)), v), It(Count)>>), list, u),
        Unwind(Q(AllN, True, <<It(Var(u)), It(Count)>>), list, u),
        Unwind(Q(AllN, True, <<It(Var(u))>>), Lit(Null), u) }

W(items) == [kind |-> "with", items |-> items, distinct |-> FALSE, where |-> True,
             order |-> <<>>, skip |-> Absent, limit |-> Absent]
M(pats, where) == [kind |-> "match", path |-> <<>>, patterns |-> pats, where |-> where]
U(list, x) == [kind |-> "unwind", list |-> list, var |-> x]
P(stages, ret) == [kind |-> "pipeline", stages |-> stages, return |-> ret]
PipelineQueries ==
  { P(<<M(Pairs, True), W(<<It(Var(n)), As(Count, u)>>)>>,
      [W(<<As(nx, v), It(Var(u))>>) EXCEPT !.order = <<Desc(Var(u)), Asc(Var(v))>>, !.limit = 2]),
    P(<<M(Pairs, True), W(<<It(Var(n)), It(Var(r))>>)>>, [W(<<It(Var(n))>>) EXCEPT !.distinct = TRUE]),
    P(<<M(AllN, True), [W(<<As(nx, u), It(Var(n))>>) EXCEPT !.where = IsNull(Var(u), TRUE)]>>,
      [W(<<It(Var(u)), It(ny)>>) EXCEPT !.distinct = TRUE, !.order = <<Desc(Var(u))>>]),
    P(<<M(AllN, True), W(<<As(Agg("collect", nx), u)>>), U(Var(u), v)>>,
      [W(<<It(Var(v)), It(Call("size", <<Var(u)>>))>>) EXCEPT !.order = <<Asc(Var(v))>>, !.skip = 1]),
    P(<<M(AllN, True), W(<<As(Agg("collect", Var(n)), u)>>), U(Var(u), v), W(<<It(Var(v)), As(At(Var(u), Lit(IntV(0))), n)>>)>>,
      W(<<It(Prop(v, "x")), It(nx)>>)),
    P(<<M(Pairs, True), W(<<It(Var(m))>>)>>, W(<<It(nx)>>)),
    P(<<M(Pairs, True), W(<<It(Var(m))>>), W(<<As(ListPred("any", v, Lit(ListV(<<IntV(1)>>)), Lt(nx, Var(v))), u)>>)>>,
      W(<<It(Var(u))>>)),
    P(<<M(AllN, True), [W(<<As(Var(n), m)>>) EXCEPT !.order = <<Desc(mx)>>, !.limit = 2]>>,
      W(<<It(ListPred("all", v, Items(<<mx, One>>), Bin(Var(v), ">=", One)))>>)),
    P(<<M(Pairs, Bin(nx, "<>", mx)),
        W(<<As(Bin(Agg("sum", nx), "+", Agg("count", mx)), u), As(Agg("min", mx), v)>>)>>,
      W(<<It(Var(u)), It(Var(v)), It(At(Items(<<Var(u)>>), Lit(IntV(0))))>>)),
    P(<<M(AllN \o AllM, True), W(<<It(Var(n)), It(Var(m))>>)>>, W(<<It(nx)>>)),
    P(<<U(Lit(ListV(<<IntV(1), IntV(2)>>)), u), M(AllN, Bin(nx, "=", Var(u))), W(<<It(Var(u)), It(Var(n))>>),
        U(Call("range", <<One, Var(u)>>), v)>>,
      W(<<It(Var(u)), It(Agg("sum", Var(v)))>>)) }

ConstQuery(x, skip, limit) ==
  [kind |-> "const", items |-> <<As(x, u)>>, distinct |-> FALSE, skip |-> skip, limit |-> limit]
ConstQueries ==
  {ConstQuery(Bin(One, "+", One), sk, li) :
     sk \in {<<>>, <<Lit(IntV(0))>>, <<Un("neg", One)>>}, li \in {<<>>, <<Lit(IntV(0))>>, <<One>>, <<Param(n)>>}}

MCQueries == ConstQueries \cup MatchQueries \cup UnwindQueries \cup PipelineQueries

----------------------------------------------------------------------------
(* Searches.                                                               *)

Three == 1..3
SearchEdge == [src : Three, dst : Three, label : {"R"}, cost : {1}]
LabelledEdge == [src : {1, 2}, dst : Three, label : {"R", "S"}, cost : {1, 3}]
MCEdges ==
  {<<>>} \cup {<<a, b>> : a \in SearchEdge, b \in LabelledEdge}
  \cup {<<a, b, c>> : a \in {e \in SearchEdge : e.src # e.dst}, b \in SearchEdge,
                      c \in {e \in LabelledEdge : (e.cost = 3) = (e.label = "R")}}
MCTasks ==
  [algo : {"find"}, from : {1}, to : {2, 3}, dir : Directions, label : {"R"}, min : {0}, max : {1, 9}]
  \cup [algo : {"bfs", "dfs"}, from : {1}, to : {1}, dir : {"out", "both"}, label : {"R"}, min : {0}, max : {1, 9}]
  \cup [algo : {"weighted"}, from : {1}, to : {3}, dir : {"out", "both"}, label : {""}, min : {0}, max : {9}]
  \cup [algo : {"expand"}, from : {1}, to : {1}, dir : {"in", "both"}, label : {"R"}, min : {0, 2}, max : {2, 9}]

----------------------------------------------------------------------------
(* Statements to write, read and bind.                                     *)

p1 == <<"p">>
p2 == <<"q">>
Two == Lit(IntV(2))
Atoms == {Var(n), One}
Ops == {"or", "and", "=", "<", "+", "-", "*", "/", "starts"}
Joined(S, T2) == {Bin(x, op, y) : x \in S, op \in Ops, y \in T2}
Signed(S) == {Un("not", x) : x \in S} \cup {Un("neg", x) : x \in S} \cup {IsNull(x, neg) : x \in S, neg \in BOOLEAN}
OneDeep == Joined(Atoms, {One}) \cup Signed(Atoms)
TwoDeep == Joined(OneDeep, {One}) \cup Joined({Var(n)}, OneDeep) \cup Signed(OneDeep)
OddExprs ==
  {At(Items(<<nx, At(Var(u), One)>>), Bin(One, "+", Var(v))), Call("coalesce", <<Bin(nx, "or", ny), Lit(Null)>>),
   Bin(nx, "in", Lit(ListV(<<IntV(1), ListV(<<s1>>)>>))), Un("not", Bin(Un("not", nx), "and", Un("neg", Un("neg", One)))),
   ListPred("single", u, Var(v), Bin(Bin(Var(u), "-", Bin(One, "-", Two)), "contains", ny)),
   Bin(Agg("count", Star), "+", Agg("sum", Bin(nx, "*", Two))),
   Un("neg", Un("neg", Un("neg", Un("neg", One)))), Un("neg", Bin(One, "+", Un("neg", Bin(One, "+", Un("neg", One)))))}
Written1(x) == Q(AllN, x, <<It(nx)>>)

Assign(x, k, e) == [var |-> x, how |-> ".", key |-> k, x |-> e]
AssignMap(x, how, e) == [var |-> x, how |-> how, key |-> "", x |-> e]
SetC(as) == [op |-> "set", assignments |-> as]
Del(detach, vars) == [op |-> "delete", detach |-> detach, vars |-> vars]
NewN(x, l, f) == [c |-> "node", var |-> x, label |-> l, props |-> f, map |-> <<>>]
NewE(x, l, y) == [c |-> "edge", from |-> x, label |-> l, props |-> <<>>, to |-> y]
Field(k, e) == [key |-> k, x |-> e]
MergeC(x, l, f, oc, om, ret) ==
  [op |-> "merge", var |-> x, label |-> l, props |-> f, on_create |-> oc, on_match |-> om, return |-> ret]
Mut(mc, where, clause, ret) ==
  [kind |-> "mutation", unwind |-> <<>>, match |-> mc, where |-> where, clause |-> clause, return |-> ret]
MC1(pats) == <<[path |-> <<>>, patterns |-> pats]>>
Ret(items) == <<[distinct |-> FALSE, items |-> items]>>
Over(list, x) == <<[list |-> list, var |-> x]>>
Const(items) == [kind |-> "const", items |-> items, distinct |-> FALSE, skip |-> <<Two>>, limit |-> <<Param(p1)>>]

MutationTexts ==
  { Mut(<<>>, True, [op |-> "create", patterns |-> <<NewN(n, A, <<Field("x", Param(p1))>>),
                       [NewN(m, A, <<>>) EXCEPT !.map = <<Param(p2)>>], NewE(n, R, m)>>], Ret(<<It(nx)>>)),
    Mut(MC1(Pairs), True, SetC(<<Assign(n, "x", Bin(nx, "+", Param(p1))), AssignMap(m, "=", Param(p2)),
                                 AssignMap(r, "+=", Var(u))>>), Ret(<<It(nx), As(Var(m), v)>>)),
    Mut(MC1(Pairs), True, Del(TRUE, <<n, r>>), <<>>),
    Mut(MC1(AllN), Bin(nx, "=", One), Del(TRUE, <<n>>), <<>>),
    Mut(MC1(AllN), Lt(nx, Two), SetC(<<Assign(n, "y", One)>>), <<>>),
    [Mut(<<>>, True, MergeC(n, A, <<Field("x", Param(p1)), Field("y", Var(u))>>, <<SetC(<<Assign(n, "y", One)>>)>>,
           <<SetC(<<Assign(n, "y", Param(p1))>>)>>, n), <<>>) EXCEPT !.unwind = Over(Param(p1), u)],
    [Mut(MC1(AllN), True, Del(FALSE, <<n>>), <<>>) EXCEPT !.unwind = Over(Lit(ListV(<<IntV(1)>>)), u)],
    Const(<<As(Bin(Param(p1), "+", One), v)>>) }
BoundTexts ==
  { [Q(AllN, Bin(nx, "=", Param(p1)), <<It(ListPred("any", u, Param(p1), Bin(Var(u), "<", Param(p1))))>>)
       EXCEPT !.order = <<Desc(Items(<<Param(p1), nx>>))>>, !.group = <<Call("coalesce", <<Param(p2), nx>>)>>],
    Unwind(Q(AllN, IsNull(Param(p1), TRUE), <<It(Agg("sum", Param(p1)))>>), Items(<<Param(p1), Call("size", <<Param(p1)>>)>>), u),
    P(<<U(Param(p1), u), M(AllN, Bin(nx, "=", Param(p1))), [W(<<As(Param(p1), v)>>) EXCEPT !.where = Param(p1)]>>,
      [W(<<As(At(Var(v), Param(p1)), u)>>) EXCEPT !.order = <<Asc(Un("neg", Param(p1)))>>]),
    P(<<M(AllN, True), W(<<It(Var(n))>>)>>, SetC(<<Assign(n, "x", Param(p1))>>)),
    P(<<M(AllN, True), W(<<It(Var(n))>>)>>, Del(FALSE, <<n>>)) }
MCWritten ==
  {Written1(x) : x \in OneDeep \cup TwoDeep \cup OddExprs}
  \cup {[q EXCEPT !.cap = 0] : q \in MatchQueries} \cup UnwindQueries \cup PipelineQueries
  \cup MutationTexts \cup BoundTexts
MCParameters ==
  {p1 :> IntV(2) @@ p2 :> MapV("x" :> IntV(1)), p1 :> ListV(<<IntV(1), Null>>) @@ p2 :> MapV(NoFun),
   p2 :> MapV(NoFun)}

----------------------------------------------------------------------------
(* Texts to lex.                                                           *)

Alphabet == {"<", "-", ">", "=", ".", "+", "1", "e", "/", " "}
MCTexts ==
  [1..3 -> Alphabet] \cup {<<"<">> \o s : s \in [1..3 -> Alphabet \ {"1", "e", "="}]}
  \cup {<<"9", "9", c>> \o d : c \in {"9", "e", "."}, d \in {<<>>, <<"-", "1">>, <<"1">>}}
  \cup {<<"quote", c, d, "quote">> : c \in {"bslash", "n", "quote"}, d \in {"quote", "n", "bslash", "a"}}
  \cup {<<"1", "2", "9">>, <<"O", "r", "nl", "/", "/", "a", "nl", "i", "S">>, <<"N", "o", "t", "1">>, <<"back", "back">>}
Plain(t, s) == [t |-> t, s |-> s]
Carried == {<<c, d>> : c \in {"quote", "back", "bslash", "nl", "n"}, d \in {"quote", "back", "bslash", "t"}}
MCWrittenTokens ==
  {<<Plain(t, s), Plain("str", s), Plain(x, <<>>)>> : t \in {"ident", "str"}, s \in Carried, x \in {"not", "<-"}}
  \cup {<<Plain(x, <<>>), Plain(y, <<>>)>> : x \in Signs, y \in Signs}
  \cup {<<Plain("int", <<"1">>), Plain("..", <<>>), Plain("float", <<"1", ".", "0">>), Plain(".", <<>>)>>}

----------------------------------------------------------------------------
(* Statements that write, two at a time.                                   *)

K == <<"K">>      \* the label under the constraint
Three3 == [nodes |-> <<MCNode(1, "K", "x" :> IntV(1)), MCNode(2, "K", "x" :> IntV(2)), MCNode(3, "B", "x" :> IntV(1))>>,
           edges |-> <<>>, old |-> {}]
MCPastures ==
  {Three3, [Three3 EXCEPT !.edges = <<MCEdge(1, "R", 1, 2), MCEdge(2, "R", 2, 2), MCEdge(3, "R", 2, 3)>>],
   [Three3 EXCEPT !.edges = <<MCEdge(1, "R", 1, 3), MCEdge(2, "S", 1, 3)>>,
                  !.nodes[2].props = "x" :> IntV(2) @@ "y" :> IntV(1)]}
MCClients == {1, 2}
MCUniqueKeys == {<<K, "x">>}
St(q) == q @@ [params |-> p2 :> MapV("x" :> IntV(3) @@ "y" :> ListV(<<>>))]
NMatch(l) == MC1(<<Node(NP(n, l))>>)
Create(pats) == [op |-> "create", patterns |-> pats]
MCStatements ==
  {St(q) : q \in
    { Mut(<<>>, True, Create(<<NewN(n, K, <<Field("x", Lit(IntV(3)))>>), NewN(m, B, <<Field("x", Lit(Null))>>)>>), Ret(<<It(Var(n))>>)),
      Mut(<<>>, True, Create(<<[NewN(n, <<>>, <<>>) EXCEPT !.map = <<Param(p2)>>], NewE(n, R, n)>>), <<>>),
      Mut(<<>>, True, Del(TRUE, <<n>>), <<>>),
      Mut(MC1(Pairs), True, Create(<<NewN(<<>>, B, <<Field("y", One)>>), NewE(m, R, n)>>), <<>>),
      Mut(MC1(<<Node(NP(n, K)), Node(NP(m, B))>>), True, Create(<<NewE(n, R, m)>>), <<>>),
      Mut(NMatch(K), True, SetC(<<Assign(n, "y", Two), Assign(n, "x", Lit(IntV(3)))>>), Ret(<<It(Var(n))>>)),
      Mut(NMatch(B), True, SetC(<<AssignMap(n, "=", Param(p2))>>), Ret(<<It(nx)>>)),
      Mut(MC1(<<Node(NPx(n, K, 1))>>), True, SetC(<<AssignMap(n, "+=", Param(p2)), AssignMap(n, "=", One)>>), <<>>),
      Mut(NMatch(K), True, Del(TRUE, <<n>>), <<>>),
      Mut(NMatch(K), True, Del(FALSE, <<n>>), <<>>),
      Mut(MC1(Pairs), True, Del(TRUE, <<n, m>>), <<>>),
      Mut(MC1(Pairs), True, Del(FALSE, <<r, n>>), <<>>),
      Mut(<<>>, True, MergeC(n, K, <<Field("x", Two), Field("y", One)>>, <<SetC(<<Assign(n, "x", Lit(IntV(3)))>>)>>, <<>>, n), <<>>),
      Mut(<<>>, True, MergeC(n, B, <<Field("x", One)>>, <<>>, <<SetC(<<Assign(n, "y", Two)>>)>>, <<>>), <<>>),
      Mut(<<>>, True, MergeC(n, K, <<>>, <<>>, <<SetC(<<Assign(n, "y", One)>>)>>, <<>>), <<>>),
      Mut(<<>>, True, MergeC(n, B, <<Field("x", Two), Field("x", One)>>, <<>>, <<SetC(<<Assign(n, "y", Two)>>)>>, n), <<>>),
      Mut(MC1(Pairs), True, MergeC(n, K, <<>>, <<>>, <<>>, <<>>), <<>>),
      [Mut(<<>>, True, Create(<<NewN(n, B, <<Field("x", Var(u)), Field("y", Bin(Var(u), "+", One))>>)>>), <<>>)
         EXCEPT !.unwind = Over(Lit(ListV(<<IntV(1), s1>>)), u)],
      [Mut(NMatch(K), True, Create(<<NewN(m, K, <<Field("x", Bin(Var(u), "+", Two))>>), NewE(n, R, m)>>), <<>>)
         EXCEPT !.unwind = Over(One, u)],
      [Mut(NMatch(K), True, Del(TRUE, <<n>>), <<>>) EXCEPT !.unwind = Over(Lit(ListV(<<IntV(1), s1>>)), u)],
      [Mut(NMatch(K), True, SetC(<<Assign(n, "x", One)>>), <<>>) EXCEPT !.unwind = Over(One, u)],
      P(<<M(Pairs, True), W(<<It(Var(n)), As(Prop(m, "x"), v)>>)>>, SetC(<<Assign(n, "x", Bin(Var(v), "+", Two))>>)),
      P(<<M(Pairs, True), W(<<It(Var(n))>>)>>, Del(TRUE, <<n>>)),
      P(<<M(Pairs, True), W(<<It(Var(r))>>)>>, Del(FALSE, <<r>>)) }}

----------------------------------------------------------------------------
IdleReading ==
  /\ query = [kind |-> "none"] /\ hash = <<>> /\ stage = 0 /\ table = <<>> /\ result = <<>> /\ phase = "idle"
IdleQuery == IdleReading /\ g = [nodes |-> <<>>, edges |-> <<>>, old |-> {}]
IdleMutate == client = [c \in Clients |-> [step |-> "idle"]]
IdleSearch ==
  /\ edges = <<>> /\ task = [algo |-> "none"] /\ frontier = <<>> /\ visited = {}
  /\ parent = <<>> /\ answer = <<>> /\ done = TRUE
IdleParse == written = [kind |-> "none"] /\ tokens = <<>> /\ parsed = Err /\ reading = "idle"
IdleLex == text = <<>> /\ pos = 1 /\ lexed = <<>> /\ lexing = "idle" /\ meant = <<>>

\* Quotes, comments and backticks; keywords next to each other, to other
\* letters and to quotes.
MCThemes == {{Apostrophe, Backtick, "/", "*", DoubleQuote}, {Apostrophe, Backslash, "/", "*", "x"},
             {" ", "WITH", "*", "STARTS", "x", Apostrophe}, {" ", "OPTIONAL", "MATCH", "x", Apostrophe},
             {" ", "REMOVE", "SET", ",", "x"}}

readVars == <<query, hash, stage, table, result, phase>>
vars == <<queryVars, client, searchVars, parseVars, lexVars, cypherVars>>
InitRead == InitQuery /\ IdleSearch /\ IdleParse /\ IdleLex /\ IdleMutate /\ IdleCypher
NextRead == NextQuery /\ UNCHANGED <<client, searchVars, parseVars, lexVars, cypherVars>>
SpecRead == InitRead /\ [][NextRead]_vars

InitParseOnly == InitParse /\ IdleQuery /\ IdleSearch /\ IdleLex /\ IdleMutate /\ IdleCypher
NextParseOnly == NextParse /\ UNCHANGED <<queryVars, client, searchVars, lexVars, cypherVars>>
SpecParseOnly == InitParseOnly /\ [][NextParseOnly]_vars

Init ==
  \/ InitSearch /\ IdleQuery /\ IdleParse /\ IdleLex /\ IdleMutate /\ IdleCypher
  \/ InitParseOnly
  \/ InitLex /\ IdleQuery /\ IdleSearch /\ IdleParse /\ IdleMutate /\ IdleCypher
  \/ InitMutate /\ IdleReading /\ IdleSearch /\ IdleParse /\ IdleLex /\ IdleCypher
  \/ InitCypher /\ IdleQuery /\ IdleSearch /\ IdleParse /\ IdleLex /\ IdleMutate
Next ==
  \/ NextSearch /\ UNCHANGED <<queryVars, client, parseVars, lexVars, cypherVars>>
  \/ NextParseOnly
  \/ LexToken /\ UNCHANGED <<queryVars, client, searchVars, parseVars, cypherVars>>
  \/ NextMutate /\ UNCHANGED <<readVars, searchVars, parseVars, lexVars, cypherVars>>
  \/ NextCypher /\ UNCHANGED <<queryVars, client, searchVars, parseVars, lexVars>>
Spec == Init /\ [][Next]_vars
=============================================================================
