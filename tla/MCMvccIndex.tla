---------------------------- MODULE MCMvccIndex ----------------------------
(***************************************************************************)
(* The small instances of MvccIndex: the values a and b share a label and  *)
(* a property, c has another label.                                        *)
(***************************************************************************)
EXTENDS MvccIndex

CONSTANTS a, b, c

NoEdges == [e \in {} |-> {}]

\* Edge 2 is a loop on node 1.
Loop == [e \in {2} |-> {1}]

Labels == [v \in {a, b, c} |-> IF v = c THEN "B" ELSE "A"]
Props == [v \in {a, b, c} |-> CASE v = a -> {"p"} [] v = b -> {"p", "q"} [] v = c -> {}]

\* One relabelling apart.
TwoLabels == [v \in {a, c} |-> Labels[v]]
TwoProps == [v \in {a, c} |-> Props[v]]

=============================================================================
