---------------------------- MODULE MCDurability ----------------------------
(***************************************************************************)
(* The small instances of Durability: a node, a loop edge on it and two    *)
(* transactions per life of the process.  Edges are created in the first   *)
(* life of a process that meets no failure; failed commits, batches and    *)
(* second lives are explored with the node alone.                          *)
(***************************************************************************)
EXTENDS Durability

\* Edge 2 is a loop on node 1.
Loop == [e \in {2} |-> {1}]

GraphBudget == [lives |-> 1, flush |-> 1, fail |-> 0, batch |-> 0]
NodeBudgets == {[lives |-> 2, flush |-> 1, fail |-> 0, batch |-> 1],
                [lives |-> 2, flush |-> 0, fail |-> 1, batch |-> 0],
                [lives |-> 1, flush |-> 1, fail |-> 1, batch |-> 0]}
MCBudgets == {GraphBudget} \cup NodeBudgets

NoEdgeEver == nextEdge > MaxNode + MaxEdge /\ \A e \in Edges : page[e] = Absent

InitMC == InitDurability /\ (budget = GraphBudget \/ NoEdgeEver)
SpecMC == InitMC /\ [][NextDurability]_durVars

=============================================================================
