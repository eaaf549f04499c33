---------------------------- MODULE MCGraphStore ----------------------------
\* Bounded instances of GraphStore for TLC.
EXTENDS GraphStore, TLC
ValueSymmetry == Permutations(Values)
EndsBoth == {<<1, 2>>, <<2, 1>>}
=============================================================================
