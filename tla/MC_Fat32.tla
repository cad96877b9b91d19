------------------------------ MODULE MC_Fat32 ------------------------------
EXTENDS Fat32, TLC
CONSTANTS one, two
MCBlocks == [v \in Data |-> IF v = one THEN 1 ELSE 2]
MCPaths == {[dir |-> Absent, leaf |-> "a"], [dir |-> "d", leaf |-> "b"]}
\* The search for a free cluster is abstracted, so clusters are alike.
Symmetry == Permutations(Clusters \ {Root})
==============================================================================
