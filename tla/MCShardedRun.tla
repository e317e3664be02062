---------------------------- MODULE MCShardedRun ----------------------------
EXTENDS ShardedRun, TLC
CONSTANTS p1, p2
MCParent == {p1, p2}
MCTurns == <<2, 1>>
Symmetry == Permutations(MCParent)
=============================================================================
