---------------------------- MODULE MCIterativeTurn ----------------------------
EXTENDS IterativeTurn

CONSTANTS t1, t2, h1, e1, e2

Symmetry == Permutations(Threads) \cup Permutations(Errors)

===============================================================================
