-------------------------- MODULE MCConcurrentRuntime --------------------------
EXTENDS ConcurrentRuntime, TLC

CONSTANTS t1, t2, t3, q1, q2, k1, k2, k3

Symmetry == Permutations(Threads) \cup Permutations(Questions) \cup Permutations(Tokens)

===============================================================================
