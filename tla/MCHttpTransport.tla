---------------------------- MODULE MCHttpTransport ----------------------------
EXTENDS HttpTransport, TLC

CONSTANTS r1, r2, r3, s1, s2

Symmetry == Permutations(Requests)

===============================================================================
