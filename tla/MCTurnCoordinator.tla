--------------------------- MODULE MCTurnCoordinator ---------------------------
EXTENDS TurnCoordinator

CONSTANTS c1, c2, h1, h2, s1, s2

===============================================================================
