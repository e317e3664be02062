---------------------------- MODULE MCRequestFacade ----------------------------
EXTENDS RequestFacade

CONSTANTS c1, c2, s1, s2, w1

===============================================================================
