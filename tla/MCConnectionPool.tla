-------------------------- MODULE MCConnectionPool --------------------------
(* Values of the constants for model checking ConnectionPool.              *)
EXTENDS ConnectionPool

CONSTANTS p1, p2, p3

Names == 1..4
=============================================================================
