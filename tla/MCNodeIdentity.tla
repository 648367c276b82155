--------------------------- MODULE MCNodeIdentity ---------------------------
(* Values of the constants for model checking NodeIdentity.                *)
EXTENDS NodeIdentity

CONSTANTS n1, n2, n3
=============================================================================
