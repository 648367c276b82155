--------------------------- MODULE MCLockService ---------------------------
(* Values of the constants for model checking LockService.                 *)
EXTENDS LockService

CONSTANTS p1, p2, l1, l2

One == {<<l1>>}
OneAndBoth == {<<l1>>, <<l1, l2>>}

(* Goroutines are interchangeable; used where no liveness is checked.      *)
Goroutines == Permutations(Proc)
=============================================================================
