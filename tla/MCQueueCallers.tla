--------------------------- MODULE MCQueueCallers ---------------------------
(* Values of the constants for model checking QueueCallers.                *)
EXTENDS QueueCallers

CONSTANTS p1, p2, l1, l2

(* Goroutines and locks are interchangeable; used where no liveness is     *)
(* checked.                                                                *)
Exchanges == Permutations(Proc) \cup Permutations(Locks)
=============================================================================
