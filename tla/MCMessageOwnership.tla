------------------------- MODULE MCMessageOwnership -------------------------
(* Instances of MessageOwnership for TLC.                                  *)
EXTENDS MessageOwnership, TLC

(* Threads are interchangeable.                                            *)
Symmetry == Permutations(ThreadCall)
=============================================================================
