------------------------------ MODULE MCAsyncOps ------------------------------
(* Instances of AsyncOps for TLC.                                           *)
EXTENDS AsyncOps, TLC

(* Helpers are interchangeable, and so are the calls of a kind.            *)
Symmetry == Permutations(Helper) \cup Permutations(RecvCall) \cup Permutations(SendCall)
=============================================================================
