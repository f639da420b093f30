-------------------------- MODULE MCCompletionQueue --------------------------
(***************************************************************************)
(* CompletionQueue with entries that are interchangeable.                  *)
(***************************************************************************)
EXTENDS CompletionQueue, TLC

Symmetry == Permutations(Entry)
=============================================================================
