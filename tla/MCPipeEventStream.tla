--------------------------- MODULE MCPipeEventStream ---------------------------
(* Instances of PipeEventStream for TLC.                                    *)
EXTENDS PipeEventStream, TLC

(* Tasks are interchangeable.                                               *)
Symmetry == Permutations(Consumer)
=============================================================================
