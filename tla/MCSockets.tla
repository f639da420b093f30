------------------------------- MODULE MCSockets -------------------------------
(* Instances of Sockets for TLC.                                            *)
EXTENDS Sockets, TLC

(* Sockets other than the subscriber, and everything else, are             *)
(* interchangeable.                                                        *)
Symmetry == Permutations(Thread) \cup Permutations(Endpoint) \cup Permutations(Id)
              \cup Permutations(Topic) \cup Permutations(Setting)
=============================================================================
