------------------------------- MODULE MCHns --------------------------------
(* Small instances of Hns for TLC. *)
EXTENDS Hns, TLC

Symmetry == Permutations(Clients) \cup Permutations(InitThreads)

=============================================================================
