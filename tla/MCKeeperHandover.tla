--------------------------- MODULE MCKeeperHandover ---------------------------
(* Keepers, claimants and calls are interchangeable in the safety run. *)
EXTENDS KeeperHandover, TLC

Symmetry == Permutations(Keepers) \cup Permutations(Claimants) \cup Permutations(Calls)

=============================================================================
