------------------------- MODULE MCCascadingWrites -------------------------
(* Small instances of CascadingWrites for TLC. *)
EXTENDS CascadingWrites, TLC

\* Memory ids, sweepers and operators are interchangeable in the safety runs.
Symmetry ==
  Permutations(Memories) \cup Permutations(Sweepers) \cup Permutations(Operators)

============================================================================
