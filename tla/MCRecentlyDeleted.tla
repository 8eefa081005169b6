------------------------- MODULE MCRecentlyDeleted -------------------------
(* Every kind of request, and interchangeable apps, for RecentlyDeleted. *)
EXTENDS RecentlyDeleted, TLC

AllRequests == RequestKinds

Symmetry == Permutations(Apps)

============================================================================
