------------------------------ MODULE MCTidyUp ------------------------------
(* Small sets of requests for TidyUp. *)
EXTENDS TidyUp

\* What apps may ask for.
AppRequests == {"save", "edit", "delete"}

\* What apps may do without changing a memory that is there.
SavesOnly == {"save"}

=============================================================================
