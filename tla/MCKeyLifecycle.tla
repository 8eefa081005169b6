---------------------------- MODULE MCKeyLifecycle ----------------------------
(* What may go wrong in the runs of KeyLifecycle. *)
EXTENDS KeyLifecycle

\* The store and the file system fail; nothing else touches the credentials.
OneWriter == FaultKinds \ {"roamed", "lost"}

\* Main may change or vanish as well, but no write stores other bytes.
NoGarbling == FaultKinds \ {"garbled"}

===============================================================================
