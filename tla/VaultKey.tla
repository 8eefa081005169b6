------------------------------ MODULE VaultKey ------------------------------
(***************************************************************************)
(* What the vault key's owner is promised: there is one key or none.  A    *)
(* key is made only when there is none, it is never one that existed       *)
(* before, and it stays until the owner deletes everything.                *)
(***************************************************************************)
EXTENDS Naturals

VARIABLES
  key, \* the vault key, 0 = none
  last \* the last key made

Init == key \in {0, 1} /\ last = key

Make == key = 0 /\ key' = last + 1 /\ last' = last + 1

Destroy == key # 0 /\ key' = 0 /\ UNCHANGED last

Next == Make \/ Destroy

Spec == Init /\ [][Next]_<<key, last>>
=============================================================================
