--------------------------- MODULE OrderedReplica ---------------------------
(***************************************************************************)
(* What the storage core promises of the vector store: a replica of the    *)
(* memories table that, memory by memory, only ever moves forward through  *)
(* the operations committed in SQLite and, when no more are committed,     *)
(* arrives at the last one.                                                *)
(***************************************************************************)
EXTENDS Naturals

CONSTANTS Memories, MaxSeq

VARIABLES
  audit_seq,   \* the last sequence number handed out
  committed,   \* the newest operation committed for each memory, 0 = none
  applied      \* the operation each memory shows in the replica, 0 = none

vars == <<audit_seq, committed, applied>>

Init ==
  /\ audit_seq = 0
  /\ committed = [m \in Memories |-> 0]
  /\ applied = [m \in Memories |-> 0]

\* An operation on m commits under the next sequence number.
Commit(m) ==
  /\ audit_seq < MaxSeq
  /\ audit_seq' = audit_seq + 1
  /\ committed' = [committed EXCEPT ![m] = audit_seq + 1]
  /\ UNCHANGED applied

\* The replica catches up with m, perhaps not all the way.
Apply(m) ==
  /\ \E s \in (applied[m] + 1)..committed[m] : applied' = [applied EXCEPT ![m] = s]
  /\ UNCHANGED <<audit_seq, committed>>

Next == \E m \in Memories : Commit(m) \/ Apply(m)

Spec == Init /\ [][Next]_vars
FairSpec == Spec /\ \A m \in Memories : WF_vars(Apply(m))

=============================================================================
