----------------------- MODULE CascadeDeliveryProofs -----------------------
(***************************************************************************)
(* What becomes of a committed operation on its way to the vector store,   *)
(* for every number of memories and operators and every cap: it is not     *)
(* lost, its overflow is told once, older ones go first, and the replica   *)
(* moves forward and agrees with SQLite.  Each theorem names the faults it *)
(* leaves out; with those it is false.                                     *)
(***************************************************************************)
EXTENDS CascadingWritesProofs

----------------------------------------------------------------------------
(* Nothing is forgotten *)

\* No sweep runs, and neither a crash nor a SQLite error comes between two steps.
Undisturbed == Sweepers = {} /\ Faults \cap {"crash", "sqlite"} = {}

\* A cascade is no newer than what its memory has in newest.
NotNewer(c, newest) == c.seq <= newest[c.mem]

(***************************************************************************)
(* NothingForgotten is not inductive: applying a cascade must not push     *)
(* reached past committed, and deleting an applied row must leave reached  *)
(* as the witness.                                                         *)
(***************************************************************************)
ReachedWithinCommitted ==
  \A m \in Memories : committed[m] <= audit_seq /\ reached[m] <= committed[m]

NothingNewer ==
  /\ \A r \in retry_queue : NotNewer(r.cascade, committed)
  /\ \A i \in 1..Len(dead_letter) : NotNewer(dead_letter[i].cascade, committed)
  /\ worker.pc # "idle" => NotNewer(worker.entry.cascade, committed)

AppliedIsReached ==
  worker.pc \in {"pruning", "applied"} =>
    reached[worker.entry.cascade.mem] >= worker.entry.cascade.seq

LossInv == ReachedWithinCommitted /\ NothingNewer /\ AppliedIsReached /\ NothingForgotten

----------------------------------------------------------------------------

\* Each dead letter carries a cascade.
LEMMA DeadLetterTypes ==
  ASSUME TypeInv
  PROVE  \A i \in 1..Len(dead_letter) : dead_letter[i].cascade \in Cascade
<1>1. \A i \in 1..Len(dead_letter) : dead_letter[i] \in DeadLetterEntry
  BY DEF TypeInv, TypeOK
<1> QED
  BY <1>1 DEF DeadLetterEntry

LEMMA InitLoss == Init => LossInv
BY IdleWorkerType DEF Init, LossInv, ReachedWithinCommitted, NothingNewer,
   AppliedIsReached, NothingForgotten

\* A committed operation is queued or pending; the others stay where they were.
LEMMA WriteLoss ==
  ASSUME TypeInv, LossInv, Write
  PROVE  LossInv'
<1>1. PICK m \in Memories, op \in CascadeOperation, row \in {0, audit_seq + 1} :
        CommitCascade(m, op, row)
  BY DEF Write, WriteMemory, UpdateMemory, DeleteMemory, CascadeOperation
<1> DEFINE c == [mem |-> m, op |-> op, seq |-> audit_seq + 1]
<1> DEFINE new == FreshEntry(c)
<1>2. /\ audit_seq \in Nat
      /\ audit_seq' = audit_seq + 1
      /\ committed' = [committed EXCEPT ![m] = audit_seq + 1]
      /\ UNCHANGED <<dead_letter, reached, worker>>
  BY <1>1 DEF CommitCascade, vectorVars, TypeInv, TypeOK
<1>3. c.mem = m /\ c.seq = audit_seq + 1 /\ new.cascade = c
  BY DEF FreshEntry
<1>4. \/ retry_queue' = retry_queue \cup {new} /\ pending_sync' = pending_sync
      \/ /\ retry_queue' = retry_queue
         /\ pending_sync' = {p \in pending_sync : p.mem # c.mem} \cup {c}
  BY <1>1 DEF CommitCascade, EnqueueCascade
<1> HIDE DEF c, new
<1>5. /\ committed \in [Memories -> Nat] /\ reached \in [Memories -> Nat]
      /\ committed'[m] = audit_seq + 1
      /\ \A k \in Memories : k # m => committed'[k] = committed[k]
  BY <1>2 DEF TypeInv, TypeOK
<1>6. ReachedWithinCommitted'
  BY <1>2, <1>5 DEF LossInv, ReachedWithinCommitted
<1>7. NothingNewer'
  <2>1. \A k \in Memories : committed[k] <= committed'[k]
    BY <1>2, <1>5 DEF LossInv, ReachedWithinCommitted
  <2>2. ASSUME NEW d \in Cascade, NotNewer(d, committed) PROVE NotNewer(d, committed')
    <3>1. d.mem \in Memories /\ d.seq \in Nat
      BY DEF Cascade
    <3>2. committed'[d.mem] \in Nat
      BY <1>2, <1>5, <3>1
    <3> QED
      BY <1>5, <2>1, <2>2, <3>1, <3>2 DEF NotNewer
  <2>3. NotNewer(c, committed')
    BY <1>2, <1>3, <1>5 DEF NotNewer
  <2>4. \A r \in retry_queue' : NotNewer(r.cascade, committed')
    <3>1. \A r \in retry_queue : r.cascade \in Cascade
      BY DEF TypeInv, TypeOK, RetryEntry
    <3> QED
      BY <1>3, <1>4, <2>2, <2>3, <3>1 DEF LossInv, NothingNewer
  <2>5. \A i \in 1..Len(dead_letter') : NotNewer(dead_letter'[i].cascade, committed')
    <3> QED
      BY <1>2, <2>2, DeadLetterTypes DEF LossInv, NothingNewer
  <2>6. worker'.pc # "idle" => NotNewer(worker'.entry.cascade, committed')
    BY <1>2, <2>2, WorkerEntryType DEF LossInv, NothingNewer, TypeInv
  <2> QED
    BY <2>4, <2>5, <2>6 DEF NothingNewer
<1>8. AppliedIsReached'
  BY <1>2 DEF LossInv, AppliedIsReached
<1>9. NothingForgotten'
  <2> SUFFICES ASSUME NEW k \in Memories
               PROVE  (committed[k] = reached[k] \/ Recoverable(k, committed[k]))'
    BY DEF NothingForgotten
  <2>1. CASE k = m
    BY <1>3, <1>4, <1>5, <2>1 DEF Recoverable
  <2>2. CASE k # m
    <3>1. committed[k] = reached[k] \/ Recoverable(k, committed[k])
      BY DEF LossInv, NothingForgotten
    <3> QED
      BY <1>2, <1>3, <1>4, <1>5, <2>2, <3>1 DEF Recoverable
  <2> QED
    BY <2>1, <2>2
<1> QED
  BY <1>6, <1>7, <1>8, <1>9 DEF LossInv

\* Steps that neither apply, dead-letter nor take out a cascade lose nothing.
LEMMA QuietLoss ==
  ASSUME TypeInv, LossInv,
         UNCHANGED <<committed, audit_seq, reached, pending_sync>>,
         \/ UNCHANGED dead_letter
         \/ \E o \in Operators : Resolve(o),
         UNCHANGED retry_queue \/ QueueTicks,
         \/ UNCHANGED worker
         \/ worker.pc = "idle" /\ \E r \in retry_queue : worker' = [pc |-> "applying", entry |-> r]
         \/ /\ worker.pc \in {"applying", "pruning"}
            /\ WorkerTo("failed") \/ WorkerTo("failed_permanently")
  PROVE  LossInv'
<1>0. \A r \in retry_queue : Closer(r).cascade = r.cascade
  BY CloserKeeps DEF TypeInv, TypeOK
<1>1. \A r \in retry_queue' : \E q \in retry_queue : r.cascade = q.cascade
  BY <1>0 DEF QueueTicks
<1>2. \A q \in retry_queue : \E r \in retry_queue' : r.cascade = q.cascade
  BY <1>0 DEF QueueTicks
<1>3. /\ Len(dead_letter') = Len(dead_letter)
      /\ \A i \in 1..Len(dead_letter) : dead_letter'[i].cascade = dead_letter[i].cascade
  BY ResolveEffect
<1>4. /\ worker'.pc # "idle" =>
           \/ worker'.entry = worker.entry /\ worker.pc # "idle"
           \/ worker'.entry \in retry_queue
      /\ worker'.pc \in {"pruning", "applied", "dead_lettering"} => worker' = worker
      /\ worker.pc = "dead_lettering" => worker' = worker
  BY DEF WorkerTo
<1>5. ReachedWithinCommitted' /\ AppliedIsReached'
  BY <1>4 DEF LossInv, ReachedWithinCommitted, AppliedIsReached
<1>6. NothingNewer'
  BY <1>1, <1>3, <1>4 DEF LossInv, NothingNewer
<1>7. NothingForgotten'
  <2> SUFFICES ASSUME NEW k \in Memories
               PROVE  (committed[k] = reached[k] \/ Recoverable(k, committed[k]))'
    BY DEF NothingForgotten
  <2>1. committed[k] = reached[k] \/ Recoverable(k, committed[k])
    BY DEF LossInv, NothingForgotten
  <2> QED
    BY <1>2, <1>3, <1>4, <2>1 DEF Recoverable
<1> QED
  BY <1>5, <1>6, <1>7 DEF LossInv

\* Applying a cascade only brings reached closer to committed.
LEMMA ApplyLoss ==
  ASSUME TypeInv, LossInv, NEW c \in Cascade, NotNewer(c, committed), RecordShown(c),
         UNCHANGED <<sqliteVars>>,
         \/ UNCHANGED worker
         \/ /\ worker.pc = "applying" /\ c = worker.entry.cascade
            /\ WorkerTo("pruning") \/ WorkerTo("applied")
  PROVE  LossInv'
<1>1. c.mem \in Memories /\ c.seq \in Nat
  BY DEF Cascade
<1>2. committed \in [Memories -> Nat] /\ reached \in [Memories -> Nat] /\ audit_seq \in Nat
  BY DEF TypeInv, TypeOK
<1> DEFINE new == IF c.seq > reached[c.mem] THEN c.seq ELSE reached[c.mem]
<1>3. reached' = [reached EXCEPT ![c.mem] = new]
  BY DEF RecordShown
<1>4. new \in Nat /\ new >= reached[c.mem] /\ new >= c.seq /\ new <= committed[c.mem]
  BY <1>1, <1>2 DEF NotNewer, LossInv, ReachedWithinCommitted
<1> HIDE DEF new
<1>5. /\ reached' \in [Memories -> Nat]
      /\ \A k \in Memories : reached'[k] >= reached[k] /\ reached'[k] <= committed[k]
      /\ reached'[c.mem] >= c.seq
  BY <1>1, <1>2, <1>3, <1>4 DEF LossInv, ReachedWithinCommitted
<1>6. UNCHANGED <<committed, audit_seq, pending_sync, retry_queue, dead_letter>>
  BY DEF sqliteVars
<1>7. /\ worker'.pc # "idle" => worker.pc # "idle" /\ worker'.entry = worker.entry
      /\ worker'.pc = "dead_lettering" <=> worker.pc = "dead_lettering"
      /\ worker'.pc \in {"pruning", "applied"} =>
           worker' = worker \/ c = worker'.entry.cascade
  BY DEF WorkerTo
<1>8. ReachedWithinCommitted'
  BY <1>5, <1>6 DEF LossInv, ReachedWithinCommitted
<1>9. NothingNewer'
  BY <1>6, <1>7 DEF LossInv, NothingNewer
<1>10. AppliedIsReached'
  <2> SUFFICES ASSUME worker'.pc \in {"pruning", "applied"}
               PROVE  reached'[worker'.entry.cascade.mem] >= worker'.entry.cascade.seq
    BY DEF AppliedIsReached
  <2>1. CASE c = worker'.entry.cascade
    BY <1>5, <2>1
  <2>2. CASE worker' = worker
    <3> DEFINE d == worker.entry.cascade
    <3>1. d \in Cascade
      BY <2>2, WorkerEntryType DEF TypeInv
    <3>2. d.mem \in Memories /\ d.seq \in Nat
      BY <3>1 DEF Cascade
    <3>3. reached[d.mem] >= d.seq
      BY <2>2 DEF LossInv, AppliedIsReached
    <3> HIDE DEF d
    <3>4. reached'[d.mem] >= d.seq
      BY <1>2, <1>5, <3>2, <3>3
    <3> QED
      BY <2>2, <3>4 DEF d
  <2> QED
    BY <1>7, <2>1, <2>2
<1>11. NothingForgotten'
  <2> SUFFICES ASSUME NEW k \in Memories
               PROVE  (committed[k] = reached[k] \/ Recoverable(k, committed[k]))'
    BY DEF NothingForgotten
  <2>1. committed[k] = reached[k] \/ Recoverable(k, committed[k])
    BY DEF LossInv, NothingForgotten
  <2>2. CASE committed[k] = reached[k]
    BY <1>2, <1>5, <1>6, <2>2
  <2>3. CASE Recoverable(k, committed[k])
    BY <1>6, <1>7, <2>3 DEF Recoverable
  <2> QED
    BY <2>1, <2>2, <2>3
<1> QED
  BY <1>8, <1>9, <1>10, <1>11 DEF LossInv

\* Recording an outcome: whatever leaves the queue was reached or is dead-lettered.
LEMMA OutcomeLoss ==
  ASSUME TypeInv, LossInv, RecordSuccess \/ Reschedule \/ GiveUp \/ WriteDeadLetter
  PROVE  LossInv'
<1> DEFINE c == worker.entry.cascade
<1>1. c \in Cascade /\ worker.pc # "idle"
  BY WorkerEntryType DEF TypeInv, RecordSuccess, Reschedule, GiveUp, WriteDeadLetter
<1>2. c.mem \in Memories /\ c.seq \in Nat /\ NotNewer(c, committed)
  BY <1>1 DEF Cascade, LossInv, NothingNewer
<1>3. UNCHANGED <<committed, audit_seq, reached, pending_sync>>
  BY DEF RecordSuccess, Reschedule, GiveUp, WriteDeadLetter, vectorVars
<1>4. committed \in [Memories -> Nat] /\ reached \in [Memories -> Nat]
  BY DEF TypeInv, TypeOK
<1>5. ReachedWithinCommitted'
  BY <1>3 DEF LossInv, ReachedWithinCommitted
<1>6. CASE RecordSuccess
  <2>1. /\ retry_queue' = retry_queue \ RowsOf(c) /\ worker'.pc = "idle"
        /\ worker.pc = "applied" /\ UNCHANGED dead_letter
    BY <1>6, IdleWorkerType DEF RecordSuccess
  <2>2. committed[c.mem] = reached[c.mem] \/ committed[c.mem] # c.seq
    BY <1>2, <1>4, <2>1 DEF LossInv, ReachedWithinCommitted, AppliedIsReached
  <2>3. NothingNewer' /\ AppliedIsReached'
    BY <1>3, <2>1 DEF LossInv, NothingNewer, AppliedIsReached
  <2>4. NothingForgotten'
    <3> SUFFICES ASSUME NEW k \in Memories
                 PROVE  (committed[k] = reached[k] \/ Recoverable(k, committed[k]))'
      BY DEF NothingForgotten
    <3>1. committed[k] = reached[k] \/ Recoverable(k, committed[k])
      BY DEF LossInv, NothingForgotten
    <3> HIDE DEF c
    <3> QED
      BY <1>3, <2>1, <2>2, <3>1 DEF Recoverable, RowsOf
  <2> QED
    BY <1>5, <2>3, <2>4 DEF LossInv
<1>7. CASE Reschedule
  <2>1. \E r, new \in RetryEntry : QueueReplaces(r, new)
    BY <1>7, RescheduleReplaces
  <2>2. PICK r, new \in RetryEntry : QueueReplaces(r, new)
    BY <2>1
  <2>3. worker'.pc = "idle" /\ worker.pc = "failed" /\ UNCHANGED dead_letter
    BY <1>7, IdleWorkerType DEF Reschedule
  <2>4. NothingNewer' /\ AppliedIsReached'
    BY <1>3, <2>2, <2>3 DEF LossInv, NothingNewer, AppliedIsReached, QueueReplaces
  <2>5. NothingForgotten'
    <3> SUFFICES ASSUME NEW k \in Memories
                 PROVE  (committed[k] = reached[k] \/ Recoverable(k, committed[k]))'
      BY DEF NothingForgotten
    <3>1. committed[k] = reached[k] \/ Recoverable(k, committed[k])
      BY DEF LossInv, NothingForgotten
    <3> QED
      BY <1>3, <2>2, <2>3, <3>1 DEF Recoverable, QueueReplaces
  <2> QED
    BY <1>5, <2>4, <2>5 DEF LossInv
<1>8. CASE GiveUp
  <2>1. PICK r \in retry_queue : r.cascade = c /\ retry_queue' = retry_queue \ {r}
    BY <1>8 DEF GiveUp, RowsOf
  <2>2. /\ worker'.pc = "dead_lettering" /\ worker'.entry = worker.entry
        /\ worker.pc \in {"failed", "failed_permanently"} /\ UNCHANGED dead_letter
    BY <1>8 DEF GiveUp, WorkerTo
  <2>3. NothingNewer' /\ AppliedIsReached'
    BY <1>3, <2>1, <2>2 DEF LossInv, NothingNewer, AppliedIsReached
  <2>4. NothingForgotten'
    <3> SUFFICES ASSUME NEW k \in Memories
                 PROVE  (committed[k] = reached[k] \/ Recoverable(k, committed[k]))'
      BY DEF NothingForgotten
    <3>1. committed[k] = reached[k] \/ Recoverable(k, committed[k])
      BY DEF LossInv, NothingForgotten
    <3> QED
      BY <1>3, <2>1, <2>2, <3>1 DEF Recoverable
  <2> QED
    BY <1>5, <2>3, <2>4 DEF LossInv
<1>9. CASE WriteDeadLetter
  <2> DEFINE d == [cascade |-> c, resolution |-> "pending"]
  <2>1. /\ dead_letter' = Append(dead_letter, d) /\ worker'.pc = "idle"
        /\ worker.pc = "dead_lettering" /\ UNCHANGED retry_queue
    BY <1>9, IdleWorkerType DEF WriteDeadLetter
  <2>2. dead_letter \in Seq(DeadLetterEntry) /\ d \in DeadLetterEntry /\ d.cascade = c
    BY <1>1 DEF TypeInv, TypeOK, DeadLetterEntry
  <2> HIDE DEF d
  <2>3. /\ Len(dead_letter) \in Nat
        /\ Len(dead_letter') = Len(dead_letter) + 1
        /\ \A i \in 1..Len(dead_letter) : dead_letter'[i] = dead_letter[i]
        /\ dead_letter'[Len(dead_letter) + 1] = d
    BY <2>1, <2>2
  <2>4. \A i \in 1..Len(dead_letter') :
          i \in 1..Len(dead_letter) \/ i = Len(dead_letter) + 1
    BY <2>3
  <2>5. NothingNewer' /\ AppliedIsReached'
    BY <1>2, <1>3, <2>1, <2>2, <2>3, <2>4 DEF LossInv, NothingNewer, AppliedIsReached
  <2>6. NothingForgotten'
    <3> SUFFICES ASSUME NEW k \in Memories
                 PROVE  (committed[k] = reached[k] \/ Recoverable(k, committed[k]))'
      BY DEF NothingForgotten
    <3>1. committed[k] = reached[k] \/ Recoverable(k, committed[k])
      BY DEF LossInv, NothingForgotten
    <3>2. \A i \in 1..Len(dead_letter) : i \in 1..Len(dead_letter')
      BY <2>3
    <3>3. Len(dead_letter) + 1 \in 1..Len(dead_letter')
      BY <2>3
    <3> QED
      BY <1>3, <2>1, <2>2, <2>3, <3>1, <3>2, <3>3 DEF Recoverable
  <2> QED
    BY <1>5, <2>5, <2>6 DEF LossInv
<1> QED
  BY <1>6, <1>7, <1>8, <1>9

(***************************************************************************)
(* Without sweeps, crashes and SQLite errors, a memory's newest committed  *)
(* operation has always reached the vector store or is still on its way    *)
(* there, however often and in whatever way the vector store fails.        *)
(***************************************************************************)
THEOREM NothingIsForgotten == Undisturbed => (Spec => []NothingForgotten)
<1> SUFFICES ASSUME Undisturbed PROVE Spec => []NothingForgotten
  OBVIOUS
<1>1. TypeInv /\ LossInv /\ [Next]_vars => LossInv'
  <2> SUFFICES ASSUME TypeInv, LossInv, [Next]_vars PROVE LossInv'
    OBVIOUS
  <2>1. CASE Write
    BY <2>1, WriteLoss
  <2>2. CASE Tick \/ PollDue \/ WorkerFails
    <3>1. UNCHANGED <<committed, audit_seq, reached, pending_sync, dead_letter>>
      BY <2>2 DEF Tick, PollDue, WorkerFails, sqliteVars, vectorVars
    <3>2. UNCHANGED retry_queue \/ QueueTicks
      BY <2>2 DEF Tick, PollDue, WorkerFails, sqliteVars, QueueTicks, Closer
    <3>3. \/ UNCHANGED worker
          \/ worker.pc = "idle" /\ \E r \in retry_queue : worker' = [pc |-> "applying", entry |-> r]
          \/ /\ worker.pc \in {"applying", "pruning"}
             /\ WorkerTo("failed") \/ WorkerTo("failed_permanently")
      BY <2>2 DEF Tick, PollDue, Due, WorkerFails
    <3> QED
      BY <3>1, <3>2, <3>3, QuietLoss
  <2>3. CASE WorkerUpserts \/ WorkerHides
    <3> DEFINE c == worker.entry.cascade
    <3>1. worker.pc = "applying" /\ (WorkerTo("pruning") \/ WorkerTo("applied"))
      BY <2>3 DEF WorkerUpserts, WorkerHides
    <3>2. c \in Cascade /\ NotNewer(c, committed)
      BY <3>1, WorkerEntryType DEF TypeInv, LossInv, NothingNewer
    <3>3. RecordShown(c) /\ UNCHANGED sqliteVars
      BY <2>3 DEF WorkerUpserts, WorkerHides
    <3> QED
      BY <3>1, <3>2, <3>3, ApplyLoss
  <2>4. CASE WorkerPrunes
    <3>1. /\ worker.pc = "pruning" /\ worker'.pc = "applied" /\ worker'.entry = worker.entry
          /\ UNCHANGED <<committed, audit_seq, reached, pending_sync, dead_letter, retry_queue>>
      BY <2>4 DEF WorkerPrunes, PruneOldVersions, WorkerTo, sqliteVars
    <3>2. ReachedWithinCommitted' /\ NothingNewer' /\ AppliedIsReached'
      BY <3>1 DEF LossInv, ReachedWithinCommitted, NothingNewer, AppliedIsReached
    <3>3. NothingForgotten'
      BY <3>1 DEF LossInv, NothingForgotten, Recoverable
    <3> QED
      BY <3>2, <3>3 DEF LossInv
  <2>5. CASE RecordSuccess \/ Reschedule \/ GiveUp \/ WriteDeadLetter
    BY <2>5, OutcomeLoss
  <2>6. CASE \E o \in Operators : OperatorUpserts(o) \/ OperatorHides(o)
    <3>1. PICK o \in Operators : OperatorUpserts(o) \/ OperatorHides(o)
      BY <2>6
    <3> DEFINE c == dead_letter[operator[o].id].cascade
    <3>2. operator[o].pc # "idle"
      BY <3>1 DEF OperatorUpserts, OperatorHides
    <3>3. c \in Cascade /\ NotNewer(c, committed)
      BY <3>2, OperatorEntryType DEF LossInv, NothingNewer
    <3>4. RecordShown(c) /\ UNCHANGED sqliteVars /\ UNCHANGED worker
      BY <3>1 DEF OperatorUpserts, OperatorHides
    <3> QED
      BY <3>3, <3>4, ApplyLoss
  <2>7. CASE UNCHANGED vars \/ CommitFails
             \/ \E o \in Operators : \/ OperatorReads(o) \/ OperatorPrunes(o)
                                     \/ OperatorFails(o) \/ Resolve(o) \/ OperatorKilled(o)
    <3>1. UNCHANGED <<committed, audit_seq, reached, pending_sync, retry_queue, worker>>
      BY <2>7 DEF vars, CommitFails, OperatorReads, OperatorPrunes, PruneOldVersions,
         OperatorFails, Resolve, OperatorKilled, sqliteVars, vectorVars
    <3>2. UNCHANGED dead_letter \/ \E o \in Operators : Resolve(o)
      BY <2>7 DEF vars, CommitFails, OperatorReads, OperatorPrunes, OperatorFails,
         OperatorKilled, sqliteVars
    <3> QED
      BY <3>1, <3>2, QuietLoss
  <2>8. ~WorkerStepErrs /\ ~CrashAndReopen /\ ~\E s \in Sweepers : SweepStep(s) \/ SweepKilled(s)
    BY DEF Undisturbed, WorkerStepErrs, CrashAndReopen
  <2> QED
    BY <2>1, <2>2, <2>3, <2>4, <2>5, <2>6, <2>7, <2>8
    DEF Next, WorkerStep, OperatorStep, Fault
<1>2. LossInv => NothingForgotten
  BY DEF LossInv
<1> QED
  BY <1>1, <1>2, InitType, NextType, InitLoss, PTL DEF Spec


----------------------------------------------------------------------------
(* Overflow events *)

\* Nothing comes between the flag and the rows it stands for.
FlagIsKept == Faults \cap {"crash", "sqlite"} = {}

(***************************************************************************)
(* The flag says that the last write spilled, and one event tells of it.   *)
(***************************************************************************)
FlagInv ==
  /\ overflow_events = IF in_cap_overflow THEN 1 ELSE 0
  /\ (\E p \in pending_sync : p.seq = audit_seq) => in_cap_overflow

LEMMA NextFlag ==
  ASSUME FlagIsKept, TypeInv, HomeInv, FlagInv, [Next]_vars
  PROVE  FlagInv'
<1>1. CASE Write
  <2>1. PICK m \in Memories, op \in CascadeOperation, row \in {0, audit_seq + 1} :
          CommitCascade(m, op, row)
    BY <1>1 DEF Write, WriteMemory, UpdateMemory, DeleteMemory, CascadeOperation
  <2> DEFINE c == [mem |-> m, op |-> op, seq |-> audit_seq + 1]
  <2>2. audit_seq' = audit_seq + 1 /\ EnqueueCascade(c)
    BY <2>1 DEF CommitCascade
  <2> HIDE DEF c
  <2>3. CASE AtCap
    <3>1. in_cap_overflow' = TRUE
      BY <2>2, <2>3, Zenon DEF EnqueueCascade
    <3>2. overflow_events' = IF in_cap_overflow \/ overflow_events = 2
                               THEN overflow_events ELSE overflow_events + 1
      BY <2>2, <2>3, Zenon DEF EnqueueCascade
    <3>3. overflow_events' = 1
      BY <3>2 DEF FlagInv
    <3> QED
      BY <3>1, <3>3 DEF FlagInv
  <2>4. CASE ~AtCap
    <3>1. in_cap_overflow' = FALSE /\ overflow_events' = 0 /\ UNCHANGED pending_sync
      BY <2>2, <2>4, Zenon DEF EnqueueCascade
    <3>2. \A p \in pending_sync : p.seq \in Nat /\ p.seq <= audit_seq
      BY DEF TypeInv, TypeOK, Cascade, HomeInv, SeqsHandedOut
    <3>3. audit_seq \in Nat
      BY DEF TypeInv, TypeOK
    <3>4. \A p \in pending_sync' : p.seq # audit_seq'
      BY <2>2, <3>1, <3>2, <3>3
    <3> QED
      BY <3>1, <3>4 DEF FlagInv
  <2> QED
    BY <2>3, <2>4
<1>2. CASE ~Write
  <2>1. /\ UNCHANGED <<in_cap_overflow, overflow_events, audit_seq>>
        /\ pending_sync' \subseteq pending_sync
    <3>1. CASE UNCHANGED vars
      BY <3>1 DEF vars, sqliteVars
    <3>2. CASE Tick
      BY <3>2 DEF Tick
    <3>3. CASE WorkerStep
      BY <3>3 DEF WorkerStep, PollDue, WorkerUpserts, WorkerHides, WorkerPrunes,
         WorkerFails, RecordSuccess, Reschedule, GiveUp, WriteDeadLetter, sqliteVars
    <3>4. CASE \E s \in Sweepers : SweepStep(s) \/ SweepKilled(s)
      BY <3>4 DEF SweepStep, SweepReads, SweepReenqueues, SweepStops, SweepKilled, sqliteVars
    <3>5. CASE \E o \in Operators : OperatorStep(o) \/ OperatorKilled(o)
      BY <3>5 DEF OperatorStep, OperatorReads, OperatorUpserts, OperatorHides,
         OperatorPrunes, OperatorFails, Resolve, OperatorKilled, sqliteVars
    <3>6. ~CommitFails /\ ~WorkerStepErrs /\ ~CrashAndReopen
      BY DEF FlagIsKept, CommitFails, WorkerStepErrs, CrashAndReopen
    <3> QED
      BY <1>2, <3>1, <3>2, <3>3, <3>4, <3>5, <3>6 DEF Next, Fault
  <2> QED
    BY <2>1 DEF FlagInv
<1> QED
  BY <1>1, <1>2

(***************************************************************************)
(* Without crashes and SQLite errors, whatever sweeps, failures and        *)
(* retries do meanwhile: while the newest operation is one that spilled,   *)
(* exactly one overflow event has been committed since a write last        *)
(* reached the queue.                                                      *)
(***************************************************************************)
THEOREM OneEventPerOverflow ==
  ASSUME FlagIsKept
  PROVE  Spec => []OneOverflowEventPerEpisode
<1>1. Init => FlagInv
  <2> SUFFICES ASSUME Init PROVE FlagInv
    OBVIOUS
  <2>1. in_cap_overflow = FALSE /\ overflow_events = 0 /\ pending_sync = {}
    BY Zenon DEF Init
  <2> QED
    BY <2>1 DEF FlagInv
<1>2. FlagInv => OneOverflowEventPerEpisode
  BY DEF FlagInv, OneOverflowEventPerEpisode
<1>3. TypeInv /\ HomeInv /\ FlagInv /\ [Next]_vars => FlagInv'
  BY NextFlag
<1> QED
  BY <1>1, <1>2, <1>3, InitHomes, NextHomes, InitType, NextType, PTL DEF Spec

----------------------------------------------------------------------------
(* The order of what has not failed *)

(***************************************************************************)
(* A row that has not failed waits no longer than any row behind it: it    *)
(* came with the shortest wait there is, and time passes for all alike.    *)
(***************************************************************************)
FreshInOrder ==
  /\ \A r \in retry_queue : r.attempts = 0 => r.wait <= 1
  /\ \A q, r \in retry_queue :
       /\ q.cascade.seq < r.cascade.seq
       /\ q.attempts = 0
       => q.wait <= r.wait

\* The numbers a row is made of.
LEMMA RowType ==
  ASSUME TypeInv
  PROVE  /\ \A r \in retry_queue : /\ r \in RetryEntry /\ r.cascade \in Cascade
                                   /\ r.cascade.mem \in Memories /\ r.cascade.seq \in Nat
                                   /\ r.cascade.seq >= 1
                                   /\ r.attempts \in Nat /\ r.wait \in Nat
         /\ audit_seq \in Nat
<1>1. \A r \in retry_queue : r \in RetryEntry
  BY DEF TypeInv, TypeOK
<1>2. MaxAttempts - 1 \in Nat /\ MaxSeq \in Nat
  BY ConstantsAssumption
<1> QED
  BY <1>1, <1>2 DEF RetryEntry, Cascade, TypeInv, TypeOK

\* A failed attempt is counted, and its row waits at least a second.
LEMMA RescheduleBacksOff ==
  ASSUME TypeInv, Reschedule
  PROVE  \E r, new \in RetryEntry : /\ QueueReplaces(r, new)
                                    /\ new.attempts > 0 /\ new.wait >= 1
<1>1. PICK r \in RowsOf(worker.entry.cascade) :
        /\ r.attempts + 1 < MaxAttempts
        /\ \E w \in JitteredWaits(r.attempts + 1) :
             retry_queue' = (retry_queue \ {r}) \cup
                                {[r EXCEPT !.attempts = @ + 1, !.wait = w]}
  BY DEF Reschedule
<1>2. PICK w \in JitteredWaits(r.attempts + 1) :
             retry_queue' = (retry_queue \ {r}) \cup
                                {[r EXCEPT !.attempts = @ + 1, !.wait = w]}
  BY <1>1
<1> DEFINE new == [r EXCEPT !.attempts = @ + 1, !.wait = w]
<1>3. r \in RetryEntry /\ r \in retry_queue
  BY DEF RowsOf, TypeInv, TypeOK
<1>4. r.attempts + 1 \in 0..(MaxAttempts - 1) /\ r.attempts + 1 \in 1..7
  BY <1>1, <1>3, ConstantsAssumption DEF RetryEntry
<1>5. w \in Nat /\ w >= 1
  <2> DEFINE b == base_backoff_secs[r.attempts + 1 + 1]
  <2>1. b \in Nat /\ b >= 1
    BY <1>4 DEF base_backoff_secs
  <2>2. w \in (b - b \div 4)..(b + b \div 4)
    BY <1>2 DEF JitteredWaits
  <2> HIDE DEF b
  <2>3. b \div 4 \in Nat /\ b - b \div 4 >= 1
    BY <2>1
  <2> QED
    BY <2>1, <2>2, <2>3
<1>6. new \in RetryEntry /\ new.cascade = r.cascade /\ new.attempts > 0 /\ new.wait >= 1
  <2>1. new \in RetryEntry /\ new.cascade = r.cascade
    BY <1>3, <1>4, <1>5 DEF RetryEntry
  <2>2. new.attempts = r.attempts + 1 /\ new.wait = w
    BY <1>3 DEF RetryEntry
  <2> QED
    BY <1>4, <1>5, <2>1, <2>2
<1>7. retry_queue' = (retry_queue \ {r}) \cup {new}
  BY <1>2
<1> HIDE DEF new
<1>8. QueueReplaces(r, new)
  BY <1>3, <1>6, <1>7, IdleWorkerType DEF Reschedule, QueueReplaces, LetGo
<1> QED
  BY <1>3, <1>6, <1>8

\* The embedding, or its absence, that a cascade leaves behind.
Effect(c) == IF c.op = "delete" THEN 0 ELSE c.seq

\* A write commits one cascade, the newest of all, and queues it or lets it spill.
WriteCommits(c) ==
  /\ c.seq = audit_seq + 1
  /\ audit_seq' = c.seq
  /\ memories' = [memories EXCEPT ![c.mem] = Effect(c)]
  /\ committed' = [committed EXCEPT ![c.mem] = c.seq]
  /\ UNCHANGED <<dead_letter, vectors, unpruned, shown, reached, worker, sweep, operator>>
  /\ \/ /\ retry_queue' = retry_queue \cup {FreshEntry(c)}
        /\ UNCHANGED pending_sync
     \/ /\ UNCHANGED retry_queue
        /\ pending_sync' = {p \in pending_sync : p.mem # c.mem} \cup {c}

LEMMA WriteFacts ==
  ASSUME TypeInv, Write
  PROVE  \E c \in Cascade : WriteCommits(c)
<1>1. PICK m \in Memories, op \in CascadeOperation, row \in {0, audit_seq + 1} :
        /\ CommitCascade(m, op, row)
        /\ row = IF op = "delete" THEN 0 ELSE audit_seq + 1
  BY DEF Write, WriteMemory, UpdateMemory, DeleteMemory, CascadeOperation
<1> DEFINE c == [mem |-> m, op |-> op, seq |-> audit_seq + 1]
<1>2. c \in Cascade
  BY <1>1, ConstantsAssumption DEF CommitCascade, Cascade, TypeInv, TypeOK
<1>3. c.mem = m /\ c.seq = audit_seq + 1 /\ row = Effect(c)
  BY <1>1 DEF Effect
<1>4. /\ audit_seq' = audit_seq + 1
      /\ memories' = [memories EXCEPT ![m] = row]
      /\ committed' = [committed EXCEPT ![m] = audit_seq + 1]
      /\ EnqueueCascade(c)
      /\ UNCHANGED <<dead_letter, vectorVars, worker, sweep, operator>>
  BY <1>1 DEF CommitCascade
<1> HIDE DEF c
<1>5. WriteCommits(c)
  BY <1>3, <1>4 DEF WriteCommits, EnqueueCascade, vectorVars
<1> QED
  BY <1>2, <1>5

\* A fresh row: nothing has failed, and it waits one second.
LEMMA FreshEntryFacts ==
  ASSUME NEW c
  PROVE  /\ FreshEntry(c).cascade = c
         /\ FreshEntry(c).attempts = 0
         /\ FreshEntry(c).wait = 1
BY DEF FreshEntry, base_backoff_secs

LEMMA NextOrder ==
  ASSUME Sweepers = {}, TypeInv, HomeInv, FreshInOrder, [Next]_vars
  PROVE  FreshInOrder'
<1>1. CASE Write
  <2>1. PICK c \in Cascade : WriteCommits(c)
    BY <1>1, WriteFacts
  <2> DEFINE new == FreshEntry(c)
  <2>2. new.cascade = c /\ new.attempts = 0 /\ new.wait = 1
    BY FreshEntryFacts
  <2>3. \A r \in retry_queue : r.cascade.seq < c.seq
    BY <2>1, RowType DEF WriteCommits, HomeInv, SeqsHandedOut
  <2>4. retry_queue' = retry_queue \/ retry_queue' = retry_queue \cup {new}
    BY <2>1 DEF WriteCommits
  <2>5. c.seq \in Nat
    BY <2>1, RowType DEF WriteCommits
  <2> HIDE DEF new
  <2> QED
    BY <2>2, <2>3, <2>4, <2>5, RowType DEF FreshInOrder
<1>2. CASE Tick
  <2>1. retry_queue' = {Closer(r) : r \in retry_queue}
    BY <1>2 DEF Tick, Closer
  <2>2. \A r \in retry_queue : /\ Closer(r).cascade = r.cascade
                               /\ Closer(r).attempts = r.attempts
                               /\ Closer(r).wait = IF r.wait = 0 THEN 0 ELSE r.wait - 1
    BY RowType DEF Closer, RetryEntry
  <2>3. \A r \in retry_queue : r.attempts = 0 => r.wait <= 1
    BY DEF FreshInOrder
  <2>4. \A q, r \in retry_queue :
          /\ q.cascade.seq < r.cascade.seq
          /\ q.attempts = 0
          => Closer(q).wait <= Closer(r).wait
    BY <2>2, RowType DEF FreshInOrder
  <2>5. \A r \in retry_queue : r.attempts = 0 => Closer(r).wait <= 1
    BY <2>2, <2>3, RowType
  <2> QED
    BY <2>1, <2>2, <2>4, <2>5 DEF FreshInOrder
<1>3. CASE Reschedule
  <2>1. PICK r \in RetryEntry, new \in RetryEntry :
          QueueReplaces(r, new) /\ new.attempts > 0 /\ new.wait >= 1
    BY <1>3, RescheduleBacksOff
  <2>2. new.wait \in Nat /\ new.attempts \in Nat
    BY <2>1, ConstantsAssumption DEF RetryEntry
  <2>3. \A q \in retry_queue' : q = new \/ q \in retry_queue
    BY <2>1 DEF QueueReplaces
  <2> QED
    BY <2>1, <2>2, <2>3, RowType DEF FreshInOrder
<1>4. CASE ~Write /\ ~Tick /\ ~Reschedule
  <2>1. \A r \in retry_queue' : r \in retry_queue
    BY <1>4 DEF Next, vars, WorkerStep, PollDue, WorkerUpserts, WorkerHides, WorkerPrunes,
       WorkerFails, RecordSuccess, GiveUp, WriteDeadLetter, OperatorStep, OperatorReads,
       OperatorUpserts, OperatorHides, OperatorPrunes, OperatorFails, Resolve, Fault,
       CommitFails, WorkerStepErrs, CrashAndReopen, OperatorKilled, sqliteVars
  <2> QED
    BY <2>1 DEF FreshInOrder
<1> QED
  BY <1>1, <1>2, <1>3, <1>4

LEMMA InitOrder == Init => FreshInOrder
BY DEF Init, FreshInOrder

\* Nothing that has not failed is still waiting when what is behind it is due.
LEMMA DueInOrder ==
  ASSUME TypeInv, FreshInOrder, PollDue
  PROVE  \E r \in retry_queue :
           /\ worker' = [pc |-> "applying", entry |-> r]
           /\ \A q \in retry_queue : q.attempts = 0 => r.cascade.seq <= q.cascade.seq
<1>1. PICK r \in Due : /\ \A other \in Due : r.cascade.seq <= other.cascade.seq
                       /\ worker' = [pc |-> "applying", entry |-> r]
  BY DEF PollDue
<1>2. r \in retry_queue /\ r.wait = 0
  BY DEF Due
<1>3. ASSUME NEW q \in retry_queue, q.attempts = 0, q.cascade.seq < r.cascade.seq
      PROVE  FALSE
  <2>1. q.wait = 0
    BY <1>2, <1>3, RowType DEF FreshInOrder
  <2> QED
    BY <1>1, <1>2, <1>3, <2>1, RowType DEF Due
<1> QED
  BY <1>1, <1>2, <1>3, RowType

(***************************************************************************)
(* As long as no sweep queues older cascades behind newer ones, the worker *)
(* never takes an entry while an older one of its memory that has not      *)
(* failed yet is queued, whatever fails, crashes or is retried.            *)
(***************************************************************************)
THEOREM OlderGoesFirst ==
  ASSUME Sweepers = {}
  PROVE  Spec => NeverOvertakesFresh
<1> DEFINE Order == worker.pc = "idle" /\ worker'.pc = "applying" =>
                      \A r \in retry_queue :
                        /\ r.cascade.mem = worker'.entry.cascade.mem
                        /\ r.cascade.seq < worker'.entry.cascade.seq
                        => r.attempts > 0
<1>1. TypeInv /\ FreshInOrder /\ [Next]_vars => Order
  <2> SUFFICES ASSUME TypeInv, FreshInOrder, [Next]_vars,
                      worker.pc = "idle", worker'.pc = "applying",
                      NEW q \in retry_queue, q.cascade.seq < worker'.entry.cascade.seq
               PROVE  q.attempts > 0
    OBVIOUS
  <2>1. PollDue
    BY IdleWorkerType DEF Next, vars, Write, WriteMemory, UpdateMemory, DeleteMemory,
       CommitCascade, Tick, WorkerStep, WorkerUpserts, WorkerHides, WorkerPrunes,
       WorkerFails, RecordSuccess, Reschedule, GiveUp, WriteDeadLetter, SweepStep,
       SweepReads, SweepReenqueues, SweepStops, OperatorStep, OperatorReads,
       OperatorUpserts, OperatorHides, OperatorPrunes, OperatorFails, Resolve, Fault,
       CommitFails, WorkerStepErrs, CrashAndReopen, SweepKilled, OperatorKilled
  <2>2. PICK r \in retry_queue :
          /\ worker' = [pc |-> "applying", entry |-> r]
          /\ \A p \in retry_queue : p.attempts = 0 => r.cascade.seq <= p.cascade.seq
    BY <2>1, DueInOrder
  <2> QED
    BY <2>2, RowType
<1>2. Order => [Order]_vars
  OBVIOUS
<1>3. TypeInv /\ HomeInv /\ FreshInOrder /\ [Next]_vars => FreshInOrder'
  BY NextOrder
<1> QED
  BY <1>1, <1>3, InitOrder, InitHomes, NextHomes, InitType, NextType, PTL
  DEF Spec, NeverOvertakesFresh

----------------------------------------------------------------------------
(* The replica, while no vector-store call fails *)

\* No sweep runs and no call fails; crashes and SQLite errors come as they like.
Steady == Sweepers = {} /\ Faults \cap {"transient", "permanent"} = {}

NoFailures ==
  /\ worker.pc \in {"idle", "applying", "pruning", "applied"}
  /\ dead_letter = <<>>
  /\ \A o \in Operators : operator[o] = Idle
  /\ \A r \in retry_queue : r.attempts = 0

OneRowPerSeq == \A q, r \in retry_queue : q.cascade.seq = r.cascade.seq => q = r

\* The worker takes the oldest cascade of all.
WorkerFirst ==
  worker.pc # "idle" =>
    \A r \in retry_queue : worker.entry.cascade.seq <= r.cascade.seq

\* Nothing queued is older than what its memory shows.
StillToShow ==
  /\ \A r \in retry_queue :
       /\ shown[r.cascade.mem] <= r.cascade.seq
       /\ r.cascade.seq <= committed[r.cascade.mem]
  /\ \A m \in Memories : shown[m] <= committed[m] /\ committed[m] <= audit_seq

\* What the worker has applied is what the vector store shows until it is recorded.
AppliedShows ==
  worker.pc \in {"pruning", "applied"} =>
    /\ vectors[worker.entry.cascade.mem] = Effect(worker.entry.cascade)
    /\ worker.pc = "applied" /\ worker.entry.cascade.op = "delete" =>
         worker.entry.cascade.mem \notin unpruned

Agrees(m) == vectors[m] = memories[m] /\ (memories[m] = 0 => m \notin unpruned)

(***************************************************************************)
(* A memory has spilled for good, or its newest operation is still queued, *)
(* or nothing is and the vector store shows what its row says.             *)
(***************************************************************************)
Spilled(m) == \E p \in pending_sync : p.mem = m

NewestQueued(m) ==
  \E r \in retry_queue : /\ r.cascade.mem = m
                         /\ r.cascade.seq = committed[m]
                         /\ Effect(r.cascade) = memories[m]

CaughtUp(m) == Agrees(m) /\ \A r \in retry_queue : r.cascade.mem # m

NewestOnItsWay == \A m \in Memories : Spilled(m) \/ NewestQueued(m) \/ CaughtUp(m)

DeliveryInv ==
  /\ NoFailures
  /\ OneRowPerSeq
  /\ WorkerFirst
  /\ StillToShow
  /\ AppliedShows
  /\ NewestOnItsWay

\* What the other invariants say of the queue.
QueueInv == TypeInv /\ HomeInv /\ WorkerHoldsQueuedEntry /\ FreshInOrder

LEMMA InitDelivery == Init => DeliveryInv
<1> SUFFICES ASSUME Init PROVE DeliveryInv
  OBVIOUS
<1>1. NoFailures /\ OneRowPerSeq /\ WorkerFirst /\ StillToShow /\ AppliedShows
  BY IdleWorkerType DEF Init, NoFailures, OneRowPerSeq, WorkerFirst, StillToShow, AppliedShows
<1>2. NewestOnItsWay
  BY DEF Init, NewestOnItsWay, CaughtUp, Agrees
<1> QED
  BY <1>1, <1>2 DEF DeliveryInv

\* The worker's entry is one of the queue's rows.
LEMMA WorkerRow ==
  ASSUME QueueInv, DeliveryInv, worker.pc # "idle"
  PROVE  /\ worker.entry.cascade \in Cascade
         /\ worker.entry.cascade.mem \in Memories
         /\ worker.entry.cascade.seq \in Nat /\ worker.entry.cascade.seq >= 1
         /\ \E r \in retry_queue : r.cascade = worker.entry.cascade
<1>1. worker.entry.cascade \in Cascade
  BY WorkerEntryType DEF QueueInv, TypeInv
<1>2. \E r \in retry_queue : r.cascade = worker.entry.cascade
  BY DEF QueueInv, WorkerHoldsQueuedEntry, DeliveryInv, NoFailures
<1> QED
  BY <1>1, <1>2 DEF Cascade

LEMMA WriteDelivery ==
  ASSUME QueueInv, DeliveryInv, Write
  PROVE  DeliveryInv'
<1> USE DEF QueueInv
<1>1. PICK c \in Cascade : WriteCommits(c)
  BY WriteFacts
<1> DEFINE new == FreshEntry(c)
<1>2. new.cascade = c /\ new.attempts = 0
  BY FreshEntryFacts
<1>3. c.mem \in Memories /\ c.seq \in Nat /\ c.seq = audit_seq + 1 /\ audit_seq \in Nat
  BY <1>1, RowType DEF Cascade, WriteCommits
<1>4. \A r \in retry_queue : r.cascade.seq < c.seq
  BY <1>1, <1>3, RowType DEF HomeInv, SeqsHandedOut
<1>5. /\ memories' = [memories EXCEPT ![c.mem] = Effect(c)]
      /\ committed' = [committed EXCEPT ![c.mem] = c.seq]
      /\ UNCHANGED <<dead_letter, vectors, unpruned, shown, worker, operator>>
      /\ \/ retry_queue' = retry_queue \cup {new} /\ UNCHANGED pending_sync
         \/ /\ UNCHANGED retry_queue
            /\ pending_sync' = {p \in pending_sync : p.mem # c.mem} \cup {c}
  BY <1>1 DEF WriteCommits
<1> HIDE DEF new
<1>6. \A r \in retry_queue' : r = new \/ r \in retry_queue
  BY <1>5
<1>7. /\ committed'[c.mem] = c.seq /\ memories'[c.mem] = Effect(c)
      /\ \A m \in Memories : m # c.mem => /\ committed'[m] = committed[m]
                                          /\ memories'[m] = memories[m]
      /\ committed \in [Memories -> Nat] /\ shown \in [Memories -> Nat]
  BY <1>3, <1>5 DEF TypeInv, TypeOK
<1>8. NoFailures'
  BY <1>2, <1>5, <1>6 DEF DeliveryInv, NoFailures
<1>9. OneRowPerSeq'
  BY <1>2, <1>3, <1>4, <1>6, RowType DEF DeliveryInv, OneRowPerSeq
<1>10. WorkerFirst'
  <2> SUFFICES ASSUME worker.pc # "idle", NEW r \in retry_queue'
               PROVE  worker.entry.cascade.seq <= r.cascade.seq
    BY <1>5 DEF WorkerFirst
  <2>1. PICK q \in retry_queue : q.cascade = worker.entry.cascade
    BY WorkerRow
  <2> QED
    BY <1>2, <1>3, <1>4, <1>6, <2>1, RowType DEF DeliveryInv, WorkerFirst
<1>11. StillToShow'
  <2>0. \A m \in Memories : shown[m] <= committed[m] /\ committed[m] <= audit_seq
    BY DEF DeliveryInv, StillToShow
  <2>3. \A m \in Memories : shown'[m] <= committed'[m] /\ committed'[m] <= audit_seq'
    BY <1>1, <1>3, <1>5, <1>7, <2>0 DEF WriteCommits
  <2> SUFFICES ASSUME NEW r \in retry_queue'
               PROVE  /\ shown[r.cascade.mem] <= r.cascade.seq
                      /\ r.cascade.seq <= committed'[r.cascade.mem]
    BY <1>5, <2>3 DEF StillToShow
  <2>1. CASE r = new
    BY <1>2, <1>3, <1>7, <2>0, <2>1
  <2>2. CASE r \in retry_queue
    BY <1>3, <1>4, <1>7, <2>2, RowType DEF DeliveryInv, StillToShow
  <2> QED
    BY <1>6, <2>1, <2>2
<1>12. AppliedShows'
  BY <1>5 DEF DeliveryInv, AppliedShows
<1>13. NewestOnItsWay'
  <2> SUFFICES ASSUME NEW m \in Memories
               PROVE  Spilled(m)' \/ NewestQueued(m)' \/ CaughtUp(m)'
    BY DEF NewestOnItsWay
  <2>1. CASE m = c.mem
    BY <1>2, <1>5, <1>7, <2>1 DEF Spilled, NewestQueued
  <2>2. CASE m # c.mem
    <3>1. Spilled(m) \/ NewestQueued(m) \/ CaughtUp(m)
      BY DEF DeliveryInv, NewestOnItsWay
    <3>2. Spilled(m) => Spilled(m)'
      BY <1>5, <2>2 DEF Spilled
    <3>3. NewestQueued(m) => NewestQueued(m)'
      BY <1>5, <1>7, <2>2 DEF NewestQueued
    <3>4. CaughtUp(m) => CaughtUp(m)'
      BY <1>2, <1>5, <1>6, <1>7, <2>2 DEF CaughtUp, Agrees
    <3> QED
      BY <3>1, <3>2, <3>3, <3>4
  <2> QED
    BY <2>1, <2>2
<1> QED
  BY <1>8, <1>9, <1>10, <1>11, <1>12, <1>13 DEF DeliveryInv

\* Rows whose waiting time passes are the same rows.
LEMMA TickDelivery ==
  ASSUME QueueInv, DeliveryInv, Tick
  PROVE  DeliveryInv'
<1> USE DEF QueueInv
<1>1. retry_queue' = {Closer(r) : r \in retry_queue}
  BY DEF Tick, Closer
<1>2. \A r \in retry_queue : Closer(r).cascade = r.cascade /\ Closer(r).attempts = r.attempts
  BY RowType, CloserKeeps
<1>3. UNCHANGED <<memories, committed, audit_seq, pending_sync, dead_letter, vectors,
                  unpruned, shown, worker, operator>>
  BY DEF Tick, vectorVars
<1>4. \A r \in retry_queue' : \E q \in retry_queue : r = Closer(q)
  BY <1>1
<1>5. \A q \in retry_queue : Closer(q) \in retry_queue'
  BY <1>1
<1>6. NoFailures' /\ WorkerFirst' /\ StillToShow' /\ AppliedShows'
  BY <1>2, <1>3, <1>4 DEF DeliveryInv, NoFailures, WorkerFirst, StillToShow, AppliedShows
<1>7. OneRowPerSeq'
  BY <1>2, <1>4 DEF DeliveryInv, OneRowPerSeq
<1>8. NewestOnItsWay'
  <2> SUFFICES ASSUME NEW m \in Memories
               PROVE  Spilled(m)' \/ NewestQueued(m)' \/ CaughtUp(m)'
    BY DEF NewestOnItsWay
  <2>1. Spilled(m) \/ NewestQueued(m) \/ CaughtUp(m)
    BY DEF DeliveryInv, NewestOnItsWay
  <2>2. Spilled(m) => Spilled(m)'
    BY <1>3 DEF Spilled
  <2>3. NewestQueued(m) => NewestQueued(m)'
    BY <1>2, <1>3, <1>5 DEF NewestQueued
  <2>4. CaughtUp(m) => CaughtUp(m)'
    BY <1>2, <1>3, <1>4 DEF CaughtUp, Agrees
  <2> QED
    BY <2>1, <2>2, <2>3, <2>4
<1> QED
  BY <1>6, <1>7, <1>8 DEF DeliveryInv

\* Steps that touch neither the tables nor the vector store.
LEMMA IdleDelivery ==
  ASSUME QueueInv, DeliveryInv,
         UNCHANGED <<memories, committed, audit_seq, retry_queue, pending_sync,
                     dead_letter, vectors, unpruned, shown, operator>>,
         \/ UNCHANGED worker
         \/ worker' = Idle
         \/ PollDue
  PROVE  DeliveryInv'
<1> USE DEF QueueInv
<1>1. NoFailures' /\ OneRowPerSeq' /\ StillToShow'
  BY IdleWorkerType DEF DeliveryInv, NoFailures, OneRowPerSeq, StillToShow, PollDue
<1>2. AppliedShows'
  BY IdleWorkerType DEF DeliveryInv, AppliedShows, PollDue
<1>3. WorkerFirst'
  <2>1. CASE PollDue
    <3>1. PICK r \in retry_queue :
            /\ worker' = [pc |-> "applying", entry |-> r]
            /\ \A q \in retry_queue : q.attempts = 0 => r.cascade.seq <= q.cascade.seq
      BY <2>1, DueInOrder
    <3> QED
      BY <3>1 DEF WorkerFirst, DeliveryInv, NoFailures
  <2> QED
    BY <2>1, IdleWorkerType DEF DeliveryInv, WorkerFirst
<1>4. NewestOnItsWay'
  BY DEF DeliveryInv, NewestOnItsWay, Spilled, NewestQueued, CaughtUp, Agrees
<1> QED
  BY <1>1, <1>2, <1>3, <1>4 DEF DeliveryInv

\* Applying the oldest cascade of all shows its memory's next operation.
LEMMA ApplyDelivery ==
  ASSUME QueueInv, DeliveryInv, WorkerUpserts \/ WorkerHides
  PROVE  DeliveryInv'
<1> USE DEF QueueInv
<1> DEFINE c == worker.entry.cascade
<1>1. worker.pc = "applying" /\ UNCHANGED <<sqliteVars, operator>>
  BY DEF WorkerUpserts, WorkerHides
<1>2. /\ c.mem \in Memories /\ c.seq \in Nat
      /\ \E r \in retry_queue : r.cascade = c
  BY <1>1, WorkerRow
<1>3. /\ vectors' = [vectors EXCEPT ![c.mem] = Effect(c)]
      /\ \A m \in Memories : m # c.mem => (m \in unpruned' <=> m \in unpruned)
      /\ shown' = [shown EXCEPT ![c.mem] = c.seq]
      /\ worker'.entry.cascade = c
      /\ worker'.pc = IF c.op = "delete" THEN "pruning" ELSE "applied"
  BY DEF WorkerUpserts, WorkerHides, Upsert, HideRow, RecordShown, WorkerTo, Effect
<1>4. \A r \in retry_queue : c.seq <= r.cascade.seq
  BY <1>1 DEF DeliveryInv, WorkerFirst
<1> HIDE DEF c
<1>5. /\ UNCHANGED <<memories, committed, audit_seq, retry_queue, pending_sync, dead_letter>>
      /\ vectors'[c.mem] = Effect(c) /\ shown'[c.mem] = c.seq
      /\ \A m \in Memories : m # c.mem => vectors'[m] = vectors[m] /\ shown'[m] = shown[m]
  BY <1>1, <1>2, <1>3 DEF sqliteVars, TypeInv, TypeOK
<1>6. NoFailures' /\ OneRowPerSeq'
  BY <1>1, <1>3, <1>5 DEF DeliveryInv, NoFailures, OneRowPerSeq
<1>7. WorkerFirst'
  BY <1>3, <1>4, <1>5 DEF WorkerFirst
<1>8. StillToShow'
  <2>1. c.seq <= committed[c.mem]
    BY <1>2 DEF DeliveryInv, StillToShow
  <2>2. \A r \in retry_queue : shown'[r.cascade.mem] <= r.cascade.seq
    BY <1>4, <1>5, RowType DEF DeliveryInv, StillToShow
  <2> QED
    BY <1>5, <2>1, <2>2 DEF DeliveryInv, StillToShow
<1>9. AppliedShows'
  BY <1>3, <1>5 DEF AppliedShows
<1>10. NewestOnItsWay'
  <2> SUFFICES ASSUME NEW m \in Memories
               PROVE  Spilled(m)' \/ NewestQueued(m)' \/ CaughtUp(m)'
    BY DEF NewestOnItsWay
  <2>1. Spilled(m) \/ NewestQueued(m) \/ CaughtUp(m)
    BY DEF DeliveryInv, NewestOnItsWay
  <2>2. Spilled(m) => Spilled(m)'
    BY <1>5 DEF Spilled
  <2>3. NewestQueued(m) => NewestQueued(m)'
    BY <1>5 DEF NewestQueued
  <2>4. CaughtUp(m) => CaughtUp(m)'
    <3> SUFFICES ASSUME CaughtUp(m) PROVE CaughtUp(m)'
      OBVIOUS
    <3>1. m # c.mem
      BY <1>2 DEF CaughtUp
    <3> QED
      BY <1>3, <1>5, <3>1 DEF CaughtUp, Agrees
  <2> QED
    BY <2>1, <2>2, <2>3, <2>4
<1> QED
  BY <1>6, <1>7, <1>8, <1>9, <1>10 DEF DeliveryInv

\* Pruning clears what replaced and deleted rows left behind, of every memory.
LEMMA PruneDelivery ==
  ASSUME QueueInv, DeliveryInv, WorkerPrunes
  PROVE  DeliveryInv'
<1>1. /\ worker.pc = "pruning" /\ worker'.pc = "applied"
      /\ worker'.entry.cascade = worker.entry.cascade
      /\ unpruned' = {}
      /\ UNCHANGED <<memories, committed, audit_seq, retry_queue, pending_sync,
                     dead_letter, vectors, shown, operator>>
  BY DEF WorkerPrunes, PruneOldVersions, WorkerTo, sqliteVars
<1>2. NoFailures' /\ OneRowPerSeq' /\ WorkerFirst' /\ StillToShow' /\ AppliedShows'
  BY <1>1 DEF DeliveryInv, NoFailures, OneRowPerSeq, WorkerFirst, StillToShow, AppliedShows
<1>3. NewestOnItsWay'
  BY <1>1 DEF DeliveryInv, NewestOnItsWay, Spilled, NewestQueued, CaughtUp, Agrees
<1> QED
  BY <1>2, <1>3 DEF DeliveryInv

(***************************************************************************)
(* A recorded success takes the worker's row out: if it was its memory's   *)
(* newest, the memory is caught up, for no other row of it is left; if     *)
(* not, the newest is still queued.                                        *)
(***************************************************************************)
LEMMA SuccessDelivery ==
  ASSUME QueueInv, DeliveryInv, RecordSuccess
  PROVE  DeliveryInv'
<1> USE DEF QueueInv
<1> DEFINE c == worker.entry.cascade
<1>1. /\ worker.pc = "applied" /\ worker' = Idle
      /\ retry_queue' = retry_queue \ RowsOf(c)
      /\ UNCHANGED <<memories, committed, audit_seq, pending_sync, dead_letter, vectors,
                     unpruned, shown, operator>>
  BY DEF RecordSuccess, vectorVars
<1>2. /\ c \in Cascade /\ c.mem \in Memories /\ c.seq \in Nat /\ c.seq >= 1
      /\ \E r \in retry_queue : r.cascade = c
  BY <1>1, WorkerRow
<1>3. /\ \A r \in retry_queue : c.seq <= r.cascade.seq
      /\ vectors[c.mem] = Effect(c)
      /\ c.op = "delete" => c.mem \notin unpruned
  BY <1>1 DEF DeliveryInv, WorkerFirst, AppliedShows
<1> HIDE DEF c
<1>4. \A r \in retry_queue : r \in retry_queue' <=> r.cascade # c
  BY <1>1 DEF RowsOf
<1>5. \A r \in retry_queue' : r \in retry_queue
  BY <1>1
<1>6. NoFailures' /\ OneRowPerSeq' /\ WorkerFirst' /\ StillToShow' /\ AppliedShows'
  BY <1>1, <1>5, IdleWorkerType
  DEF DeliveryInv, NoFailures, OneRowPerSeq, WorkerFirst, StillToShow, AppliedShows
<1>7. NewestOnItsWay'
  <2> SUFFICES ASSUME NEW m \in Memories
               PROVE  Spilled(m)' \/ NewestQueued(m)' \/ CaughtUp(m)'
    BY DEF NewestOnItsWay
  <2>1. Spilled(m) \/ NewestQueued(m) \/ CaughtUp(m)
    BY DEF DeliveryInv, NewestOnItsWay
  <2>2. Spilled(m) => Spilled(m)'
    BY <1>1 DEF Spilled
  <2>3. CaughtUp(m) => CaughtUp(m)'
    BY <1>1, <1>5 DEF CaughtUp, Agrees
  <2>4. ASSUME NewestQueued(m) PROVE NewestQueued(m)' \/ CaughtUp(m)'
    <3>1. PICK r \in retry_queue : /\ r.cascade.mem = m
                                   /\ r.cascade.seq = committed[m]
                                   /\ Effect(r.cascade) = memories[m]
      BY <2>4 DEF NewestQueued
    <3>2. CASE r.cascade # c
      BY <1>1, <1>4, <3>1, <3>2 DEF NewestQueued
    <3>3. CASE r.cascade = c
      <4>1. ASSUME NEW q \in retry_queue', q.cascade.mem = m PROVE FALSE
        <5>1. q \in retry_queue /\ q.cascade # c
          BY <1>4, <1>5, <4>1
        <5>2. q.cascade.seq <= committed[m] /\ c.seq <= q.cascade.seq
          BY <1>3, <4>1, <5>1 DEF DeliveryInv, StillToShow
        <5>3. q.cascade.seq = r.cascade.seq
          BY <1>2, <3>1, <3>3, <5>1, <5>2, RowType
        <5> QED
          BY <3>3, <5>1, <5>3 DEF DeliveryInv, OneRowPerSeq
      <4>2. Agrees(m)
        BY <1>2, <1>3, <3>1, <3>3 DEF Agrees, Effect
      <4> QED
        BY <1>1, <4>1, <4>2 DEF CaughtUp, Agrees
    <3> QED
      BY <3>2, <3>3
  <2> QED
    BY <2>1, <2>2, <2>3, <2>4
<1> QED
  BY <1>6, <1>7 DEF DeliveryInv

\* While nothing fails, nothing but these steps happens.
LEMMA SteadySteps ==
  ASSUME Steady, QueueInv, DeliveryInv, [Next]_vars
  PROVE  \/ Write \/ Tick \/ WorkerUpserts \/ WorkerHides \/ WorkerPrunes \/ RecordSuccess
         \/ /\ UNCHANGED <<memories, committed, audit_seq, retry_queue, pending_sync,
                           dead_letter, vectors, unpruned, shown, operator>>
            /\ UNCHANGED worker \/ worker' = Idle \/ PollDue
<1>1. ~WorkerFails
  BY DEF Steady, WorkerFails
<1>2. ~Reschedule /\ ~GiveUp /\ ~WriteDeadLetter
  BY DEF DeliveryInv, NoFailures, Reschedule, GiveUp, WriteDeadLetter
<1>3. ASSUME NEW o \in Operators, OperatorStep(o) \/ OperatorKilled(o) PROVE FALSE
  <2>1. operator[o] = Idle /\ operator[o].pc = "idle" /\ Len(dead_letter) = 0
    BY IdleWorkerType DEF DeliveryInv, NoFailures
  <2> QED
    BY <1>3, <2>1 DEF OperatorStep, OperatorReads, OperatorUpserts, OperatorHides,
       OperatorPrunes, OperatorFails, Resolve, OperatorKilled, Resolution
<1>4. \A s \in Sweepers : FALSE
  BY DEF Steady
<1>5. CASE PollDue
  BY <1>5 DEF PollDue, sqliteVars, vectorVars
<1>6. CASE CommitFails \/ WorkerStepErrs \/ CrashAndReopen \/ UNCHANGED vars
  BY <1>6 DEF CommitFails, WorkerStepErrs, CrashAndReopen, vars, sqliteVars, vectorVars
<1> QED
  BY <1>1, <1>2, <1>3, <1>4, <1>5, <1>6 DEF Next, WorkerStep, Fault

LEMMA NextDelivery ==
  ASSUME Steady, QueueInv, DeliveryInv, [Next]_vars
  PROVE  DeliveryInv'
BY SteadySteps, WriteDelivery, TickDelivery, ApplyDelivery, PruneDelivery, SuccessDelivery,
   IdleDelivery

(***************************************************************************)
(* SQLite is the source of truth: with no sweep and no failing call, and   *)
(* whatever crashes and SQLite errors come between its steps, the vector   *)
(* store shows for every memory with nothing under way exactly what its    *)
(* row says, and keeps nothing of one that was deleted.                    *)
(***************************************************************************)
THEOREM SettledAgree ==
  ASSUME Steady
  PROVE  Spec => []SettledMemoriesAgree
<1>1. DeliveryInv => SettledMemoriesAgree
  BY DEF DeliveryInv, NewestOnItsWay, SettledMemoriesAgree, Settled, Spilled,
     NewestQueued, CaughtUp, Agrees
<1>2. QueueInv /\ DeliveryInv /\ [Next]_vars => DeliveryInv'
  BY NextDelivery
<1>3. QueueInv /\ [Next]_vars => QueueInv'
  BY NextType, NextHomes, NextHolds, NextOrder DEF QueueInv, Steady
<1>4. Init => QueueInv
  BY InitType, InitHomes, InitHolds, InitOrder DEF QueueInv
<1> QED
  BY <1>1, <1>2, <1>3, <1>4, InitDelivery, PTL DEF Spec

(***************************************************************************)
(* The same with OrderedReplica: every step of the storage core is a step  *)
(* of the replica, which moves forward, or leaves it as it is.             *)
(***************************************************************************)
THEOREM ReplicaInOrder ==
  ASSUME Steady
  PROVE  Spec => Replica!Spec
<1>1. Init => Replica!Init
  BY DEF Init, Replica!Init
<1>2. QueueInv /\ DeliveryInv /\ [Next]_vars => [Replica!Next]_(Replica!vars)
  <2> SUFFICES ASSUME QueueInv, DeliveryInv, [Next]_vars
               PROVE  [Replica!Next]_(Replica!vars)
    OBVIOUS
  <2>1. CASE Write
    <3>1. PICK c \in Cascade : WriteCommits(c)
      BY <2>1, WriteFacts DEF QueueInv
    <3>2. c.mem \in Memories /\ c.seq \in 1..MaxSeq /\ audit_seq \in Nat
      BY RowType DEF Cascade, QueueInv
    <3>3. Replica!Commit(c.mem)
      BY <3>1, <3>2, ConstantsAssumption DEF WriteCommits, Replica!Commit
    <3> QED
      BY <3>2, <3>3 DEF Replica!Next
  <2>2. CASE WorkerUpserts \/ WorkerHides
    <3> DEFINE c == worker.entry.cascade
    <3>1. worker.pc = "applying" /\ UNCHANGED <<audit_seq, committed>>
      BY <2>2 DEF WorkerUpserts, WorkerHides, sqliteVars
    <3>2. c.mem \in Memories /\ c.seq \in Nat /\ \E r \in retry_queue : r.cascade = c
      BY <3>1, WorkerRow
    <3>3. shown' = [shown EXCEPT ![c.mem] = c.seq]
      BY <2>2 DEF WorkerUpserts, WorkerHides, RecordShown
    <3> HIDE DEF c
    <3>4. shown[c.mem] <= c.seq /\ c.seq <= committed[c.mem]
      BY <3>2 DEF DeliveryInv, StillToShow
    <3>5. shown \in [Memories -> Nat] /\ committed \in [Memories -> Nat]
      BY DEF QueueInv, TypeInv, TypeOK
    <3>6. CASE shown[c.mem] = c.seq
      <4>1. shown' = shown
        BY <3>2, <3>3, <3>5, <3>6
      <4> QED
        BY <3>1, <4>1 DEF Replica!vars
    <3>7. CASE shown[c.mem] # c.seq
      <4>1. c.seq \in (shown[c.mem] + 1)..committed[c.mem]
        BY <3>2, <3>4, <3>5, <3>7
      <4>2. Replica!Apply(c.mem)
        BY <3>1, <3>3, <4>1 DEF Replica!Apply
      <4> QED
        BY <3>2, <4>2 DEF Replica!Next
    <3> QED
      BY <3>6, <3>7
  <2>3. CASE UNCHANGED <<audit_seq, committed, shown>>
    BY <2>3 DEF Replica!vars
  <2>4. Tick \/ WorkerPrunes \/ RecordSuccess => UNCHANGED <<audit_seq, committed, shown>>
    BY DEF Tick, WorkerPrunes, PruneOldVersions, RecordSuccess, sqliteVars, vectorVars
  <2> QED
    BY <2>1, <2>2, <2>3, <2>4, SteadySteps
<1>3. QueueInv /\ DeliveryInv /\ [Next]_vars => DeliveryInv'
  BY NextDelivery
<1>4. QueueInv /\ [Next]_vars => QueueInv'
  BY NextType, NextHomes, NextHolds, NextOrder DEF QueueInv, Steady
<1>5. Init => QueueInv
  BY InitType, InitHomes, InitHolds, InitOrder DEF QueueInv
<1> QED
  BY <1>1, <1>2, <1>3, <1>4, <1>5, InitDelivery, PTL DEF Spec, Replica!Spec

============================================================================
