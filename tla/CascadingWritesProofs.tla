----------------------- MODULE CascadingWritesProofs -----------------------
(***************************************************************************)
(* The types of CascadingWrites, its resolutions, and what retry_queue and *)
(* pending_sync may not exceed, repeat or lose, for every choice of its    *)
(* constants.                                                              *)
(***************************************************************************)
EXTENDS CascadingWrites, FiniteSetTheorems, TLAPS

----------------------------------------------------------------------------
(* Type correctness *)

(***************************************************************************)
(* Type correctness is not inductive alone: an operator's retry reads the  *)
(* dead letter it picked earlier, so that row must still be there.         *)
(***************************************************************************)
OperatorRowsExist ==
  \A o \in Operators : operator[o].pc # "idle" => operator[o].id \in 1..Len(dead_letter)

TypeInv == TypeOK /\ OperatorRowsExist

----------------------------------------------------------------------------

\* base_backoff_secs has an entry for every attempt count a row can have.
LEMMA BackoffType ==
  \A n \in 0..7 : base_backoff_secs[n + 1] \in Nat
BY DEF base_backoff_secs

\* A jittered wait is a number of seconds.
LEMMA JitterType ==
  ASSUME NEW n \in 0..7, NEW w \in JitteredWaits(n)
  PROVE  w \in Nat
<1>1. base_backoff_secs[n + 1] \in Nat
  BY BackoffType
<1> DEFINE b == base_backoff_secs[n + 1]
<1>2. b \div 4 \in Nat /\ b - b \div 4 \in Nat
  BY <1>1
<1> QED
  BY <1>2 DEF JitteredWaits

\* What tx_insert_retry_queue builds from a cascade is a row of the queue.
LEMMA FreshEntryType ==
  ASSUME NEW c \in Cascade
  PROVE  FreshEntry(c) \in RetryEntry
BY ConstantsAssumption DEF FreshEntry, RetryEntry, base_backoff_secs

\* Queueing or spilling a cascade leaves both tables well formed.
LEMMA EnqueueType ==
  ASSUME NEW c \in Cascade, retry_queue \subseteq RetryEntry,
         pending_sync \subseteq Cascade, overflow_events \in 0..2,
         EnqueueCascade(c)
  PROVE  /\ retry_queue' \subseteq RetryEntry
         /\ pending_sync' \subseteq Cascade
         /\ in_cap_overflow' \in BOOLEAN
         /\ overflow_events' \in 0..2
<1>1. CASE ~AtCap
  <2>1. retry_queue' = retry_queue \cup {FreshEntry(c)} /\ overflow_events' = 0
        /\ in_cap_overflow' = FALSE /\ pending_sync' = pending_sync
    BY <1>1 DEF EnqueueCascade
  <2>2. FreshEntry(c) \in RetryEntry
    BY FreshEntryType
  <2>3. in_cap_overflow' \in BOOLEAN
    BY <2>1, Zenon
  <2> QED
    BY <2>1, <2>2, <2>3
<1>2. CASE AtCap
  BY <1>2 DEF EnqueueCascade
<1> QED
  BY <1>1, <1>2

\* The transaction of any cascading operation keeps the types.
LEMMA CommitType ==
  ASSUME TypeInv, NEW m \in Memories, NEW op \in CascadeOperation,
         NEW row \in {0, audit_seq + 1}, CommitCascade(m, op, row)
  PROVE  TypeInv'
<1> DEFINE c == [mem |-> m, op |-> op, seq |-> audit_seq + 1]
<1> USE DEF TypeInv
<1>1. audit_seq + 1 \in 1..MaxSeq
  BY ConstantsAssumption DEF TypeOK, CommitCascade
<1>2. c \in Cascade
  BY <1>1 DEF Cascade
<1>3. EnqueueCascade(c)
  BY DEF CommitCascade
<1>4. /\ retry_queue' \subseteq RetryEntry
      /\ pending_sync' \subseteq Cascade
      /\ in_cap_overflow' \in BOOLEAN
      /\ overflow_events' \in 0..2
  BY <1>2, <1>3, EnqueueType DEF TypeOK
<1>5. /\ memories' \in [Memories -> 0..MaxSeq]
      /\ committed' \in [Memories -> 0..MaxSeq]
      /\ audit_seq' \in 0..MaxSeq
  <2>1. row \in 0..MaxSeq /\ audit_seq + 1 \in 0..MaxSeq
    BY <1>1, ConstantsAssumption
  <2>2. /\ audit_seq' = audit_seq + 1
        /\ memories' = [memories EXCEPT ![m] = row]
        /\ committed' = [committed EXCEPT ![m] = audit_seq + 1]
    BY DEF CommitCascade
  <2> QED
    BY <2>1, <2>2 DEF TypeOK
<1>6. UNCHANGED <<dead_letter, vectors, unpruned, shown, reached, worker, sweep, operator>>
  BY DEF CommitCascade, vectorVars
<1>7. TypeOK'
  BY <1>4, <1>5, <1>6 DEF TypeOK
<1>8. OperatorRowsExist'
  BY <1>6 DEF OperatorRowsExist
<1> QED
  BY <1>7, <1>8

\* Applying a cascade keeps the vector store and its history well formed.
LEMMA UpsertType ==
  ASSUME TypeInv, NEW c \in Cascade, Upsert(c) \/ HideRow(c), RecordShown(c)
  PROVE  /\ vectors' \in [Memories -> 0..MaxSeq]
         /\ unpruned' \subseteq Memories
         /\ shown' \in [Memories -> 0..MaxSeq]
         /\ reached' \in [Memories -> 0..MaxSeq]
<1>1. c.mem \in Memories /\ c.seq \in 0..MaxSeq
  BY ConstantsAssumption DEF Cascade
<1>2. vectors' \in [Memories -> 0..MaxSeq] /\ unpruned' \subseteq Memories
  <2>1. \/ vectors' = [vectors EXCEPT ![c.mem] = c.seq]
        \/ vectors' = [vectors EXCEPT ![c.mem] = 0]
    BY DEF Upsert, HideRow
  <2>2. unpruned' = unpruned \/ unpruned' = unpruned \cup {c.mem}
    BY DEF Upsert, HideRow
  <2>3. 0 \in 0..MaxSeq
    BY ConstantsAssumption
  <2> QED
    BY <1>1, <2>1, <2>2, <2>3 DEF TypeInv, TypeOK
<1>3. shown' \in [Memories -> 0..MaxSeq]
  BY <1>1 DEF TypeInv, TypeOK, RecordShown
<1>4. reached' \in [Memories -> 0..MaxSeq]
  <2> DEFINE new == IF c.seq > reached[c.mem] THEN c.seq ELSE reached[c.mem]
  <2>1. new \in 0..MaxSeq
    BY <1>1 DEF TypeInv, TypeOK
  <2>2. reached' = [reached EXCEPT ![c.mem] = new]
    BY DEF RecordShown
  <2> QED
    BY <2>1, <2>2 DEF TypeInv, TypeOK
<1> QED
  BY <1>2, <1>3, <1>4

\* Outside "idle" the worker holds a row of the queue's type.
LEMMA WorkerEntryType ==
  ASSUME TypeOK, worker.pc # "idle"
  PROVE  /\ worker.entry \in RetryEntry
         /\ worker.entry.cascade \in Cascade
BY DEF TypeOK, WorkerState, RetryEntry

\* Moving the worker on keeps its type.
LEMMA WorkerToType ==
  ASSUME TypeOK, worker.pc # "idle", NEW pc,
         pc \in {"applying", "pruning", "applied", "failed", "failed_permanently",
                 "dead_lettering"},
         WorkerTo(pc)
  PROVE  worker' \in WorkerState
BY WorkerEntryType DEF WorkerTo, WorkerState

LEMMA IdleWorkerType == Idle \in WorkerState /\ Idle \in OperatorState /\ Idle.pc = "idle"
BY DEF Idle, WorkerState, OperatorState

----------------------------------------------------------------------------

LEMMA InitType == Init => TypeInv
<1> SUFFICES ASSUME Init PROVE TypeInv
  OBVIOUS
<1>1. 0 \in 0..MaxSeq /\ 0 \in 0..2
  BY ConstantsAssumption
<1>2. in_cap_overflow \in BOOLEAN
  BY Zenon DEF Init
<1>3. worker \in WorkerState /\ operator \in [Operators -> OperatorState]
  BY IdleWorkerType DEF Init
<1>4. dead_letter \in Seq(DeadLetterEntry)
  BY DEF Init
<1>5. TypeOK
  BY <1>1, <1>2, <1>3, <1>4 DEF Init, TypeOK
<1>6. OperatorRowsExist
  BY IdleWorkerType DEF Init, OperatorRowsExist
<1> QED
  BY <1>5, <1>6 DEF TypeInv

\* Steps that leave dead_letter and operator alone keep OperatorRowsExist.
LEMMA OperatorRowsUnchanged ==
  ASSUME OperatorRowsExist, UNCHANGED <<dead_letter, operator>>
  PROVE  OperatorRowsExist'
BY DEF OperatorRowsExist

LEMMA WorkerStepType ==
  ASSUME TypeInv, WorkerStep
  PROVE  TypeInv'
<1> USE DEF TypeInv
<1>1. CASE PollDue
  <2>1. worker' \in WorkerState
    <3>1. PICK r \in Due : worker' = [pc |-> "applying", entry |-> r]
      BY <1>1 DEF PollDue
    <3>2. r \in RetryEntry
      BY DEF Due, TypeOK
    <3> QED
      BY <3>1, <3>2 DEF WorkerState
  <2>2. TypeOK'
    BY <1>1, <2>1 DEF PollDue, TypeOK, sqliteVars, vectorVars
  <2> QED
    BY <1>1, <2>2, OperatorRowsUnchanged DEF PollDue, sqliteVars
<1>2. CASE WorkerUpserts \/ WorkerHides
  <2>1. worker.pc # "idle"
    BY <1>2 DEF WorkerUpserts, WorkerHides
  <2> DEFINE c == worker.entry.cascade
  <2>2. c \in Cascade
    BY <2>1, WorkerEntryType
  <2>3. (Upsert(c) \/ HideRow(c)) /\ RecordShown(c)
    BY <1>2 DEF WorkerUpserts, WorkerHides
  <2>4. /\ vectors' \in [Memories -> 0..MaxSeq]
        /\ unpruned' \subseteq Memories
        /\ shown' \in [Memories -> 0..MaxSeq]
        /\ reached' \in [Memories -> 0..MaxSeq]
    BY <2>2, <2>3, UpsertType
  <2>5. WorkerTo("applied") \/ WorkerTo("pruning")
    BY <1>2 DEF WorkerUpserts, WorkerHides
  <2>6. worker' \in WorkerState
    BY <2>1, <2>5, WorkerToType
  <2>7. UNCHANGED <<sqliteVars, in_cap_overflow, sweep, operator>>
    BY <1>2 DEF WorkerUpserts, WorkerHides
  <2>8. TypeOK'
    BY <2>4, <2>6, <2>7 DEF TypeOK, sqliteVars
  <2> QED
    BY <2>7, <2>8, OperatorRowsUnchanged DEF sqliteVars
<1>3. CASE WorkerPrunes
  <2>1. worker' \in WorkerState
    BY <1>3, WorkerToType DEF WorkerPrunes
  <2>2. TypeOK'
    BY <1>3, <2>1 DEF WorkerPrunes, PruneOldVersions, TypeOK, sqliteVars
  <2> QED
    BY <1>3, <2>2, OperatorRowsUnchanged DEF WorkerPrunes, sqliteVars
<1>4. CASE WorkerFails
  <2>1. worker' \in WorkerState
    BY <1>4, WorkerToType DEF WorkerFails
  <2>2. TypeOK'
    BY <1>4, <2>1 DEF WorkerFails, TypeOK, sqliteVars, vectorVars
  <2> QED
    BY <1>4, <2>2, OperatorRowsUnchanged DEF WorkerFails, sqliteVars
<1>5. CASE RecordSuccess
  <2>1. retry_queue' \subseteq RetryEntry /\ worker' \in WorkerState
    BY <1>5, IdleWorkerType DEF RecordSuccess, TypeOK
  <2>2. TypeOK'
    BY <1>5, <2>1 DEF RecordSuccess, TypeOK, vectorVars
  <2> QED
    BY <1>5, <2>2, OperatorRowsUnchanged DEF RecordSuccess
<1>6. CASE Reschedule
  <2>1. PICK r \in RowsOf(worker.entry.cascade) :
          /\ r.attempts + 1 < MaxAttempts
          /\ \E w \in JitteredWaits(r.attempts + 1) :
               retry_queue' = (retry_queue \ {r}) \cup
                                {[r EXCEPT !.attempts = @ + 1, !.wait = w]}
    BY <1>6 DEF Reschedule
  <2>2. PICK w \in JitteredWaits(r.attempts + 1) :
               retry_queue' = (retry_queue \ {r}) \cup
                                {[r EXCEPT !.attempts = @ + 1, !.wait = w]}
    BY <2>1
  <2>3. r \in RetryEntry
    BY DEF RowsOf, TypeOK
  <2>4. r.attempts + 1 \in 0..(MaxAttempts - 1) /\ r.attempts + 1 \in 0..7
    BY <2>1, <2>3, ConstantsAssumption DEF RetryEntry
  <2>5. w \in Nat
    BY <2>4, JitterType
  <2>6. [r EXCEPT !.attempts = @ + 1, !.wait = w] \in RetryEntry
    BY <2>3, <2>4, <2>5 DEF RetryEntry
  <2>7. retry_queue' \subseteq RetryEntry
    BY <2>2, <2>6 DEF TypeOK
  <2>8. worker' \in WorkerState
    BY <1>6, IdleWorkerType DEF Reschedule
  <2>9. TypeOK'
    BY <1>6, <2>7, <2>8 DEF Reschedule, TypeOK, vectorVars
  <2> QED
    BY <1>6, <2>9, OperatorRowsUnchanged DEF Reschedule
<1>7. CASE GiveUp
  <2>1. retry_queue' \subseteq RetryEntry
    BY <1>7 DEF GiveUp, TypeOK
  <2>2. worker' \in WorkerState
    BY <1>7, WorkerToType DEF GiveUp
  <2>3. TypeOK'
    BY <1>7, <2>1, <2>2 DEF GiveUp, TypeOK, vectorVars
  <2> QED
    BY <1>7, <2>3, OperatorRowsUnchanged DEF GiveUp
<1>8. CASE WriteDeadLetter
  <2> DEFINE d == [cascade |-> worker.entry.cascade, resolution |-> "pending"]
  <2>1. d \in DeadLetterEntry
    BY <1>8, WorkerEntryType DEF WriteDeadLetter, DeadLetterEntry
  <2>2. dead_letter' = Append(dead_letter, d)
    BY <1>8 DEF WriteDeadLetter
  <2>3. dead_letter' \in Seq(DeadLetterEntry) /\ Len(dead_letter') = Len(dead_letter) + 1
    BY <2>1, <2>2 DEF TypeOK
  <2>4. worker' \in WorkerState
    BY <1>8, IdleWorkerType DEF WriteDeadLetter
  <2>5. TypeOK'
    BY <1>8, <2>3, <2>4 DEF WriteDeadLetter, TypeOK, vectorVars
  <2>6. Len(dead_letter) \in Nat
    BY DEF TypeOK
  <2>7. OperatorRowsExist'
    BY <1>8, <2>3, <2>6 DEF WriteDeadLetter, OperatorRowsExist
  <2> QED
    BY <2>5, <2>7
<1> QED
  BY <1>1, <1>2, <1>3, <1>4, <1>5, <1>6, <1>7, <1>8 DEF WorkerStep

LEMMA TickType ==
  ASSUME TypeInv, Tick
  PROVE  TypeInv'
<1> USE DEF TypeInv
<1> DEFINE closer(r) == [r EXCEPT !.wait = IF @ = 0 THEN 0 ELSE @ - 1]
<1>1. \A r \in RetryEntry : closer(r) \in RetryEntry
  <2> SUFFICES ASSUME NEW r \in RetryEntry PROVE closer(r) \in RetryEntry
    OBVIOUS
  <2>1. (IF r.wait = 0 THEN 0 ELSE r.wait - 1) \in Nat
    BY DEF RetryEntry
  <2> QED
    BY <2>1 DEF RetryEntry
<1>2. retry_queue' = {closer(r) : r \in retry_queue}
  BY DEF Tick
<1>3. retry_queue' \subseteq RetryEntry
  BY <1>1, <1>2 DEF TypeOK
<1>4. TypeOK'
  BY <1>3 DEF Tick, TypeOK, vectorVars
<1> QED
  BY <1>4, OperatorRowsUnchanged DEF Tick

LEMMA WriteType ==
  ASSUME TypeInv, Write
  PROVE  TypeInv'
<1>1. PICK m \in Memories : WriteMemory(m) \/ UpdateMemory(m) \/ DeleteMemory(m)
  BY DEF Write
<1>2. \E op \in CascadeOperation, row \in {0, audit_seq + 1} : CommitCascade(m, op, row)
  BY <1>1 DEF WriteMemory, UpdateMemory, DeleteMemory, CascadeOperation
<1> QED
  BY <1>2, CommitType

LEMMA SweepType ==
  ASSUME TypeInv, NEW s \in Sweepers, SweepStep(s) \/ SweepKilled(s)
  PROVE  TypeInv'
<1> USE DEF TypeInv
<1>1. CASE SweepReads(s)
  <2>1. PICK snapshot \in SUBSET Cascade : sweep' = [sweep EXCEPT ![s] = snapshot]
    BY <1>1 DEF SweepReads, TypeOK
  <2>2. TypeOK'
    BY <1>1, <2>1 DEF SweepReads, TypeOK, sqliteVars, vectorVars
  <2> QED
    BY <1>1, <2>2, OperatorRowsUnchanged DEF SweepReads, sqliteVars
<1>2. CASE SweepReenqueues(s)
  <2>1. PICK c \in OldestIn(sweep[s]) :
          /\ retry_queue' = retry_queue \cup {FreshEntry(c)}
          /\ pending_sync' = {p \in pending_sync : p.mem # c.mem}
          /\ sweep' = [sweep EXCEPT ![s] = @ \ {c}]
    BY <1>2 DEF SweepReenqueues
  <2>2. c \in Cascade
    BY DEF OldestIn, TypeOK
  <2>3. FreshEntry(c) \in RetryEntry
    BY <2>2, FreshEntryType
  <2>4. sweep[s] \ {c} \in SUBSET Cascade
    BY DEF TypeOK
  <2>5. TypeOK'
    BY <1>2, <2>1, <2>3, <2>4 DEF SweepReenqueues, TypeOK, vectorVars
  <2> QED
    BY <1>2, <2>5, OperatorRowsUnchanged DEF SweepReenqueues
<1>3. CASE SweepStops(s) \/ SweepKilled(s)
  <2>1. TypeOK'
    BY <1>3 DEF SweepStops, SweepKilled, TypeOK, sqliteVars, vectorVars
  <2> QED
    BY <1>3, <2>1, OperatorRowsUnchanged DEF SweepStops, SweepKilled, sqliteVars
<1> QED
  BY <1>1, <1>2, <1>3 DEF SweepStep

\* The dead letter an operator holds is a row of the table.
LEMMA OperatorEntryType ==
  ASSUME TypeInv, NEW o \in Operators, operator[o].pc # "idle"
  PROVE  /\ operator[o].id \in 1..Len(dead_letter)
         /\ dead_letter[operator[o].id] \in DeadLetterEntry
         /\ dead_letter[operator[o].id].cascade \in Cascade
<1>1. operator[o].id \in 1..Len(dead_letter)
  BY DEF TypeInv, OperatorRowsExist
<1>2. dead_letter[operator[o].id] \in DeadLetterEntry
  BY <1>1 DEF TypeInv, TypeOK
<1> QED
  BY <1>1, <1>2 DEF DeadLetterEntry

\* An operator that moves on still holds the row it read.
LEMMA OperatorToType ==
  ASSUME TypeInv, NEW o \in Operators, operator[o].pc # "idle", NEW pc,
         pc \in {"retrying", "pruning"} \cup Resolution, OperatorTo(o, pc),
         dead_letter' = dead_letter
  PROVE  /\ operator' \in [Operators -> OperatorState]
         /\ OperatorRowsExist'
<1>1. operator[o] \in OperatorState /\ operator[o].id \in Nat
  BY OperatorEntryType DEF TypeInv, TypeOK, OperatorState
<1> DEFINE next == [operator[o] EXCEPT !.pc = pc]
<1>2. next \in OperatorState /\ next.id = operator[o].id
  BY <1>1 DEF OperatorState
<1>3. operator' = [operator EXCEPT ![o] = next]
  BY DEF OperatorTo
<1> HIDE DEF next
<1>4. operator' \in [Operators -> OperatorState]
  BY <1>2, <1>3 DEF TypeInv, TypeOK
<1>5. OperatorRowsExist'
  BY <1>2, <1>3, OperatorEntryType DEF TypeInv, TypeOK, OperatorRowsExist
<1> QED
  BY <1>4, <1>5

\* An operator whose command ends holds nothing.
LEMMA OperatorIdleType ==
  ASSUME TypeInv, NEW o \in Operators, operator' = [operator EXCEPT ![o] = Idle],
         Len(dead_letter') = Len(dead_letter)
  PROVE  /\ operator' \in [Operators -> OperatorState]
         /\ OperatorRowsExist'
BY IdleWorkerType DEF TypeInv, TypeOK, OperatorRowsExist

\* What resolving a dead letter does to the table, pending or not.
LEMMA ResolveEffect ==
  ASSUME TypeInv, NEW o \in Operators, Resolve(o)
  PROVE  /\ dead_letter' \in Seq(DeadLetterEntry)
         /\ Len(dead_letter') = Len(dead_letter)
         /\ \A i \in 1..Len(dead_letter) :
              /\ dead_letter'[i].cascade = dead_letter[i].cascade
              /\ dead_letter[i].resolution # "pending" => dead_letter'[i] = dead_letter[i]
<1> DEFINE id == operator[o].id
<1> DEFINE d == [dead_letter[id] EXCEPT !.resolution = operator[o].pc]
<1>1. operator[o].pc \in Resolution /\ operator[o].pc # "idle"
  BY DEF Resolve, Resolution
<1>2. id \in 1..Len(dead_letter) /\ dead_letter[id] \in DeadLetterEntry
  BY <1>1, OperatorEntryType
<1>3. d \in DeadLetterEntry /\ d.cascade = dead_letter[id].cascade
  BY <1>1, <1>2 DEF DeadLetterEntry
<1>4. dead_letter \in Seq(DeadLetterEntry)
  BY DEF TypeInv, TypeOK
<1>5. CASE dead_letter[id].resolution = "pending"
  <2>1. dead_letter' = [dead_letter EXCEPT ![id] = d]
    BY <1>5 DEF Resolve
  <2> HIDE DEF d, id
  <2> QED
    BY <1>2, <1>3, <1>4, <1>5, <2>1
<1>6. CASE dead_letter[id].resolution # "pending"
  <2>1. dead_letter' = dead_letter
    BY <1>6 DEF Resolve
  <2> QED
    BY <1>4, <2>1
<1> QED
  BY <1>5, <1>6

LEMMA OperatorType ==
  ASSUME TypeInv, NEW o \in Operators, OperatorStep(o) \/ OperatorKilled(o)
  PROVE  TypeInv'
<1> USE DEF TypeInv
<1>1. CASE OperatorReads(o)
  <2>1. PICK id \in 1..Len(dead_letter), pc \in {"retrying", "acknowledged"} :
          operator' = [operator EXCEPT ![o] = [pc |-> pc, id |-> id]]
    BY <1>1 DEF OperatorReads
  <2> DEFINE next == [pc |-> pc, id |-> id]
  <2>2. next \in OperatorState /\ next.id \in 1..Len(dead_letter)
    BY DEF OperatorState, Resolution
  <2>3. UNCHANGED dead_letter
    BY <1>1 DEF OperatorReads, sqliteVars
  <2> HIDE DEF next
  <2>4. operator' \in [Operators -> OperatorState] /\ OperatorRowsExist'
    BY <2>1, <2>2, <2>3 DEF next, TypeOK, OperatorRowsExist
  <2>5. TypeOK'
    BY <1>1, <2>4 DEF OperatorReads, TypeOK, sqliteVars, vectorVars
  <2> QED
    BY <2>4, <2>5
<1>2. CASE OperatorUpserts(o) \/ OperatorHides(o)
  <2>1. operator[o].pc # "idle"
    BY <1>2 DEF OperatorUpserts, OperatorHides
  <2> DEFINE c == dead_letter[operator[o].id].cascade
  <2>2. c \in Cascade
    BY <2>1, OperatorEntryType
  <2>3. (Upsert(c) \/ HideRow(c)) /\ RecordShown(c)
    BY <1>2 DEF OperatorUpserts, OperatorHides
  <2>4. /\ vectors' \in [Memories -> 0..MaxSeq]
        /\ unpruned' \subseteq Memories
        /\ shown' \in [Memories -> 0..MaxSeq]
        /\ reached' \in [Memories -> 0..MaxSeq]
    BY <2>2, <2>3, UpsertType
  <2>5. UNCHANGED <<sqliteVars, in_cap_overflow, worker, sweep>>
    BY <1>2 DEF OperatorUpserts, OperatorHides
  <2>6. OperatorTo(o, "retried_succeeded") \/ OperatorTo(o, "pruning")
    BY <1>2 DEF OperatorUpserts, OperatorHides
  <2>7. operator' \in [Operators -> OperatorState] /\ OperatorRowsExist'
    BY <2>1, <2>5, <2>6, OperatorToType DEF sqliteVars, Resolution
  <2>8. TypeOK'
    BY <2>4, <2>5, <2>7 DEF TypeOK, sqliteVars
  <2> QED
    BY <2>7, <2>8
<1>3. CASE OperatorPrunes(o)
  <2>1. operator' \in [Operators -> OperatorState] /\ OperatorRowsExist'
    BY <1>3, OperatorToType DEF OperatorPrunes, sqliteVars, Resolution
  <2>2. TypeOK'
    BY <1>3, <2>1 DEF OperatorPrunes, PruneOldVersions, TypeOK, sqliteVars
  <2> QED
    BY <2>1, <2>2
<1>4. CASE OperatorFails(o)
  <2>1. operator' \in [Operators -> OperatorState] /\ OperatorRowsExist'
    BY <1>4, OperatorToType DEF OperatorFails, sqliteVars, Resolution
  <2>2. TypeOK'
    BY <1>4, <2>1 DEF OperatorFails, TypeOK, sqliteVars, vectorVars
  <2> QED
    BY <2>1, <2>2
<1>5. CASE Resolve(o)
  <2>1. dead_letter' \in Seq(DeadLetterEntry) /\ Len(dead_letter') = Len(dead_letter)
    BY <1>5, ResolveEffect
  <2>2. operator' \in [Operators -> OperatorState] /\ OperatorRowsExist'
    BY <1>5, <2>1, OperatorIdleType DEF Resolve
  <2>3. TypeOK'
    BY <1>5, <2>1, <2>2 DEF Resolve, TypeOK, vectorVars
  <2> QED
    BY <2>2, <2>3
<1>6. CASE OperatorKilled(o)
  <2>1. operator' \in [Operators -> OperatorState] /\ OperatorRowsExist'
    BY <1>6, OperatorIdleType DEF OperatorKilled, sqliteVars
  <2>2. TypeOK'
    BY <1>6, <2>1 DEF OperatorKilled, TypeOK, sqliteVars, vectorVars
  <2> QED
    BY <2>1, <2>2
<1> QED
  BY <1>1, <1>2, <1>3, <1>4, <1>5, <1>6 DEF OperatorStep

\* The app's own faults: a rolled-back commit, a step that errs, a restart.
LEMMA AppFaultType ==
  ASSUME TypeInv, CommitFails \/ WorkerStepErrs \/ CrashAndReopen
  PROVE  TypeInv'
<1> USE DEF TypeInv
<1>1. worker' \in WorkerState
  BY IdleWorkerType DEF CommitFails, WorkerStepErrs, CrashAndReopen, TypeOK
<1>2. AtCap \in BOOLEAN
  BY SMT DEF AtCap
<1>3. in_cap_overflow' \in BOOLEAN
  <2>1. CASE CommitFails
    BY <1>2, <2>1, Zenon DEF CommitFails
  <2>2. CASE ~CommitFails
    BY <2>2, Zenon DEF WorkerStepErrs, CrashAndReopen, TypeOK
  <2> QED
    BY <2>1, <2>2
<1>4. UNCHANGED <<sqliteVars, vectorVars, sweep, operator>>
  BY DEF CommitFails, WorkerStepErrs, CrashAndReopen
<1>5. TypeOK'
  BY <1>1, <1>3, <1>4 DEF TypeOK, sqliteVars, vectorVars
<1> QED
  BY <1>4, <1>5, OperatorRowsUnchanged DEF sqliteVars

LEMMA NextType == TypeInv /\ [Next]_vars => TypeInv'
<1> SUFFICES ASSUME TypeInv, [Next]_vars PROVE TypeInv'
  OBVIOUS
<1>1. CASE UNCHANGED vars
  BY <1>1 DEF TypeInv, TypeOK, OperatorRowsExist, vars, sqliteVars, vectorVars
<1> QED
  BY <1>1, WriteType, TickType, WorkerStepType, SweepType, OperatorType,
     AppFaultType DEF Next, Fault

(***************************************************************************)
(* Whatever writers, worker, sweepers and operators do, in any order and   *)
(* with any of the faults, every table keeps its shape; in particular an   *)
(* attempt count never runs past the backoff table and an operator never   *)
(* acts on a dead letter that is not there.                                *)
(***************************************************************************)
THEOREM TypeCorrect == Spec => []TypeOK
<1>1. Spec => []TypeInv
  BY InitType, NextType, PTL DEF Spec
<1>2. TypeInv => TypeOK
  BY DEF TypeInv
<1> QED
  BY <1>1, <1>2, PTL

----------------------------------------------------------------------------
(* Dead letters *)

(***************************************************************************)
(* A dead letter is never lost and its resolution is final, however many   *)
(* operators retry or acknowledge it at once and wherever they are killed. *)
(***************************************************************************)
THEOREM ResolutionsAreFinal == Spec => ResolvedOnce
<1> DEFINE Kept ==
      /\ Len(dead_letter') >= Len(dead_letter)
      /\ \A i \in 1..Len(dead_letter) :
           /\ dead_letter'[i].cascade = dead_letter[i].cascade
           /\ dead_letter[i].resolution # "pending" => dead_letter'[i] = dead_letter[i]
<1>1. TypeInv /\ [Next]_vars => Kept
  <2> SUFFICES ASSUME TypeInv, [Next]_vars PROVE Kept
    OBVIOUS
  <2>1. Len(dead_letter) \in Nat
    BY DEF TypeInv, TypeOK
  <2>2. CASE WriteDeadLetter
    <3> DEFINE d == [cascade |-> worker.entry.cascade, resolution |-> "pending"]
    <3>1. dead_letter' = Append(dead_letter, d)
      BY <2>2 DEF WriteDeadLetter
    <3>2. dead_letter \in Seq(DeadLetterEntry) /\ d \in DeadLetterEntry
      BY <2>2, WorkerEntryType DEF TypeInv, TypeOK, WriteDeadLetter, DeadLetterEntry
    <3> HIDE DEF d
    <3> QED
      BY <2>1, <3>1, <3>2
  <2>3. CASE \E o \in Operators : Resolve(o)
    BY <2>1, <2>3, ResolveEffect
  <2>4. ASSUME dead_letter' = dead_letter PROVE Kept
    BY <2>1, <2>4
  <2>5. CASE UNCHANGED vars
    BY <2>4, <2>5 DEF vars, sqliteVars
  <2>6. CASE Write
    BY <2>4, <2>6 DEF Write, WriteMemory, UpdateMemory, DeleteMemory, CommitCascade
  <2>7. CASE Tick
    BY <2>4, <2>7 DEF Tick
  <2>8. CASE WorkerStep
    BY <2>2, <2>4, <2>8 DEF WorkerStep, PollDue, WorkerUpserts, WorkerHides,
       WorkerPrunes, WorkerFails, RecordSuccess, Reschedule, GiveUp, sqliteVars
  <2>9. CASE \E s \in Sweepers : SweepStep(s)
    BY <2>4, <2>9 DEF SweepStep, SweepReads, SweepReenqueues, SweepStops, sqliteVars
  <2>10. CASE \E o \in Operators : OperatorStep(o)
    BY <2>3, <2>4, <2>10 DEF OperatorStep, OperatorReads, OperatorUpserts,
       OperatorHides, OperatorPrunes, OperatorFails, sqliteVars
  <2>11. CASE Fault
    BY <2>4, <2>11 DEF Fault, CommitFails, WorkerStepErrs, CrashAndReopen,
       SweepKilled, OperatorKilled, sqliteVars
  <2> QED
    BY <2>5, <2>6, <2>7, <2>8, <2>9, <2>10, <2>11 DEF Next
<1>2. TypeInv /\ [Next]_vars => TypeInv'
  BY NextType
<1>3. Init => TypeInv
  BY InitType
<1>4. Spec => [][Kept]_vars
  BY <1>1, <1>2, <1>3, PTL DEF Spec
<1> QED
  BY <1>4, PTL DEF ResolvedOnce

----------------------------------------------------------------------------
(* The queue *)

\* What Tick makes of a row.
Closer(r) == [r EXCEPT !.wait = IF @ = 0 THEN 0 ELSE @ - 1]

\* A tick changes neither the cascade nor the attempts of a row.
LEMMA CloserKeeps ==
  ASSUME NEW r \in RetryEntry
  PROVE  /\ Closer(r).cascade = r.cascade
         /\ Closer(r).attempts = r.attempts
BY DEF Closer, RetryEntry

(***************************************************************************)
(* Every way a step can change retry_queue: only the worker takes a row    *)
(* out or rewrites one, and it has let go of its entry when it has.        *)
(***************************************************************************)
QueueGains(c) ==
  /\ ~AtCap
  /\ retry_queue' = retry_queue \cup {FreshEntry(c)}
  /\ UNCHANGED worker
  /\ audit_seq' = audit_seq + 1 \/ sweep' # sweep

LetGo == worker'.pc \in {"idle", "dead_lettering"}

QueueLoses(gone) ==
  /\ gone \subseteq retry_queue
  /\ retry_queue' = retry_queue \ gone
  /\ UNCHANGED pending_sync
  /\ LetGo

QueueReplaces(r, new) ==
  /\ r \in retry_queue
  /\ new.cascade = r.cascade
  /\ retry_queue' = (retry_queue \ {r}) \cup {new}
  /\ UNCHANGED pending_sync
  /\ LetGo

QueueTicks ==
  /\ retry_queue' = {Closer(r) : r \in retry_queue}
  /\ UNCHANGED <<pending_sync, worker>>

\* A failed attempt puts the row back with one attempt more and a new wait.
LEMMA RescheduleReplaces ==
  ASSUME TypeInv, Reschedule
  PROVE  \E r, new \in RetryEntry : QueueReplaces(r, new)
<1>1. PICK r \in RowsOf(worker.entry.cascade) :
        /\ r.attempts + 1 < MaxAttempts
        /\ \E w \in JitteredWaits(r.attempts + 1) :
             retry_queue' = (retry_queue \ {r}) \cup
                                {[r EXCEPT !.attempts = @ + 1, !.wait = w]}
  BY DEF Reschedule
<1>2. PICK w \in JitteredWaits(r.attempts + 1) :
             retry_queue' = (retry_queue \ {r}) \cup
                                {[r EXCEPT !.attempts = @ + 1, !.wait = w]}
  BY <1>1
<1> DEFINE new == [r EXCEPT !.attempts = @ + 1, !.wait = w]
<1>3. r \in RetryEntry /\ r \in retry_queue
  BY DEF RowsOf, TypeInv, TypeOK
<1>4. r.attempts + 1 \in 0..(MaxAttempts - 1) /\ r.attempts + 1 \in 0..7
  BY <1>1, <1>3, ConstantsAssumption DEF RetryEntry
<1>5. w \in Nat
  BY <1>4, JitterType
<1>6. new \in RetryEntry /\ new.cascade = r.cascade
  BY <1>3, <1>4, <1>5 DEF RetryEntry
<1>7. retry_queue' = (retry_queue \ {r}) \cup {new}
  BY <1>2
<1> HIDE DEF new
<1>8. QueueReplaces(r, new)
  BY <1>3, <1>6, <1>7, IdleWorkerType DEF Reschedule, QueueReplaces, LetGo
<1> QED
  BY <1>3, <1>6, <1>8

LEMMA QueueChange ==
  ASSUME TypeInv, [Next]_vars
  PROVE  \/ UNCHANGED retry_queue
         \/ \E c \in Cascade : QueueGains(c)
         \/ \E gone \in SUBSET retry_queue : QueueLoses(gone)
         \/ \E r, new \in RetryEntry : QueueReplaces(r, new)
         \/ QueueTicks
<1>1. CASE UNCHANGED vars
  BY <1>1 DEF vars, sqliteVars
<1>2. CASE Write
  <2>1. PICK m \in Memories, op \in CascadeOperation, row \in {0, audit_seq + 1} :
          CommitCascade(m, op, row)
    BY <1>2 DEF Write, WriteMemory, UpdateMemory, DeleteMemory, CascadeOperation
  <2> DEFINE c == [mem |-> m, op |-> op, seq |-> audit_seq + 1]
  <2>2. c \in Cascade
    BY <2>1, ConstantsAssumption DEF CommitCascade, Cascade, TypeInv, TypeOK
  <2>3. QueueGains(c) \/ UNCHANGED retry_queue
    BY <2>1 DEF CommitCascade, EnqueueCascade, QueueGains
  <2> QED
    BY <2>2, <2>3
<1>3. CASE Tick
  BY <1>3 DEF Tick, QueueTicks, Closer
<1>4. CASE RecordSuccess
  BY <1>4, IdleWorkerType DEF RecordSuccess, RowsOf, QueueLoses, LetGo
<1>5. CASE GiveUp
  BY <1>5 DEF GiveUp, WorkerTo, RowsOf, QueueLoses, LetGo
<1>6. CASE Reschedule
  BY <1>6, RescheduleReplaces
<1>7. CASE WorkerStep /\ ~RecordSuccess /\ ~GiveUp /\ ~Reschedule
  BY <1>7 DEF WorkerStep, PollDue, WorkerUpserts, WorkerHides, WorkerPrunes,
     WorkerFails, WriteDeadLetter, sqliteVars
<1>8. CASE \E s \in Sweepers : SweepStep(s)
  <2>1. PICK s \in Sweepers : SweepStep(s)
    BY <1>8
  <2>2. CASE SweepReenqueues(s)
    <3>1. PICK c \in OldestIn(sweep[s]) :
            /\ retry_queue' = retry_queue \cup {FreshEntry(c)}
            /\ sweep' = [sweep EXCEPT ![s] = @ \ {c}]
      BY <2>2 DEF SweepReenqueues
    <3>2. c \in Cascade /\ c \in sweep[s]
      BY <2>1 DEF OldestIn, TypeInv, TypeOK
    <3>3. sweep' # sweep
      BY <3>1, <3>2 DEF TypeInv, TypeOK
    <3> QED
      BY <2>2, <3>1, <3>2, <3>3 DEF SweepReenqueues, QueueGains
  <2> QED
    BY <2>1, <2>2 DEF SweepStep, SweepReads, SweepStops, sqliteVars
<1>9. CASE \E o \in Operators : OperatorStep(o)
  BY <1>9 DEF OperatorStep, OperatorReads, OperatorUpserts, OperatorHides,
     OperatorPrunes, OperatorFails, Resolve, sqliteVars
<1>10. CASE Fault
  BY <1>10 DEF Fault, CommitFails, WorkerStepErrs, CrashAndReopen, SweepKilled,
     OperatorKilled, sqliteVars
<1> QED
  BY <1>1, <1>2, <1>3, <1>4, <1>5, <1>6, <1>7, <1>8, <1>9, <1>10 DEF Next

----------------------------------------------------------------------------
(* The cap *)

\* The cap only means something while the queue is finite, which it stays.
SizeInv == IsFiniteSet(retry_queue) /\ QueueWithinCap

LEMMA InitSize == Init => SizeInv
BY FS_EmptySet, ConstantsAssumption DEF Init, SizeInv, QueueWithinCap

LEMMA NextSize == TypeInv /\ SizeInv /\ [Next]_vars => SizeInv'
<1> SUFFICES ASSUME TypeInv, SizeInv, [Next]_vars PROVE SizeInv'
  OBVIOUS
<1>0. /\ IsFiniteSet(retry_queue)
      /\ Cardinality(retry_queue) \in Nat
      /\ Cardinality(retry_queue) <= MaxQueueDepth
      /\ MaxQueueDepth \in Nat
  BY FS_CardinalityType, ConstantsAssumption DEF SizeInv, QueueWithinCap
<1>1. CASE UNCHANGED retry_queue
  BY <1>0, <1>1 DEF SizeInv, QueueWithinCap
<1>2. ASSUME NEW c \in Cascade, QueueGains(c) PROVE SizeInv'
  <2>1. /\ IsFiniteSet(retry_queue')
        /\ Cardinality(retry_queue') <= Cardinality(retry_queue) + 1
    <3> DEFINE new == FreshEntry(c)
    <3>1. retry_queue' = retry_queue \cup {new}
      BY <1>2 DEF QueueGains
    <3> HIDE DEF new
    <3> QED
      BY <1>0, <3>1, FS_AddElement
  <2>2. Cardinality(retry_queue) < MaxQueueDepth
    BY <1>0, <1>2 DEF QueueGains, AtCap
  <2>3. Cardinality(retry_queue') \in Nat
    BY <2>1, FS_CardinalityType
  <2> QED
    BY <1>0, <2>1, <2>2, <2>3 DEF SizeInv, QueueWithinCap
<1>3. ASSUME NEW gone \in SUBSET retry_queue, QueueLoses(gone) PROVE SizeInv'
  <2>1. retry_queue' \in SUBSET retry_queue
    BY <1>3 DEF QueueLoses
  <2>2. IsFiniteSet(retry_queue') /\ Cardinality(retry_queue') <= Cardinality(retry_queue)
    BY <1>0, <2>1, FS_Subset
  <2>3. Cardinality(retry_queue') \in Nat
    BY <2>2, FS_CardinalityType
  <2> QED
    BY <1>0, <2>2, <2>3 DEF SizeInv, QueueWithinCap
<1>4. ASSUME NEW r \in RetryEntry, NEW new \in RetryEntry, QueueReplaces(r, new)
      PROVE SizeInv'
  <2> DEFINE rest == retry_queue \ {r}
  <2>1. /\ IsFiniteSet(rest)
        /\ Cardinality(rest) = Cardinality(retry_queue) - 1
    BY <1>0, <1>4, FS_RemoveElement DEF QueueReplaces
  <2>2. retry_queue' = rest \cup {new}
    BY <1>4 DEF QueueReplaces
  <2> HIDE DEF rest
  <2>3. /\ IsFiniteSet(retry_queue')
        /\ Cardinality(retry_queue') \in {Cardinality(rest), Cardinality(rest) + 1}
    BY <2>1, <2>2, FS_AddElement
  <2> QED
    BY <1>0, <2>1, <2>3 DEF SizeInv, QueueWithinCap
<1>5. CASE QueueTicks
  <2> DEFINE f == [r \in retry_queue |-> Closer(r)]
  <2>1. f \in Surjection(retry_queue, retry_queue')
    BY <1>5 DEF QueueTicks, Surjection
  <2> HIDE DEF f
  <2>2. IsFiniteSet(retry_queue') /\ Cardinality(retry_queue') <= Cardinality(retry_queue)
    BY <1>0, <2>1, FS_Surjection
  <2>3. Cardinality(retry_queue') \in Nat
    BY <2>2, FS_CardinalityType
  <2> QED
    BY <1>0, <2>2, <2>3 DEF SizeInv, QueueWithinCap
<1> QED
  BY <1>1, <1>2, <1>3, <1>4, <1>5, QueueChange

(***************************************************************************)
(* However many writers and sweepers add to it, and whatever fails,        *)
(* retry_queue never holds more rows than its cap.                         *)
(***************************************************************************)
THEOREM CapHolds == Spec => []QueueWithinCap
<1>1. SizeInv => QueueWithinCap
  BY DEF SizeInv
<1> QED
  BY <1>1, InitType, NextType, InitSize, NextSize, PTL DEF Spec

----------------------------------------------------------------------------
(* The worker's entry *)

LEMMA InitHolds == Init => WorkerHoldsQueuedEntry
BY IdleWorkerType DEF Init, WorkerHoldsQueuedEntry

\* Every step leaves the worker's row queued, or the worker has let go of it.
LEMMA NextHolds == TypeInv /\ WorkerHoldsQueuedEntry /\ [Next]_vars => WorkerHoldsQueuedEntry'
<1> DEFINE Holding(w) ==
      w.pc \in {"applying", "pruning", "applied", "failed", "failed_permanently"}
<1> DEFINE Held(w, q) ==
      \E r \in q : r.cascade = w.entry.cascade /\ r.attempts = w.entry.attempts
<1> SUFFICES ASSUME TypeInv, WorkerHoldsQueuedEntry, [Next]_vars, Holding(worker')
             PROVE  Held(worker', retry_queue')
  BY DEF WorkerHoldsQueuedEntry
<1>1. CASE PollDue
  <2>1. PICK r \in Due : worker' = [pc |-> "applying", entry |-> r]
    BY <1>1 DEF PollDue
  <2>2. r \in retry_queue'
    BY <1>1 DEF PollDue, Due, sqliteVars
  <2> QED
    BY <2>1, <2>2
<1>2. ~LetGo
  BY DEF LetGo
<1>3. ASSUME ~PollDue PROVE Holding(worker) /\ worker'.entry = worker.entry
  <2>1. CASE UNCHANGED worker
    BY <2>1
  <2>2. CASE ~UNCHANGED worker
    <3>1. WorkerStep
      BY <1>2, <2>2, IdleWorkerType DEF Next, vars, Write, WriteMemory, UpdateMemory,
         DeleteMemory, CommitCascade, Tick, SweepStep, SweepReads, SweepReenqueues,
         SweepStops, OperatorStep, OperatorReads, OperatorUpserts, OperatorHides,
         OperatorPrunes, OperatorFails, Resolve, Fault, CommitFails, WorkerStepErrs,
         CrashAndReopen, SweepKilled, OperatorKilled, LetGo
    <3>2. ASSUME RecordSuccess \/ Reschedule \/ WriteDeadLetter PROVE FALSE
      <4>1. worker' = Idle
        BY <3>2 DEF RecordSuccess, Reschedule, WriteDeadLetter
      <4> QED
        BY <1>2, <4>1, IdleWorkerType DEF LetGo
    <3>3. ASSUME GiveUp PROVE FALSE
      BY <1>2, <3>3 DEF GiveUp, WorkerTo, LetGo
    <3>4. WorkerUpserts \/ WorkerHides \/ WorkerPrunes \/ WorkerFails
      BY <1>3, <3>1, <3>2, <3>3 DEF WorkerStep
    <3> QED
      BY <3>4 DEF WorkerUpserts, WorkerHides, WorkerPrunes, WorkerFails, WorkerTo
  <2> QED
    BY <2>1, <2>2
<1>4. ASSUME ~PollDue PROVE Held(worker', retry_queue')
  <2>1. PICK r \in retry_queue :
          r.cascade = worker.entry.cascade /\ r.attempts = worker.entry.attempts
    BY <1>3, <1>4 DEF WorkerHoldsQueuedEntry
  <2>2. worker'.entry = worker.entry
    BY <1>3, <1>4
  <2>3. CASE r \in retry_queue'
    BY <2>1, <2>2, <2>3
  <2>4. CASE QueueTicks
    <3>1. Closer(r) \in retry_queue' /\ r \in RetryEntry
      BY <2>4 DEF QueueTicks, TypeInv, TypeOK
    <3> QED
      BY <2>1, <2>2, <3>1, CloserKeeps
  <2> QED
    BY <1>2, <2>3, <2>4, QueueChange DEF QueueGains, QueueLoses, QueueReplaces
<1> QED
  BY <1>1, <1>4

(***************************************************************************)
(* Nobody takes the row from under the worker: between polling an entry    *)
(* and recording its outcome, the row is queued with the attempts it had,  *)
(* so record_failure always finds it and charges the right row.            *)
(***************************************************************************)
THEOREM WorkerEntryStaysQueued == Spec => []WorkerHoldsQueuedEntry
BY InitHolds, NextHolds, InitType, NextType, PTL DEF Spec

----------------------------------------------------------------------------
(* One home per cascade *)

(***************************************************************************)
(* A sequence number is handed out once: whatever waits anywhere carries   *)
(* one that has been handed out already, so a new cascade is nobody's twin.*)
(***************************************************************************)
SeqsHandedOut ==
  /\ \A r \in retry_queue : r.cascade.seq <= audit_seq
  /\ \A p \in pending_sync : p.seq <= audit_seq
  /\ \A s \in Sweepers : \A c \in sweep[s] : c.seq <= audit_seq

HomeInv == SeqsHandedOut /\ NotQueuedTwice

\* A cascade the queue does not hold may join it; its pending twin must leave.
LEMMA GainKeepsHomes ==
  ASSUME TypeInv, HomeInv, NEW c \in Cascade, RowsOf(c) = {}, c.seq <= audit_seq',
         audit_seq <= audit_seq', audit_seq' \in Nat,
         retry_queue' = retry_queue \cup {FreshEntry(c)},
         pending_sync' \subseteq pending_sync, c \notin pending_sync',
         \A s \in Sweepers : sweep'[s] \subseteq sweep[s]
  PROVE  HomeInv'
<1> DEFINE new == FreshEntry(c)
<1>1. new.cascade = c
  BY DEF FreshEntry
<1> HIDE DEF new
<1>2. \A r \in retry_queue : r.cascade.seq \in Nat
  BY DEF TypeInv, TypeOK, RetryEntry, Cascade
<1>3. \A p \in pending_sync : p.seq \in Nat
  BY DEF TypeInv, TypeOK, Cascade
<1>4. \A s \in Sweepers : \A d \in sweep[s] : d.seq \in Nat
  BY DEF TypeInv, TypeOK, Cascade
<1>5. audit_seq \in Nat
  BY DEF TypeInv, TypeOK
<1>6. SeqsHandedOut'
  BY <1>1, <1>2, <1>3, <1>4, <1>5 DEF HomeInv, SeqsHandedOut, new
<1>7. NotQueuedTwice'
  BY <1>1 DEF HomeInv, NotQueuedTwice, RowsOf, new
<1> QED
  BY <1>6, <1>7 DEF HomeInv

\* Rows that leave the queue, or change in it, move no cascade.
LEMMA SameHomes ==
  ASSUME TypeInv, HomeInv, UNCHANGED <<pending_sync, audit_seq>>,
         \A s \in Sweepers : sweep'[s] \subseteq sweep[s] \cup pending_sync,
         \/ UNCHANGED retry_queue
         \/ \E gone \in SUBSET retry_queue : QueueLoses(gone)
         \/ \E r, new \in RetryEntry : QueueReplaces(r, new)
         \/ QueueTicks
  PROVE  HomeInv'
<1>1. SeqsHandedOut'
  <2>1. \A s \in Sweepers : \A c \in sweep'[s] : c.seq <= audit_seq
    BY DEF HomeInv, SeqsHandedOut
  <2>2. \A r \in retry_queue' : \E q \in retry_queue : r.cascade = q.cascade
    <3>1. CASE QueueTicks
      BY <3>1, CloserKeeps DEF QueueTicks, TypeInv, TypeOK
    <3>2. CASE \E r, new \in RetryEntry : QueueReplaces(r, new)
      BY <3>2 DEF QueueReplaces
    <3>3. CASE \E gone \in SUBSET retry_queue : QueueLoses(gone)
      BY <3>3 DEF QueueLoses
    <3> QED
      BY <3>1, <3>2, <3>3
  <2> QED
    BY <2>1, <2>2 DEF HomeInv, SeqsHandedOut
<1>2. NotQueuedTwice'
  <2>1. CASE UNCHANGED retry_queue
    BY <2>1 DEF HomeInv, NotQueuedTwice, RowsOf
  <2>2. CASE \E gone \in SUBSET retry_queue : QueueLoses(gone)
    BY <2>2 DEF HomeInv, NotQueuedTwice, RowsOf, QueueLoses
  <2>3. CASE \E r, new \in RetryEntry : QueueReplaces(r, new)
    BY <2>3 DEF HomeInv, NotQueuedTwice, RowsOf, QueueReplaces
  <2>4. CASE QueueTicks
    <3>1. \A r \in retry_queue : Closer(r).cascade = r.cascade
      BY CloserKeeps DEF TypeInv, TypeOK
    <3> QED
      BY <2>4, <3>1 DEF HomeInv, NotQueuedTwice, RowsOf, QueueTicks
  <2> QED
    BY <2>1, <2>2, <2>3, <2>4
<1> QED
  BY <1>1, <1>2 DEF HomeInv

LEMMA WriteHomes ==
  ASSUME TypeInv, HomeInv, Write
  PROVE  HomeInv'
<1>1. PICK m \in Memories, op \in CascadeOperation, row \in {0, audit_seq + 1} :
        CommitCascade(m, op, row)
  BY DEF Write, WriteMemory, UpdateMemory, DeleteMemory, CascadeOperation
<1> DEFINE c == [mem |-> m, op |-> op, seq |-> audit_seq + 1]
<1>2. c \in Cascade /\ audit_seq \in Nat
  BY <1>1, ConstantsAssumption DEF CommitCascade, Cascade, TypeInv, TypeOK
<1>3. audit_seq' = audit_seq + 1 /\ UNCHANGED sweep /\ EnqueueCascade(c)
  BY <1>1 DEF CommitCascade
<1>4. c.seq = audit_seq + 1
  OBVIOUS
<1> HIDE DEF c
<1>5. RowsOf(c) = {} /\ c \notin pending_sync
  <2>1. \A r \in retry_queue : r.cascade # c
    BY <1>2, <1>4 DEF HomeInv, SeqsHandedOut
  <2>2. \A p \in pending_sync : p # c
    BY <1>2, <1>4 DEF HomeInv, SeqsHandedOut
  <2> QED
    BY <2>1, <2>2 DEF RowsOf
<1>6. CASE ~AtCap
  <2>1. retry_queue' = retry_queue \cup {FreshEntry(c)} /\ UNCHANGED pending_sync
    BY <1>3, <1>6 DEF EnqueueCascade
  <2> QED
    BY <1>2, <1>3, <1>4, <1>5, <2>1, GainKeepsHomes
<1>7. CASE AtCap
  <2>1. /\ pending_sync' = {p \in pending_sync : p.mem # c.mem} \cup {c}
        /\ UNCHANGED retry_queue
    BY <1>3, <1>7 DEF EnqueueCascade
  <2>2. NotQueuedTwice'
    BY <1>5, <2>1 DEF HomeInv, NotQueuedTwice, RowsOf
  <2>3. /\ \A r \in retry_queue : r.cascade.seq \in Nat
        /\ \A p \in pending_sync : p.seq \in Nat
        /\ \A s \in Sweepers : \A d \in sweep[s] : d.seq \in Nat
    BY DEF TypeInv, TypeOK, RetryEntry, Cascade
  <2>4. SeqsHandedOut'
    BY <1>2, <1>3, <1>4, <2>1, <2>3 DEF HomeInv, SeqsHandedOut
  <2> QED
    BY <2>2, <2>4 DEF HomeInv
<1> QED
  BY <1>6, <1>7

LEMMA SweepHomes ==
  ASSUME TypeInv, HomeInv, NEW s \in Sweepers, SweepStep(s) \/ SweepKilled(s)
  PROVE  HomeInv'
<1>1. CASE SweepReads(s)
  <2>1. \A t \in Sweepers : sweep'[t] \subseteq sweep[t] \cup pending_sync
    BY <1>1 DEF SweepReads, TypeInv, TypeOK
  <2>2. UNCHANGED <<pending_sync, audit_seq, retry_queue>>
    BY <1>1 DEF SweepReads, sqliteVars
  <2> QED
    BY <2>1, <2>2, SameHomes
<1>2. CASE SweepStops(s) \/ SweepKilled(s)
  <2>1. \A t \in Sweepers : sweep'[t] \subseteq sweep[t] \cup pending_sync
    BY <1>2 DEF SweepStops, SweepKilled, TypeInv, TypeOK
  <2>2. UNCHANGED <<pending_sync, audit_seq, retry_queue>>
    BY <1>2 DEF SweepStops, SweepKilled, sqliteVars
  <2> QED
    BY <2>1, <2>2, SameHomes
<1>3. CASE SweepReenqueues(s)
  <2>1. PICK c \in OldestIn(sweep[s]) :
          /\ RowsOf(c) = {}
          /\ retry_queue' = retry_queue \cup {FreshEntry(c)}
          /\ pending_sync' = {p \in pending_sync : p.mem # c.mem}
          /\ sweep' = [sweep EXCEPT ![s] = @ \ {c}]
    BY <1>3 DEF SweepReenqueues
  <2>2. c \in Cascade /\ c \in sweep[s]
    BY DEF OldestIn, TypeInv, TypeOK
  <2>3. audit_seq' = audit_seq /\ audit_seq \in Nat
    BY <1>3 DEF SweepReenqueues, TypeInv, TypeOK
  <2>4. c.seq <= audit_seq
    BY <2>2 DEF HomeInv, SeqsHandedOut
  <2>5. \A t \in Sweepers : sweep'[t] \subseteq sweep[t]
    BY <2>1 DEF TypeInv, TypeOK
  <2> QED
    BY <2>1, <2>2, <2>3, <2>4, <2>5, GainKeepsHomes
<1> QED
  BY <1>1, <1>2, <1>3 DEF SweepStep

LEMMA InitHomes == Init => HomeInv
BY DEF Init, HomeInv, SeqsHandedOut, NotQueuedTwice

LEMMA NextHomes == TypeInv /\ HomeInv /\ [Next]_vars => HomeInv'
<1> SUFFICES ASSUME TypeInv, HomeInv, [Next]_vars PROVE HomeInv'
  OBVIOUS
<1>1. CASE Write
  BY <1>1, WriteHomes
<1>2. CASE \E s \in Sweepers : SweepStep(s) \/ SweepKilled(s)
  BY <1>2, SweepHomes
<1>3. CASE ~Write /\ ~(\E s \in Sweepers : SweepStep(s) \/ SweepKilled(s))
  <2>1. UNCHANGED <<pending_sync, audit_seq, sweep>>
    <3>1. CASE UNCHANGED vars
      BY <3>1 DEF vars, sqliteVars
    <3>2. CASE Tick
      BY <3>2 DEF Tick
    <3>3. CASE WorkerStep
      BY <3>3 DEF WorkerStep, PollDue, WorkerUpserts, WorkerHides, WorkerPrunes,
         WorkerFails, RecordSuccess, Reschedule, GiveUp, WriteDeadLetter, sqliteVars
    <3>4. CASE \E o \in Operators : OperatorStep(o) \/ OperatorKilled(o)
      BY <3>4 DEF OperatorStep, OperatorReads, OperatorUpserts, OperatorHides,
         OperatorPrunes, OperatorFails, Resolve, OperatorKilled, sqliteVars
    <3>5. CASE CommitFails \/ WorkerStepErrs \/ CrashAndReopen
      BY <3>5 DEF CommitFails, WorkerStepErrs, CrashAndReopen, sqliteVars
    <3> QED
      BY <1>3, <3>1, <3>2, <3>3, <3>4, <3>5 DEF Next, Fault
  <2>2. ASSUME NEW c \in Cascade, QueueGains(c) PROVE FALSE
    <3>1. audit_seq \in Nat
      BY DEF TypeInv, TypeOK
    <3> QED
      BY <2>1, <2>2, <3>1 DEF QueueGains
  <2> QED
    BY <2>1, <2>2, SameHomes, QueueChange
<1> QED
  BY <1>1, <1>2, <1>3

(***************************************************************************)
(* A cascade is never queued twice and never both queued and pending,      *)
(* whichever sweepers race for the same pending row.                       *)
(***************************************************************************)
THEOREM OneHomePerCascade == Spec => []NotQueuedTwice
<1>1. HomeInv => NotQueuedTwice
  BY DEF HomeInv
<1> QED
  BY <1>1, InitHomes, NextHomes, InitType, NextType, PTL DEF Spec

(***************************************************************************)
(* All that the worker and the sweeps rely on of the retry queue, for any  *)
(* cap, attempt limit and number of writers and sweepers.                  *)
(***************************************************************************)
THEOREM QueueIsSound == Spec => []QueueSound
<1>1. QueueWithinCap /\ NotQueuedTwice /\ WorkerHoldsQueuedEntry => QueueSound
  BY DEF QueueSound
<1> QED
  BY <1>1, CapHolds, OneHomePerCascade, WorkerEntryStaysQueued, PTL

============================================================================
