-------------------------- MODULE CascadingWrites --------------------------
(***************************************************************************)
(* The storage core of the vault: every write commits in SQLite (the       *)
(* memory row, its audit event and one cascade row in ONE transaction) and *)
(* reaches the vector store later, through retry_queue and the retry       *)
(* worker.  A full retry_queue spills into pending_sync, which the         *)
(* operator's divergence check sweeps back; a cascade that keeps failing   *)
(* ends in dead_letter, where the operator retries or acknowledges it.     *)
(*                                                                         *)
(* SQLite work is serialised by the connection's mutex and each action     *)
(* below that touches SQLite is one transaction.  The vector store, the    *)
(* worker and the operator's command line interleave freely between them.  *)
(***************************************************************************)
EXTENDS Naturals, FiniteSets, Sequences

CONSTANTS
  Memories,        \* memory ids
  MaxQueueDepth,   \* MAX_RETRY_QUEUE_DEPTH, 10 000 in the code
  MaxAttempts,     \* MAX_ATTEMPTS, 8 in the code
  Sweepers,        \* processes running `vault-cli divergence-check`
  SweepLimit,      \* PENDING_SYNC_SWEEP_LIMIT, 1 000 in the code
  Operators,       \* processes running `vault-cli dead-letter ...`
  Faults,          \* what may go wrong, see FaultKinds
  MaxSeq           \* bound: how many cascading operations are committed

(***************************************************************************)
(* transient: a vector-store call fails with an error a retry may cure;    *)
(* permanent: it fails with an error is_permanent classifies as hopeless;  *)
(* sqlite: a SQLite statement or commit fails; crash: the app ends between *)
(* two of its steps and is started again; killed: a command of vault-cli   *)
(* ends between two of its steps.                                          *)
(***************************************************************************)
FaultKinds == {"transient", "permanent", "sqlite", "crash", "killed"}

ASSUME ConstantsAssumption ==
  /\ MaxQueueDepth \in Nat \ {0}
  /\ MaxAttempts \in 1..8
  /\ SweepLimit \in Nat \ {0}
  /\ MaxSeq \in Nat
  /\ Faults \subseteq FaultKinds

VARIABLES
  memories,        \* the memories table: the operation that wrote m's row, 0 = no row
  committed,       \* audit_log: the newest cascading operation committed for m, 0 = none
  audit_seq,       \* audit_log: the last sequence number handed to a cascade
  retry_queue,     \* the retry_queue table
  pending_sync,    \* the pending_sync table
  in_cap_overflow, \* the app's in-memory debounce flag
  overflow_events, \* cascade.queue_overflow events since a write last reached retry_queue
  dead_letter,     \* the dead_letter table, in order of insertion
  vectors,         \* the vector store: the operation whose embedding m shows, 0 = no row
  unpruned,        \* memories with replaced or deleted bytes still in old data files
  shown,           \* history: the operation last applied to the vector store for m
  reached,         \* history: the newest operation ever applied for m
  worker,          \* the retry worker
  sweep,           \* per sweeper: what is left of its oldest_first snapshot
  operator         \* per operator: where its dead-letter command is

sqliteVars == <<memories, committed, audit_seq, retry_queue, pending_sync,
                overflow_events, dead_letter>>
vectorVars == <<vectors, unpruned, shown, reached>>
vars == <<sqliteVars, in_cap_overflow, vectorVars, worker, sweep, operator>>

CascadeOperation == {"write", "update", "delete"}

(***************************************************************************)
(* A cascade: which memory, which operation, and the audit sequence number *)
(* it was committed under, which also names the embedding it carries.      *)
(***************************************************************************)
Cascade == [mem : Memories, op : CascadeOperation, seq : 1..MaxSeq]

\* A retry_queue row.  wait: whole seconds until next_attempt_at.
RetryEntry == [cascade : Cascade, attempts : 0..(MaxAttempts - 1), wait : Nat]

Resolution == {"retried_succeeded", "retried_failed", "acknowledged"}
DeadLetterEntry == [cascade : Cascade, resolution : Resolution \cup {"pending"}]

WorkerState ==
  [pc : {"idle"}] \cup
  [pc : {"applying", "pruning", "applied", "failed", "failed_permanently",
         "dead_lettering"}, entry : RetryEntry]

OperatorState ==
  [pc : {"idle"}] \cup
  [pc : {"retrying", "pruning"} \cup Resolution, id : Nat]

Idle == [pc |-> "idle"]

Init ==
  /\ memories = [m \in Memories |-> 0]
  /\ committed = [m \in Memories |-> 0]
  /\ audit_seq = 0
  /\ retry_queue = {}
  /\ pending_sync = {}
  /\ in_cap_overflow = FALSE
  /\ overflow_events = 0
  /\ dead_letter = <<>>
  /\ vectors = [m \in Memories |-> 0]
  /\ unpruned = {}
  /\ shown = [m \in Memories |-> 0]
  /\ reached = [m \in Memories |-> 0]
  /\ worker = Idle
  /\ sweep = [s \in Sweepers |-> {}]
  /\ operator = [o \in Operators |-> Idle]

----------------------------------------------------------------------------
(* Writing: write_memory, update_memory, delete_memory *)

\* Seconds before the next attempt, given the attempts already made.
base_backoff_secs == <<1, 2, 4, 8, 16, 30, 60, 120>>

\* The effective waits: jitter of up to a quarter either way.
JitteredWaits(attempts) ==
  LET base == base_backoff_secs[attempts + 1]
  IN  (base - base \div 4)..(base + base \div 4)

\* tx_insert_retry_queue always uses a jitter factor of 0.
FreshEntry(c) == [cascade |-> c, attempts |-> 0, wait |-> base_backoff_secs[1]]

AtCap == Cardinality(retry_queue) >= MaxQueueDepth

\* Seeded fault: the conflicting pending row is kept (DO NOTHING for DO UPDATE).
EnqueueCascadeKeepsOldPending(c) ==
  IF ~AtCap
    THEN /\ retry_queue' = retry_queue \cup {FreshEntry(c)}
         /\ in_cap_overflow' = FALSE
         /\ overflow_events' = 0
         /\ UNCHANGED pending_sync
    ELSE /\ pending_sync' = IF \E p \in pending_sync : p.mem = c.mem
                              THEN pending_sync ELSE pending_sync \cup {c}
         /\ in_cap_overflow' = TRUE
         /\ overflow_events' = 1
         /\ UNCHANGED retry_queue

\* Seeded fault: the debounce flag is read but never set.
EnqueueCascadeForgetsFlag(c) ==
  IF ~AtCap
    THEN /\ retry_queue' = retry_queue \cup {FreshEntry(c)}
         /\ overflow_events' = 0
         /\ UNCHANGED <<pending_sync, in_cap_overflow>>
    ELSE /\ pending_sync' = {p \in pending_sync : p.mem # c.mem} \cup {c}
         /\ overflow_events' = IF overflow_events = 2 THEN 2 ELSE overflow_events + 1
         /\ UNCHANGED <<retry_queue, in_cap_overflow>>

(***************************************************************************)
(* Queue the cascade or, at the cap, upsert it into pending_sync, where it *)
(* replaces whatever the memory had pending.  The first spill after the    *)
(* flag was clear also commits a cascade.queue_overflow event (counted up  *)
(* to two: a second one in an episode is already one too many).            *)
(***************************************************************************)
EnqueueCascade(c) ==
  \/ /\ ~AtCap
     /\ retry_queue' = retry_queue \cup {FreshEntry(c)}
     /\ in_cap_overflow' = FALSE
     /\ overflow_events' = 0
     /\ UNCHANGED pending_sync
  \/ /\ AtCap
     /\ pending_sync' = {p \in pending_sync : p.mem # c.mem} \cup {c}
     /\ in_cap_overflow' = TRUE
     /\ overflow_events' =
          IF in_cap_overflow \/ overflow_events = 2 THEN overflow_events
                                                    ELSE overflow_events + 1
     /\ UNCHANGED retry_queue

\* The transaction of one cascading operation; row is what memories[m] becomes.
CommitCascade(m, op, row) ==
  /\ audit_seq < MaxSeq
  /\ audit_seq' = audit_seq + 1
  /\ memories' = [memories EXCEPT ![m] = row]
  /\ committed' = [committed EXCEPT ![m] = audit_seq + 1]
  /\ EnqueueCascade([mem |-> m, op |-> op, seq |-> audit_seq + 1])
  /\ UNCHANGED <<dead_letter, vectorVars, worker, sweep, operator>>

\* An insert: of a new memory, or of one Recently deleted gives back.
WriteMemory(m) ==
  /\ memories[m] = 0
  /\ CommitCascade(m, "write", audit_seq + 1)

\* NotFound rolls back when the row is missing.
UpdateMemory(m) ==
  /\ memories[m] # 0
  /\ CommitCascade(m, "update", audit_seq + 1)

\* Deleting a missing row only appends an audit event no other step reads.
DeleteMemory(m) ==
  /\ memories[m] # 0
  /\ CommitCascade(m, "delete", 0)

(***************************************************************************)
(* A cascading transaction that fails after its enqueue step rolls SQLite  *)
(* back, but not the in-memory flag the enqueue step has already set.      *)
(***************************************************************************)
CommitFails ==
  /\ "sqlite" \in Faults
  /\ in_cap_overflow # AtCap
  /\ in_cap_overflow' = AtCap
  /\ UNCHANGED <<sqliteVars, vectorVars, worker, sweep, operator>>

----------------------------------------------------------------------------
(* The vector store, as the worker and the operator's retry call it *)

\* merge_insert: one row per id; a replaced row's bytes stay in an old file.
Upsert(c) ==
  /\ c.op \in {"write", "update"}
  /\ vectors' = [vectors EXCEPT ![c.mem] = c.seq]
  /\ unpruned' = IF vectors[c.mem] = 0 THEN unpruned ELSE unpruned \cup {c.mem}

\* The first step of delete: the row is hidden, its bytes are not gone yet.
HideRow(c) ==
  /\ c.op = "delete"
  /\ vectors' = [vectors EXCEPT ![c.mem] = 0]
  /\ unpruned' = IF vectors[c.mem] = 0 THEN unpruned ELSE unpruned \cup {c.mem}

\* The rest of delete, ADR-039: compact, then prune every old version.
PruneOldVersions ==
  /\ unpruned' = {}
  /\ UNCHANGED <<vectors, shown, reached>>

RecordShown(c) ==
  /\ shown' = [shown EXCEPT ![c.mem] = c.seq]
  /\ reached' = [reached EXCEPT ![c.mem] = IF c.seq > @ THEN c.seq ELSE @]

----------------------------------------------------------------------------
(* The retry worker: RetryWorker::step *)

\* next_attempt_at comes closer for every row.
Tick ==
  /\ \E r \in retry_queue : r.wait > 0
  /\ retry_queue' = {[r EXCEPT !.wait = IF @ = 0 THEN 0 ELSE @ - 1] : r \in retry_queue}
  /\ UNCHANGED <<memories, committed, audit_seq, pending_sync, overflow_events,
                 dead_letter, in_cap_overflow, vectorVars, worker, sweep, operator>>

\* Rows whose next_attempt_at has come.
Due == {r \in retry_queue : r.wait = 0}

\* Seeded fault: the newest due row first.
PollDueNewestFirst ==
  /\ worker.pc = "idle"
  /\ \E r \in Due :
       /\ \A other \in Due : r.cascade.seq >= other.cascade.seq
       /\ worker' = [pc |-> "applying", entry |-> r]
  /\ UNCHANGED <<sqliteVars, in_cap_overflow, vectorVars, sweep, operator>>

\* ORDER BY sequence_id LIMIT 1 among the due rows.
PollDue ==
  /\ worker.pc = "idle"
  /\ \E r \in Due :
       /\ \A other \in Due : r.cascade.seq <= other.cascade.seq
       /\ worker' = [pc |-> "applying", entry |-> r]
  /\ UNCHANGED <<sqliteVars, in_cap_overflow, vectorVars, sweep, operator>>

\* The worker moves on to pc with the entry it holds.
WorkerTo(pc) == worker' = [pc |-> pc, entry |-> worker.entry]

WorkerUpserts ==
  /\ worker.pc = "applying"
  /\ Upsert(worker.entry.cascade)
  /\ RecordShown(worker.entry.cascade)
  /\ WorkerTo("applied")
  /\ UNCHANGED <<sqliteVars, in_cap_overflow, sweep, operator>>

WorkerHides ==
  /\ worker.pc = "applying"
  /\ HideRow(worker.entry.cascade)
  /\ RecordShown(worker.entry.cascade)
  /\ WorkerTo("pruning")
  /\ UNCHANGED <<sqliteVars, in_cap_overflow, sweep, operator>>

WorkerPrunes ==
  /\ worker.pc = "pruning"
  /\ PruneOldVersions
  /\ WorkerTo("applied")
  /\ UNCHANGED <<sqliteVars, in_cap_overflow, sweep, operator>>

\* The vector store returns an error: before any effect, or between hiding and pruning.
WorkerFails ==
  /\ worker.pc \in {"applying", "pruning"}
  /\ \/ "transient" \in Faults /\ WorkerTo("failed")
     \/ "permanent" \in Faults /\ WorkerTo("failed_permanently")
  /\ UNCHANGED <<sqliteVars, in_cap_overflow, vectorVars, sweep, operator>>

\* The retry_queue row of a cascade, found again by id.
RowsOf(c) == {r \in retry_queue : r.cascade = c}

\* Seeded fault: success deletes every queued row of the memory.
RecordSuccessByMemory ==
  /\ worker.pc = "applied"
  /\ retry_queue' = {r \in retry_queue : r.cascade.mem # worker.entry.cascade.mem}
  /\ worker' = Idle
  /\ UNCHANGED <<memories, committed, audit_seq, pending_sync, overflow_events,
                 dead_letter, in_cap_overflow, vectorVars, sweep, operator>>

RecordSuccess ==
  /\ worker.pc = "applied"
  /\ retry_queue' = retry_queue \ RowsOf(worker.entry.cascade)
  /\ worker' = Idle
  /\ UNCHANGED <<memories, committed, audit_seq, pending_sync, overflow_events,
                 dead_letter, in_cap_overflow, vectorVars, sweep, operator>>

\* record_failure with attempts left: count the attempt and back off.
Reschedule ==
  /\ worker.pc = "failed"
  /\ \E r \in RowsOf(worker.entry.cascade) :
       /\ r.attempts + 1 < MaxAttempts
       /\ \E w \in JitteredWaits(r.attempts + 1) :
            retry_queue' = (retry_queue \ {r}) \cup
                             {[r EXCEPT !.attempts = @ + 1, !.wait = w]}
  /\ worker' = Idle
  /\ UNCHANGED <<memories, committed, audit_seq, pending_sync, overflow_events,
                 dead_letter, in_cap_overflow, vectorVars, sweep, operator>>

\* Seeded fault: an entry with no attempts left is put back.
GiveUpPutsBack ==
  /\ worker.pc \in {"failed", "failed_permanently"}
  /\ \E r \in RowsOf(worker.entry.cascade) :
       /\ worker.pc = "failed_permanently" \/ r.attempts + 1 >= MaxAttempts
       /\ retry_queue' = (retry_queue \ {r}) \cup {[r EXCEPT !.wait = 1]}
  /\ worker' = Idle
  /\ UNCHANGED <<memories, committed, audit_seq, pending_sync, overflow_events,
                 dead_letter, in_cap_overflow, vectorVars, sweep, operator>>

\* record_failure with none left, or a permanent error: the row is deleted
\* here; its dead letter is written by a later transaction.
GiveUp ==
  /\ worker.pc \in {"failed", "failed_permanently"}
  /\ \E r \in RowsOf(worker.entry.cascade) :
       /\ worker.pc = "failed_permanently" \/ r.attempts + 1 >= MaxAttempts
       /\ retry_queue' = retry_queue \ {r}
  /\ WorkerTo("dead_lettering")
  /\ UNCHANGED <<memories, committed, audit_seq, pending_sync, overflow_events,
                 dead_letter, in_cap_overflow, vectorVars, sweep, operator>>

WriteDeadLetter ==
  /\ worker.pc = "dead_lettering"
  /\ dead_letter' = Append(dead_letter,
                           [cascade |-> worker.entry.cascade, resolution |-> "pending"])
  /\ worker' = Idle
  /\ UNCHANGED <<memories, committed, audit_seq, retry_queue, pending_sync,
                 overflow_events, in_cap_overflow, vectorVars, sweep, operator>>

\* A SQLite call of the step fails: step returns the error, the loop goes on.
WorkerStepErrs ==
  /\ "sqlite" \in Faults
  /\ worker.pc \in {"applied", "failed", "failed_permanently", "dead_lettering"}
  /\ worker' = Idle
  /\ UNCHANGED <<sqliteVars, in_cap_overflow, vectorVars, sweep, operator>>

\* The app's process ends and the vault is opened again: assemble clears the flag.
CrashAndReopen ==
  /\ "crash" \in Faults
  /\ worker # Idle \/ in_cap_overflow
  /\ worker' = Idle
  /\ in_cap_overflow' = FALSE
  /\ UNCHANGED <<sqliteVars, vectorVars, sweep, operator>>

----------------------------------------------------------------------------
(* The pending_sync sweep: drain_pending_sync, from the command line *)

\* oldest_first, outside any transaction.
SweepReads(s) ==
  /\ sweep[s] = {}
  /\ pending_sync # {}
  /\ sweep' = [sweep EXCEPT ![s] =
       {c \in pending_sync :
          Cardinality({d \in pending_sync : d.seq < c.seq}) < SweepLimit}]
  /\ UNCHANGED <<sqliteVars, in_cap_overflow, vectorVars, worker, operator>>

\* The entry the sweep's loop is at.
OldestIn(snapshot) == {c \in snapshot : \A d \in snapshot : c.seq <= d.seq}

\* Seeded fault: INSERT OR REPLACE resets a row that is already queued.
SweepReplacesRow(s) ==
  /\ ~AtCap
  /\ \E c \in OldestIn(sweep[s]) :
         /\ retry_queue' = (retry_queue \ RowsOf(c)) \cup {FreshEntry(c)}
         /\ pending_sync' = {p \in pending_sync : p.mem # c.mem}
         /\ sweep' = [sweep EXCEPT ![s] = @ \ {c}]
  /\ UNCHANGED <<memories, committed, audit_seq, overflow_events, dead_letter,
                 in_cap_overflow, vectorVars, worker, operator>>

\* The transaction per entry: re-enqueue it, drop the memory's pending row.
SweepReenqueues(s) ==
  /\ ~AtCap
  /\ \E c \in OldestIn(sweep[s]) :
         /\ RowsOf(c) = {}
         /\ retry_queue' = retry_queue \cup {FreshEntry(c)}
         /\ pending_sync' = {p \in pending_sync : p.mem # c.mem}
         /\ sweep' = [sweep EXCEPT ![s] = @ \ {c}]
  /\ UNCHANGED <<memories, committed, audit_seq, overflow_events, dead_letter,
                 in_cap_overflow, vectorVars, worker, operator>>

\* At the cap the rest is left for the next sweep; a cascade already queued
\* breaks UNIQUE(memory_id, sequence_id) and ends the sweep with an error.
SweepStops(s) ==
  /\ \E c \in OldestIn(sweep[s]) : AtCap \/ RowsOf(c) # {}
  /\ sweep' = [sweep EXCEPT ![s] = {}]
  /\ UNCHANGED <<sqliteVars, in_cap_overflow, vectorVars, worker, operator>>

SweepKilled(s) ==
  /\ "killed" \in Faults
  /\ sweep[s] # {}
  /\ sweep' = [sweep EXCEPT ![s] = {}]
  /\ UNCHANGED <<sqliteVars, in_cap_overflow, vectorVars, worker, operator>>

----------------------------------------------------------------------------
(* The operator: vault-cli dead-letter retry | acknowledge *)

\* Both commands read the row and stop if it is already resolved.
OperatorReads(o) ==
  /\ operator[o] = Idle
  /\ \E id \in 1..Len(dead_letter), pc \in {"retrying", "acknowledged"} :
       /\ dead_letter[id].resolution = "pending"
       /\ operator' = [operator EXCEPT ![o] = [pc |-> pc, id |-> id]]
  /\ UNCHANGED <<sqliteVars, in_cap_overflow, vectorVars, worker, sweep>>

OperatorTo(o, pc) == operator' = [operator EXCEPT ![o] = [@ EXCEPT !.pc = pc]]

\* run_cascade_synchronous, straight against the vector store.
OperatorUpserts(o) ==
  /\ operator[o].pc = "retrying"
  /\ LET c == dead_letter[operator[o].id].cascade
     IN  Upsert(c) /\ RecordShown(c)
  /\ OperatorTo(o, "retried_succeeded")
  /\ UNCHANGED <<sqliteVars, in_cap_overflow, worker, sweep>>

OperatorHides(o) ==
  /\ operator[o].pc = "retrying"
  /\ LET c == dead_letter[operator[o].id].cascade
     IN  HideRow(c) /\ RecordShown(c)
  /\ OperatorTo(o, "pruning")
  /\ UNCHANGED <<sqliteVars, in_cap_overflow, worker, sweep>>

OperatorPrunes(o) ==
  /\ operator[o].pc = "pruning"
  /\ PruneOldVersions
  /\ OperatorTo(o, "retried_succeeded")
  /\ UNCHANGED <<sqliteVars, in_cap_overflow, worker, sweep>>

OperatorFails(o) ==
  /\ operator[o].pc \in {"retrying", "pruning"}
  /\ Faults \cap {"transient", "permanent"} # {}
  /\ OperatorTo(o, "retried_failed")
  /\ UNCHANGED <<sqliteVars, in_cap_overflow, vectorVars, worker, sweep>>

\* Seeded fault: the update does not ask for resolution IS NULL.
ResolveAgain(o) ==
  /\ operator[o].pc \in Resolution
  /\ dead_letter' = [dead_letter EXCEPT ![operator[o].id].resolution = operator[o].pc]
  /\ operator' = [operator EXCEPT ![o] = Idle]
  /\ UNCHANGED <<memories, committed, audit_seq, retry_queue, pending_sync,
                 overflow_events, in_cap_overflow, vectorVars, worker, sweep>>

\* resolve: only a pending row changes; the same resolution again is a quiet
\* success and a different one an error, and neither changes the row.
Resolve(o) ==
  /\ operator[o].pc \in Resolution
  /\ LET id == operator[o].id
     IN  dead_letter' =
           IF dead_letter[id].resolution = "pending"
             THEN [dead_letter EXCEPT ![id].resolution = operator[o].pc]
             ELSE dead_letter
  /\ operator' = [operator EXCEPT ![o] = Idle]
  /\ UNCHANGED <<memories, committed, audit_seq, retry_queue, pending_sync,
                 overflow_events, in_cap_overflow, vectorVars, worker, sweep>>

OperatorKilled(o) ==
  /\ "killed" \in Faults
  /\ operator[o] # Idle
  /\ operator' = [operator EXCEPT ![o] = Idle]
  /\ UNCHANGED <<sqliteVars, in_cap_overflow, vectorVars, worker, sweep>>

----------------------------------------------------------------------------

Write == \E m \in Memories : WriteMemory(m) \/ UpdateMemory(m) \/ DeleteMemory(m)

WorkerStep ==
  \/ PollDue \/ WorkerUpserts \/ WorkerHides \/ WorkerPrunes \/ WorkerFails
  \/ RecordSuccess \/ Reschedule \/ GiveUp \/ WriteDeadLetter

SweepStep(s) == SweepReads(s) \/ SweepReenqueues(s) \/ SweepStops(s)

OperatorStep(o) ==
  \/ OperatorReads(o) \/ OperatorUpserts(o) \/ OperatorHides(o)
  \/ OperatorPrunes(o) \/ OperatorFails(o) \/ Resolve(o)

Fault ==
  \/ CommitFails \/ WorkerStepErrs \/ CrashAndReopen
  \/ \E s \in Sweepers : SweepKilled(s)
  \/ \E o \in Operators : OperatorKilled(o)

Next ==
  \/ Write
  \/ Tick
  \/ WorkerStep
  \/ \E s \in Sweepers : SweepStep(s)
  \/ \E o \in Operators : OperatorStep(o)
  \/ Fault

Spec == Init /\ [][Next]_vars

(***************************************************************************)
(* RetryWorker::run steps for as long as the app is open, time passes, and *)
(* in the end no process crashes and no SQLite statement fails any more.   *)
(***************************************************************************)
FairSpec ==
  Spec /\ WF_vars(Tick) /\ WF_vars(WorkerStep) /\ <>[][~Fault]_vars

----------------------------------------------------------------------------
(* Properties *)

\* Every table, flag and process of the storage core has the shape the code gives it.
TypeOK ==
  /\ memories \in [Memories -> 0..MaxSeq]
  /\ committed \in [Memories -> 0..MaxSeq]
  /\ audit_seq \in 0..MaxSeq
  /\ retry_queue \subseteq RetryEntry
  /\ pending_sync \subseteq Cascade
  /\ in_cap_overflow \in BOOLEAN
  /\ overflow_events \in 0..2
  /\ dead_letter \in Seq(DeadLetterEntry)
  /\ vectors \in [Memories -> 0..MaxSeq]
  /\ unpruned \subseteq Memories
  /\ shown \in [Memories -> 0..MaxSeq]
  /\ reached \in [Memories -> 0..MaxSeq]
  /\ worker \in WorkerState
  /\ sweep \in [Sweepers -> SUBSET Cascade]
  /\ operator \in [Operators -> OperatorState]

(***************************************************************************)
(* Writers and sweepers each count the queue inside their own transaction, *)
(* so no interleaving of them takes retry_queue past its cap.              *)
(***************************************************************************)
QueueWithinCap == Cardinality(retry_queue) <= MaxQueueDepth

(***************************************************************************)
(* A cascade has one home: at most one retry_queue row, and no row there   *)
(* while it is still in pending_sync (the sweep's move is atomic).         *)
(***************************************************************************)
NotQueuedTwice ==
  /\ \A q, r \in retry_queue : q.cascade = r.cascade => q = r
  /\ \A p \in pending_sync : RowsOf(p) = {}

(***************************************************************************)
(* Until the worker records the outcome, the row it polled is still queued *)
(* with the attempts it had: record_failure never meets NotFound and never *)
(* counts an attempt on somebody else's row.                               *)
(***************************************************************************)
WorkerHoldsQueuedEntry ==
  worker.pc \in {"applying", "pruning", "applied", "failed", "failed_permanently"} =>
    \E r \in retry_queue :
      /\ r.cascade = worker.entry.cascade
      /\ r.attempts = worker.entry.attempts

(***************************************************************************)
(* The retry queue under writers, sweeps from stale snapshots and the      *)
(* worker: never over its cap, each cascade there once and nowhere else,   *)
(* and the worker's entry not taken from under it.                         *)
(***************************************************************************)
QueueSound == QueueWithinCap /\ NotQueuedTwice /\ WorkerHoldsQueuedEntry

\* Where a cascade that was not applied yet can still be found.
Recoverable(m, s) ==
  \/ \E r \in retry_queue : r.cascade.mem = m /\ r.cascade.seq = s
  \/ \E p \in pending_sync : p.mem = m /\ p.seq = s
  \/ \E i \in 1..Len(dead_letter) :
       dead_letter[i].cascade.mem = m /\ dead_letter[i].cascade.seq = s
  \/ /\ worker.pc = "dead_lettering"
     /\ worker.entry.cascade.mem = m
     /\ worker.entry.cascade.seq = s

(***************************************************************************)
(* No acknowledged operation is lost on its way: a memory's newest         *)
(* committed operation reached the vector store, or its cascade is still   *)
(* queued, pending or dead-lettered where the operator sees it.            *)
(***************************************************************************)
NothingForgotten ==
  \A m \in Memories :
    committed[m] = reached[m] \/ Recoverable(m, committed[m])

\* No process has anything left to do for m.
Settled(m) ==
  /\ \A r \in retry_queue : r.cascade.mem # m
  /\ \A p \in pending_sync : p.mem # m
  /\ worker # Idle => worker.entry.cascade.mem # m
  /\ \A s \in Sweepers : \A c \in sweep[s] : c.mem # m
  /\ \A i \in 1..Len(dead_letter) :
       dead_letter[i].cascade.mem = m => dead_letter[i].resolution = "retried_succeeded"
  /\ \A o \in Operators :
       operator[o] # Idle => dead_letter[operator[o].id].cascade.mem # m

(***************************************************************************)
(* SQLite is the source of truth: once nothing is under way for a memory,  *)
(* the vector store shows exactly what its row says, and for a deleted     *)
(* memory no replaced or deleted bytes are left either (ADR-039).          *)
(***************************************************************************)
SettledMemoriesAgree ==
  \A m \in Memories : Settled(m) =>
    /\ vectors[m] = memories[m]
    /\ memories[m] = 0 => m \notin unpruned

(***************************************************************************)
(* While the newest operation sits in pending_sync, exactly one            *)
(* cascade.queue_overflow event tells of this overflow.                    *)
(***************************************************************************)
OneOverflowEventPerEpisode ==
  (\E p \in pending_sync : p.seq = audit_seq) => overflow_events = 1

(***************************************************************************)
(* As long as no sweep queues older cascades behind newer ones, the worker *)
(* never takes a memory's entry ahead of an older one that has not failed  *)
(* yet.                                                                    *)
(***************************************************************************)
NeverOvertakesFresh ==
  [][worker.pc = "idle" /\ worker'.pc = "applying" =>
       \A r \in retry_queue :
         /\ r.cascade.mem = worker'.entry.cascade.mem
         /\ r.cascade.seq < worker'.entry.cascade.seq
         => r.attempts > 0]_vars

(***************************************************************************)
(* Strict FIFO per memory: the vector store never goes back from a newer   *)
(* operation of a memory to an older one.                                  *)
(***************************************************************************)
AppliedInOrder == [][\A m \in Memories : shown'[m] >= shown[m]]_vars

(***************************************************************************)
(* Resolutions are terminal: no row leaves dead_letter, and a resolved one *)
(* keeps its resolution, whichever operators race for it.                  *)
(***************************************************************************)
ResolvedOnce ==
  [][/\ Len(dead_letter') >= Len(dead_letter)
     /\ \A i \in 1..Len(dead_letter) :
          /\ dead_letter'[i].cascade = dead_letter[i].cascade
          /\ dead_letter[i].resolution # "pending" => dead_letter'[i] = dead_letter[i]]_vars

(***************************************************************************)
(* Once writes stop, every queued cascade is applied or dead-lettered.     *)
(***************************************************************************)
QueueDrains == <>[](retry_queue = {} /\ worker = Idle)

(***************************************************************************)
(* What the cascade promises: an ordered, eventually complete replica.     *)
(***************************************************************************)
Replica == INSTANCE OrderedReplica WITH applied <- shown
ReplicaSpec == Replica!FairSpec

============================================================================
