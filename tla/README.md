# Zaaheen vault: a TLA+ verification project

Zaaheen is a local, encrypted memory vault. One process (the *keeper*, or the
desktop application) opens the vault; AI applications reach it over MCP, the
owner through the desktop application and `vault-cli`. A memory lives in SQLite
(SQLCipher), its embedding in a vector store (LanceDB), its words in an in-RAM
keyword index. A nightly *tidy-up* (the consolidator) merges and marks memories.

This directory holds TLA+ modules for the parts of the program whose
correctness depends on the order in which several actors act and fail, TLC
configurations that check them on small instances, and TLAPS proofs of the
theorems that matter most. `PROJECT.json` lists components, runs, theorems,
hazards and findings, and says for every definition which source lines it
models.

To check: `tlc -workers 2 -config <run>.cfg <Module>` for a run,
`tlapm <Module>.tla` for the proofs of a module.

## 1. Inventory

### 1.1 The components

| component | its state | operations | what is hard, and what makes it correct |
|---|---|---|---|
| Cascading writes (`vault-storage/src/cascading.rs`, `retry_queue.rs`, `retry_worker.rs`, `pending_sync.rs`, `dead_letter.rs`) | tables `memories`, `audit_log`, `retry_queue`, `pending_sync`, `dead_letter`; the flag `in_cap_overflow`; the vector store | write, update and delete commit in SQLite and queue a cascade; the worker applies it, backs off, gives up; a full queue spills | processes interleave between transactions; vector-store calls fail; crashes. Nothing acknowledged is lost, the replica arrives at the newest row, the queue keeps its cap and drains |
| Divergence check (`divergence.rs`) | a snapshot of `pending_sync` | sweep spilled cascades back into the queue; count; sample | works from a stale snapshot beside writers and other sweeps |
| `vault-cli` dead-letter commands (`vault-cli/src/main.rs`) | the command in progress | list, retry, acknowledge | opens the store without the vault lock, so two operators race; resolutions are terminal |
| Recently deleted and the adapter (`recently_deleted.rs`, `vault-app/src/adapter.rs`) | table `recently_deleted`; what each request has read | save, edit, delete, restore, erase, empty, purge | each request awaits an embedding between its read and its commit. No wording is lost within 30 days, apps stay within their limit |
| Keyword index (`vault-retrieval/src/strategies/keyword.rs`) | postings in RAM | insert, replace, remove, rebuild | updated after each commit, in any order |
| Key lifecycle and erasure (`vault-app/src/keychain/`) | two credentials, the erased marker, the sealed files, the location record | open, create, move, recover, erase, start again | the computer stops between any two steps; the credential store lies. A key is never lost, and never comes back once erased |
| Consolidator (`vault-consolidator/src/`) | one run's snapshot and plan | dedup, merge, contradictions, decay, archive, enrich | minutes pass between snapshot and application; a run is cut at its time limit. No wording changes, nothing is hidden behind a memory that is not there |
| Checkpoint and rollback (`vault-storage/src/checkpoint.rs`) | table of checkpoints and their entries | capture by difference, roll back in three phases | a difference of two reads; rollbacks stopped, repeated, out of order. A rolled back run leaves nothing behind |
| Vault move (`vault-app/src/location/moving/`) | the location record, half-made and old copies | request, copy, commit, give up, clean up | a crash between any two steps, drives taken out, other people's files. A complete copy is always named, a move ends, one copy is left |
| Keeper and relays (`vault-app/src/keeper/`) | vault lock, intent file, discovery record, tenure | serve, hand over, take exclusively, find a keeper | processes start, drain and die at any moment. One process has the stores open, who asks gets the vault, no call runs that was reported unsent |
| Account client (`vault-account/src/`) | refresh token, lease, `refresh.lock`, unsaved token | refresh, sign in, sign out | rotation spends the old token before the new one is stored. The live token is never dropped, a spent one never shown without need |
| Entitlement (`vault-app/src/entitlement/`) | lease, clock, trial | decide | clock rollback and grace periods |
| Maintenance record (`maintenance_state.rs`) | `maintenance.json` | record a run, change the schedule | read, change and write by two processes |
| Metadata store and audit chain (`metadata_store.rs`, `audit.rs`) | rows, hash chain | single transactions | the rows appear in the modules above; the chain is sequential |
| Vector store (`vector_store.rs`) | LanceDB files and versions | upsert, delete (hide, compact, prune), search | appears in the cascade step by step; search only reads |
| Graph, boundary, agent-token and sealed-object stores | tables and files | single statements, encryption | no concurrent protocol |
| Retrieval, embedding, language models | models in memory | ranking, inference | numeric; covered by the repository's benchmarks |
| MCP server, desktop application | sessions, windows | translate calls into adapter calls | their requests are the clients of RecentlyDeleted |
| Scheduler backends, core types, connectors, site, scripts, workers | – | – | text formats, plain data, placeholders, the server side |

### 1.2 How they interact

    apps / owner --request--> adapter --embed (await)--> storage core --one transaction--> SQLite
                                 |                            |                         memories, audit_log,
                                 |                            |                         recently_deleted,
                       keyword index (RAM)                    v                         retry_queue | pending_sync
                                                        retry worker --call--> vector store
                                                              |
                                                         dead_letter <--- vault-cli dead-letter retry | acknowledge
    vault-cli divergence-check: pending_sync -> retry_queue
    tidy-up: reads memories, marks or rewrites them, writes a checkpoint
    opening the vault: location record -> key lock -> lifecycle (credentials, marker, files) -> key

SQLite work inside one process is serialised by the connection's mutex and
between processes by SQLite itself, so **one action of a module is one
transaction**, or what a program does between two awaits or two changes to
something outside SQLite. Everything else interleaves freely.

`vault-cli dead-letter`, `divergence-check` and `checkpoint` open the store
without taking `.vault.lock` (`vault-cli/src/main.rs`, `open_and_warn`), so
they run beside the application and beside each other. That is why the sweep and
the operators are separate processes in `CascadingWrites`.

## 2. Plan

In the order of importance to the owner of the data; all seven modules of the
plan are written and checked:

1. `CascadingWrites` with the abstract `OrderedReplica`; type, cap, single home,
   no loss, resolutions, overflow events, order, delivery and the safety part of the
   refinement proved.
2. `RecentlyDeleted`; type, wordings, deletions, both limits proved.
3. `KeyLifecycle` with the abstract `VaultKey`; type, no key beside a marker, the
   last copy, erased keys staying gone and never handed out, the refinement, and the key
   that opens its vault proved.
4. `TidyUp`, which extends `RecentlyDeleted` with the runs of the consolidator,
   their checkpoints and rollbacks; all its safety properties proved.
5. `VaultMove` with the abstract `NamedVault`; all its safety properties and the
   refinement proved.
6. `KeeperHandover`: locks, discovery file, tenures and calls; all its safety
   properties proved.
7. `AccountRefresh`: the account client beside its provider; all its safety
   properties proved.

What is left of the plan:

- the incremental watermark of the tidy-up (every memory is looked at by some run,
  section 6 says which are not);
- `maintenance.json`, and entitlement decisions as operators checked against a
  reference definition.

## 3. The modules

### 3.1 CascadingWrites

State: the five tables, the in-memory flag, the vector store (`vectors`: which
operation's embedding a memory shows; `unpruned`: whose replaced bytes are still
in old files), the worker, one snapshot per sweeper and one command per operator.
Two history variables, `shown` and `reached`, say what was applied last and the
newest that was ever applied. An operation is named by its audit sequence number,
which also names the embedding the cascade carries in its payload.

| action | code |
|---|---|
| `WriteMemory`, `UpdateMemory`, `DeleteMemory` → `CommitCascade` → `EnqueueCascade` | the transactions of `cascading.rs`, ending in `tx_enqueue_cascade` with its spill and its debounced overflow event |
| `CommitFails` | the same, failing after the enqueue step: SQLite rolls back, the in-memory flag does not |
| `PollDue`, `WorkerUpserts`, `WorkerHides`, `WorkerPrunes`, `WorkerFails` | `RetryWorker::step`: poll, then the vector-store call; a delete is hide, then compact and prune |
| `RecordSuccess`, `Reschedule`, `GiveUp`, `WriteDeadLetter` | `record_success`, `record_failure` and the dead-letter write that follows it in another transaction |
| `WorkerStepErrs`, `CrashAndReopen` | a SQLite error inside a step; the application ends anywhere and is started again |
| `SweepReads`, `SweepReenqueues`, `SweepStops`, `SweepKilled` | `drain_pending_sync` |
| `OperatorReads` … `Resolve`, `OperatorKilled` | `vault-cli dead-letter retry` and `acknowledge` |
| `Tick` | a second passes for every `next_attempt_at` |

A row's waiting time is the whole number of seconds the back-off table and its
jitter allow, so what is due and in which order follows the code's clock.
Left out: `mark_superseded`, `invalidate`, `apply_dedup`, `apply_decay` and
`apply_archive`, which change only the row and cascade nothing; the count and
sample tiers of the divergence check, which only read.

`OrderedReplica` is the promise: memory by memory the replica moves forward
through the committed operations and arrives at the last one. `ReplicaSpec`
instantiates it with `applied <- shown`.

`CascadingWritesProofs` (type, resolutions, the queue) and
`CascadeDeliveryProofs` (loss, overflow, order, delivery, refinement) hold the theorems.

### 3.2 RecentlyDeleted

State: `memories` and `recently_deleted`, the keyword index, a clock, and per
client the request it is in the middle of with what it has read. A wording is a
number given when it is written; whether a wording still exists is then a
question about numbers. History: the times of the changes apps made, and the wordings
the owner let go by erasing them or letting their 30 days pass.

| action | code |
|---|---|
| `Save` | `write_memory` after its embedding, then `Indexes` |
| `EditReads`, `EditCommits`, `EditRefused` | `update_as`: the row is read, the embedding awaited, then one transaction re-reads the row, keeps the replaced wording, checks the limit and updates |
| `Delete`, `DeleteMissing` | `tx_delete` with the copy and the limit |
| `RestoreReads`, `RestoreCommits`, `RestoreRefused` | `restore`: the entry is read, the embedding awaited, the transaction looks again |
| `Erase`, `Purge` | erase one entry, empty, and the purge of what is past 30 days |
| `Indexes`, `Restart` | the keyword index after a commit; rebuilt at start |
| `TidyUpMarks` | the tidy-up supersedes a memory, archives it or notes something on it |

The vector store's side of each change is `CascadingWrites`; the two share the
row and the commit and nothing else (an edit there is `UpdateMemory`, a delete
`DeleteMemory`, a restore `WriteMemory` or `UpdateMemory`).

### 3.3 KeyLifecycle

State: the credentials `main` and `spare` with their bytes and their persistence,
the erased `marker` and the folder it names, for every folder the keys its
files are sealed under, the location record, the drives that are out, and the
operation that holds the key lock with the step it is at. `open_by` is what
processes hold open. Steps carry the source's own names (C1, C2, D4, M2..M4, E0,
E2, E3): the comment above each function of `lifecycle.rs` uses them.

`Begin`, `OpenFolder`, `FinishErasure`, `C1*`, `Recover`, `C2*`, `Restore`,
`ReadMain`, `M2`..`M4`, `D4*`, `Create` are `open_or_create` and what it calls;
`Erase`, `E2*`, `E0`, `Clean`, `E3*` are `erase_all` and `finish_erasure`;
`StartAgain`, `Settle*`, `Record` are "start again in the default place".
`Stop` ends the process in any of these; `Read`, `Believed`, `Writes`, `Deletes`,
`Cleans` are the credential store and the file system with what they may do
wrong, a fault at a time, up to `MaxFaults`.

`VaultKey` is the promise: one key or none, made only when there is none, never
one that existed before, destroyed only by an erasure. `KeepsPromise`
instantiates it with the key the credentials hold.

`KeyLifecycleProofs` holds the theorems about it (section 5).

Every operation runs under the one key lock, which the module takes as given (K1,
`keychain/mod.rs`). Left out: stored values that are not 32 bytes long, and
platforms on which a file in use can be removed.

### 3.4 TidyUp

`TidyUp` extends `RecentlyDeleted`: the clients and their requests are that
module's, and act only while `open`, that is while a keeper has the vault. State
added: the run under way with the rows it read and still goes by, the
checkpoints, the rollback under way. A checkpoint keeps whole rows, as the code's
pre-images do.

| action | code |
|---|---|
| `KeeperEnds`, `KeeperOpens` | the hand-over to `vault-cli consolidate`, and `Application::new`, which loads the keyword index |
| `Starts` | the run's own lock and the pre-run snapshot |
| `Dedups`, `Merges`, `Contradicts` | one cluster: `apply_dedup` in one transaction, `apply_merge` up to the new memory, the losers of a contradiction |
| `Supersedes`, `MarksNext` | the loop over a cluster's members, one transaction each; one that is gone ends a merge and is passed over elsewhere |
| `NextPhase` | Phase 2b and decay, then archiving: each reads the active memories again |
| `Captures` | `capture_checkpoint` and the prune, or a failure that is only logged |
| `Enriches` | `enrich_facts`: the row as it was read, with its search words, in place of the row that is there |
| `Ends` | the end, the time limit or a stop, at any step |
| `UndoStarts`, `Undoes`, `UndoEnds`, `UndoCut` | the three phases of `rollback_checkpoint` |

Which memories are alike, contradict each other or are stale is any choice:
the embeddings and the language model decide it. The enrichment comes after the
checkpoint, so a rollback leaves search words in place (`Alike`), although
`checkpoint.rs` lists them with what a run changes. Left out: the counts and dates
that a deduplication adds up in the memory it keeps.

A rollback undoes the entries in the order they were stored, although the code's
SELECT states none: SQLite reads them through the index on the checkpoint, which is the
order of insertion, the changed memories before the created ones. By memory id it would
be the same, because the ids of the memories a run makes are the latest.

The vault is the run's alone (`Starts` needs `~open`), because the shipped path is
`vault-maintenance`, then `vault-cli consolidate` under `.vault.lock`. A keeper
started with `mcp --direct` runs the same passes inside itself beside its
clients; that is `RecentlyDeleted!TidyUpMarks`. `UndoAlone` says that a rollback
has the vault to itself; the code does not see to it (`vault-cli checkpoint
rollback` takes no lock, section 6).

`TidyUpProofs` holds the theorems about it, with those of `RecentlyDeletedProofs` for
the clients' steps.

### 3.5 VaultMove

State: the location record with its waiting move and its old copy to be
removed, every file of every folder, which drives are out, the locks
`.vault.intent`, `.vault.lock` and K1, and what each window's start and each keeper
is doing.

| actions | code |
|---|---|
| `RequestMove`, `ForgetOldCopy`, `EraseAsked`, `Erase` | what the person asks for in the desktop |
| `Start`, `TakesIntent`, `TakesLock`, `CannotHave` | `run_pending_with` up to M1 |
| `Attempt`, `NoAttempt`, `RemovesHalf`, `HalfRemoved`, `HalfNotRemoved`, `AfterFailure` | `attempt_under_lock`, `remove_half_copy`, `after_failure`, `give_up` |
| `MakesFolder` … `Copies`, `Verifies`, `Commits` | M2 to M5 of `copy_and_commit`, a file at a time |
| `CleansOld`, `Unmarks`, `RemovesOld`, `ClearsCleanup` | the old copy |
| `Resolve` … `OpensVault`, `Saves` | keepers that look the folder up, lock it and save |
| `TakeOut`, `PutBack`, `OthersFile`, `Stop` | drives, other people's files, a process that stops |

A failed write leaves nothing, part or all of what it wrote; a failed removal leaves
any part. `NamedVault` is the promise: a move changes where the vault is and nothing
else, in one step.

Assumed: the desktop itself never opens the vault (so of the processes that use the folder
only command-line tools can refuse the hand-over, a trouble in `CannotHave`); the first-run
`prepare` is over; on the platform modelled a file in use is not removed. `PatientPerson`
says that nobody asks for a move while a window's start is still busy with one
(section 6 says what happens otherwise). A folder whose drive went out while its old copy was
being removed, or of which the person was told that it was left, is excepted
from `OneCopy` (`left`). `VaultMoveProofs` holds the theorems.

### 3.6 KeeperHandover

State: who holds `.vault.intent` and `.vault.lock`, the discovery file, which
keepers' starting heartbeats still run, and per keeper, claimant and call where it is.

| actions | code |
|---|---|
| `ProbesIntent`, `TakesVault`, `ProbesAgain`, `Announces`, `Heartbeat`, `Builds`, `CannotBuild` | `dispatch_keeper` |
| `Publishes`, `Rotates`, `CannotPublish`, `ModeChanges`, `IdlesOut`, `ShutsDown`, `Leaves`, `Drains`, `Exits` | `runtime::serve` and what follows it |
| `Admits`, `Runs`, `Finishes` | the gate: a call is counted before it runs |
| `Claims`, `DeclaresIntent`, `TakesLock`, `AsksToHandOver`, `GivesUp`, `Holds`, `GoesOn`, `RunBeats`, `Finished`, `Releases` | `take_exclusive` and its callers: an erasure, an update or a move ("own"), a maintenance run ("now", "nightly") |
| `Asks`, `AnsweredHere`, `Connects`, `Start`, `NotSent`, `Sends`, `StopsWaiting`, `Dropped`, `Disconnects` | `KeeperPool::call` and `resolve` |
| `Killed`, `ClaimStops`, `GoesStale` | a process ends; a record is too old to be believed |

Left out: the cryptographic handshake and its version checks, connection limits,
the operating system's task that starts the keeper, and a file system error at the look
at the intent, which the code takes for "nobody" (`intent.rs:78`). An early error of
`account_home()` leaves a "starting" record behind for as long as it is believed, which is
the same as a stop there. `KeeperHandoverProofs` holds the theorems.

### 3.7 AccountRefresh

State: the provider's grants, the token in the credential store, the rotated token a process could not
store, the three files of the account folder, `refresh.lock`, and what each process is
doing. The actions from `Asks` to `WritesRecord` are the steps of `Account::refresh`;
`SignsIn`, `Marks` are `complete_sign_in`; `Begins`, `Clears`, `Forgets`, `Revokes` are `sign_out`,
which lets go of the lock before it revokes, and `sign_out_locally`, which does not;
`Wants` is a sign-out or `billing_access`. `Refuses` and `Aged` are the provider, which spends a
token at its use and ends the grant of a spent token it sees again.

A refresh is judged under the lock by the clock as its caller read it before the wait: `asked` is
how long ago that was. Who waited longer than the last attempt is old is allowed at once, as in
`refresh_allowed`, which counts an attempt later than its `now` as none. A job that
has started forgets what asked for it, since nothing later depends on it.

`Refusing` names the processes whose writes the credential store may refuse: one of them
(with both, section 6). Each process does one job at a time. Left out: clock jumps and the
judgement of a lease, leases of the same server second, status reads, the displayed address.
`AccountRefreshProofs` holds the theorems.

## 4. The runs

### 4.1 Runs that pass

| run | question | bounds |
|---|---|---|
| `cascade_failures` | With failing vector-store calls, spills and two operators, is anything acknowledged lost, told twice or resolved twice? | 2 memories, 3 operations, cap 1, 2 attempts |
| `cascade_crashes` | Does the core implement the ordered replica, does a settled memory agree with its row, and are a memory's entries taken in order, with crashes and SQLite errors anywhere? | 2 memories, 4 operations, cap 4 |
| `cascade_sweeps` | Do two sweeps beside writers and the worker keep the cap and one home per cascade, and does the queue drain? | 2 memories, 3 operations, cap 2, limit 2 |
| `bin_races` | Can any overlap of an owner's and two apps' edits, deletes and restores, with marks and restarts in between, lose a wording or revive a memory? | 1 memory, 2 wordings, 3 entries, 2 hours, limit 1 |
| `tidyup` | With tidy-up runs cut anywhere and rollbacks stopped and repeated, does a rollback restore what was, is anything hidden behind what is not there, does the index stay right, the app limit hold, what is deleted stay deleted? | 3 memories, 3 wordings, 2 runs, 1 checkpoint kept, 1 app |
| `key_safety` | With any one fault and up to three stops, is a key lost, revived, shadowed, or put over data sealed under another? | 3 keys, 2 erasures, 2 trips of a drive, 2 reads |
| `key_settles` | With any two faults, does a later open finish the move and the erasure, and does no open return an erased key? | 2 keys, 1 erasure, 1 stop, 1 trip, 3 reads |
| `moves` | With one trouble anywhere, does the record name a complete vault at every step, is other people's data kept, and do the move and its cleaning end? | 3 folders, 2 windows, 1 keeper, 1 move, 1 save, 2 attempts |
| `keeper_safety` | Can two processes have the stores open, the record name another, a call run that was reported unsent, a hand-over cut a call, a keeper overtake an intent? | 2 keepers, 2 claimants, 2 claims, 2 calls, 1 trouble |
| `keeper_settles` | Does whoever declared the intent get the vault, and does the search for a keeper end? | 2 keepers, 1 claimant, 1 call, 2 troubles |
| `account` | Can a refresh, sign-in, sign-out or stop drop the live token, show a spent one, ask too often, or leave a signed-in person without a lease for ever? | 2 processes, 2 users, 2 sign-ins, 2 troubles |

An invariant of a run may be a conjunction of named parts: `QueueSound`, `TidyInv`,
`MoveInv`, `HandoverInv` and `TokenInv` (the last four begin with the module's type
invariant), and `NamedVaultComplete` with `OneCopy`. Type invariants, limits and
a few other invariants that section 5 proves for every value of the constants are not
repeated in a run. Each inductive invariant of section 5 was checked with TLC, on the
constants of a run of its module, before it was proved.

Why these bounds show the interesting cases:

- *cap 1 with 3 operations* makes every second operation spill, and lets a
  spilled cascade be replaced by a newer one of its memory; *cap 2 with two
  sweepers* is the smallest in which both see the last free slot. *Cap 4* for
  four operations keeps the spill out of `cascade_crashes`, because a spilled
  cascade may be overtaken (section 6) and the refinement would fail for
  that reason alone; the order of entries is asked there, because a sweep queues an older
  cascade behind a newer one (section 6). Two attempts are a first failure that reschedules and a last
  one that gives up; further attempts repeat the first.
- *three operations* are a write, an update and a delete of one memory, or two
  memories whose entries compete for the worker.
- *one memory with three clients* is where edits, deletes and restores conflict;
  *three memories* are the fewest for supersession by a merge, and are in
  `tidyup`. The entries of `bin_races` are stamped at three different times, so that
  one is inside, at the edge of and outside an hour and the 30 days (one tick
  here).
- *two runs with one checkpoint kept* prune the first run's checkpoint, and let a
  rollback follow a later run that was cut before it had a checkpoint of its own. With
  two checkpoints kept every property of `tidyup` also holds, in more than the
  five minutes a run may take; the code keeps seven.
- *three folders* are the two of a move and one that has nothing to do with it.
  *Two windows* are the second start that meets the first one's locks. *One
  trouble* is enough for each kind of stop and for the move to be given up, because a
  drive that is out fails every attempt.
- *two keepers and two claimants* are the smallest in which a starting keeper meets
  both a serving one and an intent, and one claim waits behind another.
- *two users with two sign-ins* let a token, a lease and a record of one user
  meet the marker of the other; which of them signs in first is no matter (`FirstUser`).
  Ages are counted in ticks and only compared: *a wait of 1, a minute of 2, an hour of 3* keep
  the three apart, and let a clock reading be older than another's attempt. A *month*
  passes only while nobody is doing anything, which no lock or call outlasts; the age of the last
  call is kept up to `LongSince`, which no interval, less a wait, reaches.
- *two folders* are the recorded one and the default one. *Three stops* stop a
  move, its recovery and an erasure. *Two reads* are the fewest in which a single
  lying answer is outvoted; with two faults, three.

Fault sets differ between the runs, on purpose. `key_safety` leaves out changes of
`main` by something else (they destroy a key the program is not asked to
protect); `key_settles` leaves out garbled writes, because a garbled `main` is
handed out and never repaired (section 6). `ErasedNeverOpened` is about an
erasure that was not also stopped midway: with a stop *and* a store that ignores a delete
*and* denies holding the credential there is no witness left that anything was erased, and the
code does not claim it. Section 5 says how many faults it withstands. `OpenedFolders` is empty: with a second folder opened
beside the recorded one, D4 looks only at the folder being opened.
`LocklessUse` is TRUE in `key_settles`, as the lock-free commands of section 1.2
make it; in `key_safety` an erasure has the folder to itself, because a command
that went on writing through it would leave data behind that no key fits.

### 4.2 The run that shows a disagreement

`undo_orphans` checks `AnyRollbackKeepsAll`, which states the promise of
`vault-storage/src/checkpoint.rs:6` that any retained checkpoint can be rolled back.
TLC finds this: the first run merges two memories into a new one; the second
finds a third memory to be a duplicate of the new one, supersedes it, and is
cut before its checkpoint; rolling the first run back deletes the merged
memory, and the third stays superseded by a memory that is gone. No list,
search or later run shows it again, and no checkpoint holds it. Section 6 lists what
the other models reach.

### 4.3 Fairness

`CascadingWrites!FairSpec`: `RetryWorker::run` steps as long as the
application is open (weak fairness of the worker), time passes (of `Tick`), and
in the end neither a process crashes nor a SQLite statement fails any more (a
worker that is killed before every `record_success` never finishes anything, and
the code does not promise otherwise). Nothing is assumed of the vector store: it
may fail at every attempt, which is why `QueueDrains` says *applied or
dead-lettered*. Writes are not fair, they stop at `MaxSeq`.

`KeyLifecycle!FairSpec`: an operation goes on unless its process is stopped, the
owner keeps starting the application (strong fairness of opening the recorded
folder, since it is possible only while the drive is in and nobody holds the
lock), windows are closed in the end, a drive comes back. Stops and faults
are bounded by constants, which is the assumption that they end.

`VaultMove!Fairness`: a start that is under way takes its next step, windows are
opened again and again as long as there is something to do, a start gets the lock
that is free again and again, and keepers go on and hand over when asked. Nothing is assumed of the
drives: `MoveEnds` and `OldCopyGoes` say *or a drive is out*.

`KeeperHandover!Fairness`: processes take their next step, polls included, and a poll
sooner or later meets what lasts only a moment (`TakesLock` and the search of a call, strong
fairness: a poll every few hundred milliseconds against a state that lasts seconds); a record goes
stale. Nothing is assumed of deadlines, stops, failures or idle exits, so
`CallEnds` says that the search ends without its deadline.

`AccountRefresh!Fairness`: whoever holds the lock goes on. The desktop may never run again, and
no timer is counted on: without a lease the keeper is in lock mode and starts no routine refresh,
and "a lease arrives through a call or through the desktop app, never through this tick"
(`vault-app/src/keeper/runtime.rs:453`). So the apps are assumed to call again and again while there is
no lease, also when the lock is free; each call is denied, a denial asks for a refresh,
and the process they call gets the lock that is free again and again. Time passes until
the last attempt is long ago. Nothing is assumed of the network or the store but that
troubles are bounded.

`RecentlyDeleted` and `TidyUp` have no liveness property: a request whose client
gives up is simply not finished, and so is a run that is cut.

Deadlock is checked where the clock or the file system always has a next step (the
runs of `KeyLifecycle` and `AccountRefresh`); elsewhere a module stops when its bounds are spent, as the
program does when nobody asks anything of it, and what a deadlock would mean
there is a liveness property instead.

## 5. The theorems

For every number of memories, clients, operators, sweepers, keys, folders, windows,
keepers, claimants, calls, processes, users, moves, faults and stops, and every cap and
limit; where a condition is named, under that condition:

| module | theorem | says |
|---|---|---|
| `CascadingWritesProofs` | `TypeCorrect` | `Spec => []TypeOK` |
| | `ResolutionsAreFinal` | `Spec => ResolvedOnce` |
| | `CapHolds` | the queue never exceeds its cap |
| | `OneHomePerCascade` | a cascade is in one place once |
| | `WorkerEntryStaysQueued` | what the worker holds stays queued with its attempts |
| | `QueueIsSound` | the three together, `Spec => []QueueSound` |
| `CascadeDeliveryProofs` | `NothingIsForgotten` | with `Undisturbed`, nothing committed is lost: `[]NothingForgotten` |
| | `OneEventPerOverflow` | with `FlagIsKept`, `[]OneOverflowEventPerEpisode` |
| | `OlderGoesFirst` | with no sweep, `NeverOvertakesFresh` |
| | `SettledAgree` | with `Steady`, `[]SettledMemoriesAgree` |
| | `ReplicaInOrder` | with `Steady`, the core implements `OrderedReplica` but for its fairness: `Spec => Replica!Spec` |
| `RecentlyDeletedProofs` | `TypeCorrect` | `Spec => []TypeOK` |
| | `NoWordingLost` | `Spec => []WordingKept` |
| | `DeletedMemoriesStayDeleted` | `Spec => DeletedStaysDeleted` |
| | `LimitHolds` | `Spec => []AppRowsWithinLimit` |
| | `RateHolds` | with no restore and no erasure, `[]AppChangesPerHour` |
| `KeyLifecycleProofs` | `TypeCorrect` | `Spec => []TypeOK` |
| | `MarkerAlone` | with `HonestDeletes`, `[]NoKeyBesideMarker` |
| | `ErasedForGood` | with `HonestDeletes`, `[]ErasedStaysGone` |
| | `NeverLost` | with `StoreTells`, `LastCopyKept` |
| | `PromiseKept` | with `HonestDeletes` and `StoreTells`, the lifecycle implements `VaultKey`: `KeepsPromise` |
| | `KeyOpensVault` | with these and `OwnHands`, `[]KeyFitsVault` |
| | `ErasedNotHandedOut` | with `FewFaults`, `ErasedNeverOpened` |
| `TidyUpProofs` | `TidyTypeCorrect` | `TidySpec => []TidyTypeOK`: types, and the limit on checkpoints |
| | `TidyUpRevivesNothing` | `TidySpec => DeletedStaysDeleted` |
| | `TidyUpKeepsRate` | with no restore and no erasure, `[]AppChangesPerHour` |
| | `RolledBackIsUndone` | with `UndoAlone`, `[]RollbackRestores` |
| | `RunRewordsNothing` | with `UndoAlone`, `RunKeepsWordings` |
| | `IndexIsRight` | with `UndoAlone` and a single client, `[]IndexServed` |
| | `TidyUpHidesNothing` | with `UndoAlone` and no restore, `[]TidyInv` |
| `VaultMoveProofs` | `SourceIsHeld` | with `PatientPerson`, `[]MoveInv`: a move has the folder it moves, under K1 |
| | `AlwaysOneVault` | with `PatientPerson`, `[]NamedVaultComplete` |
| | `OthersKeepTheirs` | `Spec => OthersKept` |
| | `MovesOneVault` | with `PatientPerson`, the move implements `NamedVault`: `Spec => VaultSpec` |
| `KeeperHandoverProofs` | `OneOwnerAlways` | `Spec => []HandoverInv`: one process has the stores open, the record names it |
| | `NotSentIsSafe` | `Spec => []NotSentNeverRuns` |
| | `CleanDrain` | `Spec => []DrainedCleanly` |
| | `IntentFirst` | `Spec => IntentGoesFirst` |
| `AccountRefreshProofs` | `LiveTokenIsKept` | `Spec => []TokenInv` |
| | `SpentOnlyWhenLost` | `Spec => ReplayNeedsLoss` |
| | `ServerAskedAtMost` | `Spec => CallsLimited` |
| | `StoreGoesForward` | with `Refusing \subseteq {Desktop}`, `NewGrantSupersedes` |

The arguments:

- *Cap*: `retry_queue` is finite and at most `MaxQueueDepth` (`SizeInv`): both ways
  into it count it in the same transaction, and a reschedule replaces a row by
  one row. The cardinality facts are the library's.
- *One home*: `NotQueuedTwice` alone is not inductive, because a sweep
  enqueues from a snapshot. `HomeInv` adds that every sequence number in the
  queue, in `pending_sync` and in a snapshot has been handed out (a fresh cascade
  is then new); the table's uniqueness constraint, which ends a sweep, does the
  rest.
- *Worker*: only the worker removes or changes the row it holds; the sweep cannot insert
  a second one because of the uniqueness check.
- *Nothing forgotten*: `LossInv` adds that nothing queued, held or dead-lettered is
  newer than what its memory has committed, and that what the worker has applied
  counts as reached before its row is deleted. `Undisturbed` names the
  assumptions (no sweeper, no crash of the app, no SQLite error; commands may be
  killed). Section 6 shows
  that each assumption is needed.
- *One event*: `FlagInv` says that the flag is up exactly when the newest write spilled, and
  then with one event. `FlagIsKept` names the condition: a crash loses the flag, a SQLite
  error after the enqueue step keeps one that should have gone.
- *Order*: the poll takes the row that is due longest, so order is a matter of waiting
  times. `FreshInOrder`: a row that has not failed waits a second at most, and no longer than any row
  queued after it. A rescheduled row waits at least a second, so it never gets before
  those that are fresh.
- *Delivery*: with `Steady` every memory is spilled, or its newest operation is queued, or
  nothing of it is queued and the vector store shows its row (`NewestOnItsWay`). That a step
  keeps this needs that the worker takes the oldest cascade of all (`WorkerFirst`, from
  `FreshInOrder`: nothing has failed, so every row is fresh), and that what it has applied is
  still what is shown when it is recorded (`AppliedShows`), which a crash between the two
  does not change because the same row is applied again. `ReplicaInOrder` adds nothing but
  that what is queued is not older than what is shown (`StillToShow`).
- *Wordings*: `WordingInv` adds to `WordingKept` that memory ids are given out in
  order, so that a save never lands on a row that is there. The step that matters is
  `EditCommits`: the copy it keeps is of the row the *transaction* reads, not of the row
  the request read.
- *Limits*: `LimitInv` counts rows; `RateInv` maps each change of the last hour to its
  own row, which is still there because nothing is restored or erased and the
  purge removes only rows older than 30 days, and an hour is no longer
  (`ClientAssumption`).

- *The key and the marker*: `MarkerKnown` says that what an operation remembers of
  the marker is still true when it writes `main` without reading it first;
  `KeyGone` adds that `main` is gone at E0, where the marker is written.
  `HonestDeletes` names the condition: a store that ignores a delete and then denies
  the credential passes E2's confirmation with the key still there, and
  no program can tell.
- *Erased keys*: the keys are numbered as they are made and an erasure destroys all
  of them (`GoneKnown`), so it suffices that no step puts bytes into the store that
  are neither there already, nor new, nor garbled (`CopiesStep`).
- *Never lost*: each write over a credential is safe because of what an earlier step
  saw, and `CopyInv` says what: at C2 and M3 the two credentials hold the
  same bytes, at M2 a spare that is there was written from `main` (`SpareOfMain`),
  at D4 there is no `main`, and where an operation saw a marker every copy left is
  of a destroyed key (`Spent`). `StoreTells` names the condition: with as many lying answers
  in a row as `Policy::reads` D4 overwrites a key it was told is not there, and a
  key that roams in from another computer makes M2 overwrite the spare of
  the old one (section 6).
- *One key*: the two together say that both credentials never hold two keys that are
  different and in force. A new key is made only at Create, where neither holds one, and
  it is the number after all those made (`CopiesStep`); a key goes only when an erasure
  confirms it.
- *The key fits*: `FitInv` says that processes use the recorded folder and no other, that
  there are none while `main` is gone, and that the folder is empty where a key is created.
  Every write of `main` is then of the same key, or of a new one over nothing. At M3,
  where the reading back of `main` may show other bytes, it is the spare that fits. `OwnHands` names the
  condition: no second folder, no use without the lock, and nothing else deletes `main`.
- *Erased keys handed out*: without `HonestDeletes` an erased key may survive its erasure, but
  believing a delete that was ignored takes two faults. `SurvivorsAreSeen` says that no fault
  is then left while the same erasure is still to look again at E3, so E3 finds the key and the
  erasure does not end with it there. `FewFaults` is exact: with a third fault E3 believes the store too, and
  TLC finds `ErasedNeverOpened` violated (`key_settles` with `MaxFaults = 3`, `MaxStops = 0`).
- *A rolled back run*: `UndoneSoFar` says of every checkpoint that nothing else touched: what it
  does not list is as it was before the run, and of what it lists, what its rollback has
  come to so far is too. Two things make the difference of two reads the run's own:
  while there is a run there is no keeper and no rollback (`OneAtATime`), and after the capture a run
  changes search words only, in rows that are as it read them (`ReadStands`). Numbers are
  unique, so a checkpoint is one run's and the prune keeps what it should (`NumbersKnown`).
- *Wordings in a run*: a run that writes rows it read before changes no wording because
  `ReadStands`; with a rollback beside it, it does.
- *The index*: beside a request of the only client, every active memory but the one about to be
  indexed is in the index under its wording, and what is about to be indexed is what is there
  (`IndexFollows`); runs and rollbacks come when there is no keeper, and the next one loads the index.
- *Nothing hidden*: the danger is a created memory that a rollback removes while something still
  points to it. `LatestHasPointers` says that the checkpoint of the last run lists everything that
  points to what the run made, and that the rollback turns those pointers back first; of the older
  ones only that their rows point to what was there with them, because undoing an older one after a later
  run is what `undone_late` excepts. A run's own pointers are to memories it made or read
  (`RunPoints`), and an edit writes back the pointer that is there (`EditsKeepPointers`), which is no
  longer so once copies of superseded memories can be restored (section 6).
- *The limit beside runs*: neither a run nor a rollback touches Recently deleted, so `RateInv` of the
  clients' steps carries over.
- *The move*: K1 keeps the record as it is from the counted attempt to the switch
  (`KeyLockHeld`, `MoveKnown`), so the folder that is locked is the one the record names, the source
  cannot change under its lock, and the target has nothing but what this window wrote
  (`CopySound`): at the switch both are the same. The move that a window's start goes by is the
  recorded one only while the person is patient: this is where `PatientPerson` is needed. An old
  copy is removed by a window that found its move's number in it, numbers are not used twice
  (`OldFolders`), and a drive that is out is remembered as left (`OutRemembered`). That
  other people's files stay needs none of this: only a folder with the move's own mark
  is written to or removed.
- *The handover*: `LockHeld` says at which steps a process has the vault lock, and only its
  holder writes the record (`RecordOfRole`); a heartbeat ends before its keeper serves, or
  it would write "starting" over what another one wrote. Work is with a keeper
  that can have it, and only for calls that were sent (`CallsServed`); a keeper that hands over has
  closed its gate before it counts what runs (`Draining`). The intent goes first because
  a keeper commits to opening the vault only at its second look at it (`OnlyProbesCommit`).
- *The tokens*: a live token is in one place, the store or one process (`OneLive`). A job that has a
  live token in hand is the only one that has it; a sign-in's is of the newest grant
  (`NewestInHand`), so what it writes over is older; and a job goes by its process's own
  unsaved token before it goes by the stored one (`RefusedFirst`, `SpentKnown`), so a
  spent token is shown only when the live one was lost or is with the other process.
  `StoreGoesForward` is for one process whose writes are refused, the desktop, which
  signs in itself. A sign-out revokes without the lock; no job has a token in hand meanwhile, because
  no marker names anybody (`SignOutAlone`).
- *The calls*: the record is no younger than the last call and no older than it by more than the
  longest wait (`CalledBefore`), because the attempt is recorded, before the call, at the
  time its caller read. What the record allows is then what `CallsLimited` says of the calls.

The proofs assume the named assumptions of the modules (`ConstantsAssumption`,
`ClientAssumption`, `TidyUpAssumption`, `KeyAssumption`, `FolderAssumption`, `MoveBoundAssumption`,
`ProcessAssumption`, `AccountAssumption`) and, where said, the condition of the theorem.
Every condition is met by the constants of a run that checks the property; what happens
without it is said above, in section 4.1 or in section 6.

Every safety property of the passing runs is stated by a theorem, and so are the three
refinements, that of `OrderedReplica` without its fairness. Model-checked only:

- all liveness (`QueueDrains`, `MoveFinishes`, `ErasureFinishes`, `MoveEnds`, `OldCopyGoes`,
  `ClaimTaken`, `CallEnds`, `LeaseArrives`) and with it the fairness of `ReplicaSpec`:
  liveness under fairness is outside what the prover does;
- `SettledMemoriesAgree` and the order of the replica with crashes *and* failing calls at once are
  in no theorem and no run: with a failing call they do not hold (section 6).

## 6. What the models showed about the code

The run `undo_orphans` is in section 4.2. The models reach these states too.
Where a property is named, it is defined in the module, states what the code or its
comments say, and is violated with the constants given.

Storage:

- *Order*: a rescheduled older entry of a memory is overtaken by a newer one and
  applied last, although `retry_queue.rs:8` says "Strict FIFO per `memory_id`"
  (`CascadingWrites!AppliedInOrder`: 1 memory, cap 2, 2 attempts, 3 operations,
  `Faults = {"transient"}`). So is an older operation that waits in `pending_sync`
  while the newer one is queued directly.
- *Sweep*: `drain_pending_sync` deletes by memory id, and with it a newer cascade
  that replaced the one it had read; `divergence.rs:44` calls a silently dropped
  overflow entry "a real loss, closed here" (`NothingForgotten`: 2 memories, cap 1, 1
  attempt, 1 sweeper, 4 operations). A cascade that spilled is queued by a sweep behind a
  newer one of its memory (`NeverOvertakesFresh`: 1 memory, cap 2, 1 sweeper, 4 operations).
- *Dead letters*: the queue row is deleted in one transaction and the dead letter
  written in another; a stop in between leaves neither (`NothingForgotten`: 1 memory, cap 2, 1
  attempt, `Faults = {"permanent", "crash"}`). A dead letter retried after its memory was updated or
  deleted overwrites what is newer; the retry does not look (`vault-cli/src/main.rs:2044`).
- *Overflow*: a transaction that rolls back after its enqueue step leaves the
  flag set, so the next real overflow commits no event (`cascading.rs:1204`); after a
  restart the flag is down and one overflow is told twice (`OneOverflowEventPerEpisode`
  with `"sqlite"` or `"crash"` in `Faults`).
- *App limit*: restoring or erasing entries lowers the count that
  `recently_deleted.rs:15` says *is* the count of the changes apps made
  (`RecentlyDeleted!AppChangesPerHour`: 1 owner, 1 app, limit 1, all requests).
- *Edits*: an edit writes back the marks it read before it awaited the
  embedding, and undoes what an in-process tidy-up marked in between
  (`EditKeepsMarks`: the same with edits and marks only). Two edits whose commits and index
  updates cross leave the older wording in the keyword index until the keeper restarts.

Tidy-up and rollback:

- A run that is cut has no checkpoint, so what it did cannot be rolled back, and even
  rolling back the newest checkpoint then orphans (section 4.2).
- A rollback writes and deletes whole rows: what a client saved over or edited since the
  run is replaced without a copy in Recently deleted, and a memory of the log that was deleted since
  makes it stop with NotFound, for good (the checkpoint stays active).
- With `UndoAlone = FALSE` a rollback beside a running keeper leaves the keyword index
  stale (`IndexServed`), and one during a run can leave a memory behind one that is
  gone (`HiddenBehindReal`), or be written over by the run's enrichment (`RunKeepsWordings`).
- An edit of a superseded memory keeps a copy that still points to the merged one. When the run
  is rolled back the merged memory goes, and restoring the copy brings back a memory that
  is hidden behind nothing (`HiddenBehindReal`: 1 owner, requests save, edit and restore, 3 memories,
  4 wordings, 1 run). That is why `TidyUpHidesNothing` excludes restores.
- In direct mode, an enrichment writes back the row it read minutes before, wording
  included, over an edit, although `consolidator.rs` says that the displayed content is
  never modified; a merge supersedes an edit with text made from before it.

Key:

- Recovery keeps a spare that differs from `main`, but the move of the
  same open overwrites it (`lifecycle.rs:10` says a key is never lost).
- A garbled `main` is handed out although the log says that the next open repairs
  it (`lifecycle.rs:244`).

Move: a second window waits for the first move's folder while that move ends and
another one is asked for; it then moves a folder it does not hold, although
`attempt_under_lock`'s comment says "The caller holds the vault folder exclusively
(M1)" (`SourceHeld`, and even `NamedVaultComplete`: 2 windows, 2 moves,
`PatientPerson = FALSE`). A keeper suspended between looking the folder up and
locking it can open the abandoned one. A move given up may leave part of a copy.

Account:

- A caller that waits for the lock behind a refresh which records its attempt and then fails
  calls at once, because that attempt is later than the clock it read before the wait;
  `refresh_allowed` says "At most one a minute, hourly after a signed `ended`"
  (`vault-account/src/entitlement/mod.rs:311`, `OneAMinute`, with the constants of `account`).
  `CallsLimited` says what does hold.
- With `Refusing = {keeper}`, the keeper's unsaved token of an old grant is stored
  over a newer sign-in's token (`NewGrantSupersedes`, which quotes `complete_sign_in`).
- A credential store that refuses one process's write and a refresh by the other show
  a spent token and sign the person out; the module's point 5 says a keychain error never
  does. `ReplayNeedsLoss` excepts it.
- A stop between the marker and the reset of `state.json` leaves the previous user's
  record; a stop between a re-sign-in's token and its marker leaves another user's
  token, which `LeaseArrives` excepts.

## 7. What is not modelled

- *The watermark of the tidy-up*: in the plan; `TidyUp` leaves to choice which clusters a
  run takes up. The code says of a cluster or pair whose judgement failed that the
  "next cycle retries" (`consolidator.rs:416`, `contradiction.rs:381`), but such a run
  still succeeds and moves the watermark (`application.rs:1221`), later runs start only
  from memories created since (`cluster.rs:185`), and no caller asks for a full sweep
  again. Memories restored, edited or brought back by a rollback are passed over the same way.
- *`maintenance.json`*: in the plan. `is_due` says "no run has succeeded within one
  interval" (`maintenance_state.rs:204`) but looks at the last outcome alone, so a busy or
  failed run after a successful one makes a catch-up due; and a schedule change writes back
  the outcome it read before it called the operating system
  (`commands/maintenance.rs:510`), over that of a run which ended meanwhile.
- *Reports and graph of the tidy-up*: written whole from what is read, and derived data
  that only the consolidator writes.
- *Entitlement decisions* (leases, clock rollback, grace): pure functions of a lease and a
  clock, tested directly by the repository; in the plan as operators.
- *Cryptography* (sealed objects, SQLCipher, the handshake), *inference and ranking*
  (retrieval, embeddings, language models): numeric or sequential, no protocol between actors.
- *Text formats and outside commands* (scheduler backends, records, MCP messages), *the
  site, scripts and placeholder crates*.
- *The server side* (TypeScript workers): `AccountRefresh` has what a client sees of it.
- *Reads*: search, list and export change nothing and appear only as what a
  property says they would find.
