------------------------------- MODULE TidyUp -------------------------------
(***************************************************************************)
(* The nightly tidy-up (the consolidator) and the undo of a run, over the  *)
(* memories of RecentlyDeleted.  A run takes the vault for itself: the     *)
(* keeper ends, the run reads every memory, merges, retires and archives   *)
(* some, records what it changed as a checkpoint, adds search words to the *)
(* rest, and the keeper opens the vault again.  A run may be cut at any    *)
(* step, by its time limit or by the computer.  vault-cli can roll a       *)
(* checkpoint back, one memory at a time.                                  *)
(***************************************************************************)
EXTENDS RecentlyDeleted

CONSTANTS
  UndoAlone,            \* a checkpoint is rolled back only while no keeper and no run has the vault
  CHECKPOINT_RETENTION, \* how many checkpoints are kept, 7 in the code
  MaxRuns               \* bound: how many runs are ever started

ASSUME TidyUpAssumption ==
  /\ UndoAlone \in BOOLEAN
  /\ CHECKPOINT_RETENTION \in Nat \ {0}
  /\ MaxRuns \in Nat

VARIABLES
  open,        \* a keeper has the vault open, so clients may act
  run,         \* the run under way
  runs,        \* how many runs were started
  checkpoints, \* the consolidation_checkpoints and checkpoint_entries tables
  undo,        \* the rollback under way
  undone_late  \* history: a run was undone after a later one had started

runVars == <<run, runs>>
tidyVars == <<open, run, runs, checkpoints, undo, undone_late>>
vars == <<clientVars, tidyVars>>

AllMemories == [Memories -> Row \cup {NoRow}]
Unread == [m \in Memories |-> NoRow]

(***************************************************************************)
(* A run: the rows it read and still goes by; the memories not yet in a    *)
(* cluster it took up; those it is marking, and the merged memory they are *)
(* marked with (0: they are retired or archived instead).  touched is      *)
(* history: somebody else changed a memory since it began.                 *)
(***************************************************************************)
NoRun == [pc |-> "idle", read |-> Unread, left |-> {}, todo |-> {},
          into |-> NoMemory, touched |-> FALSE]

Run == [pc : {"idle", "clusters", "retiring", "archiving", "enriching"},
        read : AllMemories, left : SUBSET Memories, todo : SUBSET Memories,
        into : Memories \cup {NoMemory}, touched : BOOLEAN]

(***************************************************************************)
(* A checkpoint: the memories the run changed, whose rows before it are    *)
(* kept, and those it made.  The other rows of before are history, and so  *)
(* is touched: somebody but the run and its undo changed a memory since.   *)
(***************************************************************************)
Checkpoint == [n : 1..MaxRuns, before : AllMemories, modified : SUBSET Memories,
               created : SUBSET Memories, status : {"active", "rolled_back"},
               touched : BOOLEAN]

\* n is the checkpoint being rolled back, 0 when none is.
NoUndo == [n |-> 0, todo |-> {}]

TidyInit ==
  /\ Init
  /\ open = TRUE
  /\ run = NoRun
  /\ runs = 0
  /\ checkpoints = {}
  /\ undo = NoUndo
  /\ undone_late = FALSE

----------------------------------------------------------------------------
(* Who has the vault *)

Touched(cps) == {[cp EXCEPT !.touched = TRUE] : cp \in cps}

ClientActs ==
  /\ open
  /\ \E c \in Clients : ClientStep(c)
  /\ IF memories' = memories
       THEN UNCHANGED <<checkpoints, run>>
       ELSE /\ checkpoints' = Touched(checkpoints)
            /\ run' = [run EXCEPT !.touched = run.pc # "idle"]
  /\ UNCHANGED <<open, runs, undo, undone_late>>

\* The keeper ends, drained or killed: requests and the index are gone with it.
KeeperEnds ==
  /\ open
  /\ open' = FALSE
  /\ client' = [c \in Clients |-> Idle]
  /\ keyword_index' = [m \in Memories |-> 0]
  /\ UNCHANGED <<memories, binVars, idVars, now, runVars, checkpoints, undo, undone_late>>

\* Seeded fault: the index is not loaded.
KeeperOpensUnindexed ==
  /\ ~open /\ run.pc = "idle" /\ (UndoAlone => undo = NoUndo)
  /\ open' = TRUE
  /\ UNCHANGED <<memories, binVars, idVars, now, keyword_index, client, runVars,
                 checkpoints, undo, undone_late>>

\* The keeper opens the vault; its index is loaded from the active memories.
KeeperOpens ==
  /\ ~open /\ run.pc = "idle" /\ (UndoAlone => undo = NoUndo)
  /\ open' = TRUE
  /\ keyword_index' =
       [m \in Memories |-> IF Active(memories[m]) THEN memories[m].text ELSE 0]
  /\ UNCHANGED <<memories, binVars, idVars, now, client, runVars, checkpoints, undo, undone_late>>

TimePasses == Tick /\ UNCHANGED tidyVars

----------------------------------------------------------------------------
(* A run *)

ActiveMemories == {m \in Memories : Active(memories[m])}

\* What a step of the run leaves alone beside memories and what it lists.
RunKeeps == UNCHANGED <<binVars, now, keyword_index, client, open, runs, undo, undone_late>>

\* The run changes a memory: every earlier checkpoint has been touched.
Changes(m, row) ==
  /\ memories' = [memories EXCEPT ![m] = row]
  /\ checkpoints' = Touched(checkpoints)

\* Seeded fault: the keeper is not asked to end first.
StartsBesideKeeper ==
  /\ run.pc = "idle" /\ runs < MaxRuns
  /\ UndoAlone => undo = NoUndo
  /\ runs' = runs + 1
  /\ run' = [NoRun EXCEPT !.pc = "clusters", !.read = memories, !.left = ActiveMemories]
  /\ UNCHANGED <<clientVars, open, checkpoints, undo, undone_late>>

\* Under the vault lock and the tidy-up's own, the pre-run snapshot.
Starts ==
  /\ ~open
  /\ run.pc = "idle" /\ runs < MaxRuns
  /\ UndoAlone => undo = NoUndo
  /\ runs' = runs + 1
  /\ run' = [NoRun EXCEPT !.pc = "clusters", !.read = memories, !.left = ActiveMemories]
  /\ UNCHANGED <<clientVars, open, checkpoints, undo, undone_late>>

\* Clusters are found once, at the start, and have no memory in common.
Cluster(S) ==
  /\ run.pc = "clusters" /\ run.todo = {}
  /\ S \subseteq run.left /\ Cardinality(S) >= 2

\* Near-identical memories: in one transaction all are superseded by the
\* one that is valid from the latest date, which a client may have chosen.
Dedups ==
  \E S \in SUBSET run.left : \E survivor \in S :
    /\ Cluster(S)
    /\ \A m \in S : Exists(m)
    /\ memories' = [m \in Memories |->
         IF m \in S \ {survivor} THEN [memories[m] EXCEPT !.superseded_by = survivor]
                                 ELSE memories[m]]
    /\ checkpoints' = Touched(checkpoints)
    /\ run' = [run EXCEPT !.left = @ \ S]
    /\ UNCHANGED idVars
    /\ RunKeeps

\* decide_merge asks the model, apply_merge reads the members again, which must
\* all be active, and writes the merged memory; they are superseded afterwards.
Merges ==
  \E S \in SUBSET run.left :
    /\ Cluster(S)
    /\ \A m \in S : Active(memories[m])
    /\ last_id < MaxMemories /\ last_text < MaxText
    /\ Changes(last_id + 1, NewRow(last_text + 1))
    /\ last_id' = last_id + 1 /\ last_text' = last_text + 1
    /\ run' = [run EXCEPT !.left = @ \ S, !.todo = S, !.into = last_id + 1]
    /\ RunKeeps

\* The members contradict each other and one is plainly right.
Contradicts ==
  /\ \E S \in SUBSET run.left : \E winner \in S :
       Cluster(S) /\ run' = [run EXCEPT !.left = @ \ S, !.todo = S \ {winner}]
  /\ UNCHANGED <<memories, idVars, checkpoints>>
  /\ RunKeeps

\* The next memory of a merge is superseded; when it is gone the merge stops there.
Supersedes ==
  /\ run.into # NoMemory
  /\ \E m \in run.todo :
       IF Exists(m)
         THEN /\ Changes(m, [memories[m] EXCEPT !.superseded_by = run.into])
              /\ run' = [run EXCEPT !.todo = @ \ {m},
                                    !.into = IF run.todo = {m} THEN NoMemory ELSE @]
         ELSE /\ run' = [run EXCEPT !.todo = {}, !.into = NoMemory]
              /\ UNCHANGED <<memories, checkpoints>>
  /\ UNCHANGED idVars
  /\ RunKeeps

\* The next memory is invalidated, decayed or archived; one that is gone is passed over.
MarksNext ==
  /\ run.pc # "enriching" /\ run.into = NoMemory
  /\ \E m \in run.todo :
       /\ run' = [run EXCEPT !.todo = @ \ {m}]
       /\ IF Exists(m)
            THEN Changes(m, [memories[m] EXCEPT !.marks = @ \cup
                   {IF run.pc = "archiving" THEN "archived" ELSE "noted"}])
            ELSE UNCHANGED <<memories, checkpoints>>
  /\ UNCHANGED idVars
  /\ RunKeeps

\* Phase 2b and decay, after the clusters, and archiving, after those: each
\* reads the active memories again and picks some.
NextPhase ==
  /\ run.pc \in {"clusters", "retiring"} /\ run.todo = {}
  /\ \E chosen \in SUBSET ActiveMemories :
       run' = [run EXCEPT !.todo = chosen, !.left = {},
                          !.pc = IF @ = "clusters" THEN "retiring" ELSE "archiving"]
  /\ UNCHANGED <<memories, idVars, checkpoints>>
  /\ RunKeeps

\* create_checkpoint prunes all but the newest.
Newest(cps) == {cp \in cps : Cardinality({d \in cps : d.n > cp.n}) < CHECKPOINT_RETENTION}

\* The active facts without search words for their present wording.  Those noted
\* to be out of date are passed over, those noted to be less sure are not.
ToEnrich == {m \in ActiveMemories : memories[m].enriched # memories[m].text}

\* The rows that are not as they were, and those that were not there.
Differs(before) ==
  [modified |-> {m \in Memories : before[m] # NoRow /\ Exists(m) /\ memories[m] # before[m]},
   created |-> {m \in Memories : before[m] = NoRow /\ Exists(m)}]

Capture(entries) ==
  /\ run.pc = "archiving" /\ run.todo = {}
  /\ \/ /\ entries.modified \cup entries.created # {}
        /\ checkpoints' = Newest(checkpoints \cup
             {[n |-> runs, before |-> run.read, modified |-> entries.modified,
               created |-> entries.created, status |-> "active", touched |-> run.touched]})
     \/ UNCHANGED checkpoints
  /\ run' = [run EXCEPT !.pc = "enriching", !.read = memories, !.todo = ToEnrich]
  /\ UNCHANGED <<memories, idVars>>
  /\ RunKeeps

\* Seeded fault: the merged memories are not recorded.
CapturesModified == Capture([Differs(run.read) EXCEPT !.created = {}])

\* capture_checkpoint: the difference of two reads, kept with the newest others.
\* A capture that fails is only logged.
Captures == Capture(Differs(run.read))

\* enrich_facts: the row read before the language model answered is written
\* whole; a memory that is gone, or no answer, and the fact is passed over.
Enriches ==
  /\ run.pc = "enriching"
  /\ \E m \in run.todo :
       /\ run' = [run EXCEPT !.todo = @ \ {m}]
       /\ memories' = IF Exists(m)
            THEN [memories EXCEPT ![m] = [run.read[m] EXCEPT !.enriched = run.read[m].text]]
            ELSE memories
  /\ UNCHANGED <<idVars, checkpoints>>
  /\ RunKeeps

\* The run is done, or is cut between two writes.
Ends ==
  /\ run.pc # "idle"
  /\ run' = NoRun
  /\ UNCHANGED <<memories, idVars, checkpoints>>
  /\ RunKeeps

RunStep ==
  \/ Dedups \/ Merges \/ Contradicts \/ Supersedes \/ MarksNext
  \/ NextPhase \/ Captures \/ Enriches \/ Ends

----------------------------------------------------------------------------
(* Rolling a checkpoint back *)

UndoKeeps == UNCHANGED <<binVars, idVars, now, keyword_index, client, open, runs>>

\* The checkpoint is loaded; one already rolled back is refused.
UndoStarts ==
  /\ undo = NoUndo
  /\ UndoAlone => ~open /\ run.pc = "idle"
  /\ \E cp \in checkpoints :
       /\ cp.status = "active"
       /\ undo' = [n |-> cp.n, todo |-> cp.modified \cup cp.created]
       /\ undone_late' = (undone_late \/ cp.n # runs)
  /\ UNCHANGED <<memories, run, checkpoints>>
  /\ UndoKeeps

\* The undo of cp writes a memory: the other checkpoints have been touched.
UndoTouches(cp) ==
  /\ checkpoints' = {cp} \cup Touched(checkpoints \ {cp})
  /\ run' = [run EXCEPT !.touched = run.pc # "idle"]

\* Seeded fault: the memories the run made go first.
UndoesCreatedFirst ==
  /\ \E cp \in checkpoints : \E m \in undo.todo :
       /\ cp.n = undo.n
       /\ m \in cp.created \/ undo.todo \cap cp.created = {}
       /\ IF m \in cp.created
            THEN memories' = [memories EXCEPT ![m] = NoRow]
            ELSE Exists(m) /\ memories' = [memories EXCEPT ![m] = cp.before[m]]
       /\ UndoTouches(cp)
       /\ undo' = [undo EXCEPT !.todo = @ \ {m}]
  /\ UNCHANGED undone_late
  /\ UndoKeeps

\* Seeded fault: a memory that is gone is put back.
UndoesUpserting ==
  /\ \E cp \in checkpoints : \E m \in undo.todo :
       /\ cp.n = undo.n
       /\ m \in cp.modified \/ undo.todo \subseteq cp.created
       /\ memories' = [memories EXCEPT ![m] = IF m \in cp.created THEN NoRow ELSE cp.before[m]]
       /\ UndoTouches(cp)
       /\ undo' = [undo EXCEPT !.todo = @ \ {m}]
  /\ UNCHANGED undone_late
  /\ UndoKeeps

\* One entry, in the order they were stored, which is how SQLite reads them though
\* the SELECT names no order: update_memory puts the row before the run back, and
\* needs one to be there; delete_memory removes a merged memory.
Undoes ==
  /\ \E cp \in checkpoints : \E m \in undo.todo :
       /\ cp.n = undo.n
       /\ \/ /\ m \in cp.modified
             /\ Exists(m)
             /\ memories' = [memories EXCEPT ![m] = cp.before[m]]
          \/ /\ undo.todo \subseteq cp.created
             /\ memories' = [memories EXCEPT ![m] = NoRow]
       /\ UndoTouches(cp)
       /\ undo' = [undo EXCEPT !.todo = @ \ {m}]
  /\ UNCHANGED undone_late
  /\ UndoKeeps

UndoEnds ==
  /\ undo.n # 0 /\ undo.todo = {}
  /\ checkpoints' = {IF cp.n = undo.n THEN [cp EXCEPT !.status = "rolled_back"] ELSE cp :
                       cp \in checkpoints}
  /\ undo' = NoUndo
  /\ UNCHANGED <<memories, run, undone_late>>
  /\ UndoKeeps

\* NotFound, or the command is stopped: the checkpoint stays active.
UndoCut ==
  /\ undo # NoUndo
  /\ undo' = NoUndo
  /\ UNCHANGED <<memories, run, checkpoints, undone_late>>
  /\ UndoKeeps

UndoStep == UndoStarts \/ Undoes \/ UndoEnds \/ UndoCut

TidyNext ==
  \/ ClientActs \/ KeeperEnds \/ KeeperOpens \/ TimePasses
  \/ Starts \/ RunStep
  \/ UndoStep

TidySpec == TidyInit /\ [][TidyNext]_vars
----------------------------------------------------------------------------
(* Properties *)

\* The memories, the run, the checkpoints and the rollback have the shape the
\* code gives them, and no more checkpoints are kept than the code allows.
TidyTypeOK ==
  /\ TypeOK
  /\ open \in BOOLEAN
  /\ run \in Run
  /\ runs \in 0..MaxRuns
  /\ checkpoints \subseteq Checkpoint
  /\ Cardinality(checkpoints) <= CHECKPOINT_RETENTION
  /\ undo \in [n : 0..MaxRuns, todo : SUBSET Memories]
  /\ undone_late \in BOOLEAN

\* Two rows are alike but for the search words the enrichment adds.
Alike(a, b) == [a EXCEPT !.enriched = 0] = [b EXCEPT !.enriched = 0]

(***************************************************************************)
(* A rolled back run leaves nothing behind: if nobody else changed a       *)
(* memory since it began, every memory is as it was, however often the     *)
(* rollback was stopped half way and repeated, and the memories it made    *)
(* are gone.                                                               *)
(***************************************************************************)
RollbackRestores ==
  \A cp \in checkpoints :
    cp.status = "rolled_back" /\ ~cp.touched =>
      \A m \in Memories : Alike(memories[m], cp.before[m])

(***************************************************************************)
(* "Roll the vault back to the state captured by any retained checkpoint": *)
(* when a rollback is done, each memory that was active before the run is  *)
(* not hidden behind one that does not exist.                              *)
(***************************************************************************)
AnyRollbackKeepsAll ==
  [][\A cp \in checkpoints :
       undo.n = cp.n /\ undo.todo = {} /\ cp \notin checkpoints' =>
         \A m \in Memories :
           Active(cp.before[m]) /\ Exists(m) =>
             LET by == memories[m].superseded_by IN by = NoMemory \/ Exists(by)]_vars

(***************************************************************************)
(* A run rewords and removes no memory: what it merges, retires or         *)
(* enriches keeps the wording its owner last gave it.                      *)
(***************************************************************************)
RunKeepsWordings ==
  [][run.pc # "idle" /\ run' # run /\ (run'.touched => run.touched) =>
       \A m \in Memories : Exists(m) => memories'[m].text = memories[m].text]_vars

(***************************************************************************)
(* No memory is hidden behind one that is not there, also while a merge or *)
(* a rollback is half done: what a superseded memory points to exists,     *)
(* unless a client deleted it or an older run was undone after a later one.*)
(***************************************************************************)
HiddenBehindReal ==
  \A m \in Memories :
    LET by == memories[m].superseded_by
    IN  by # NoMemory =>
          \/ Exists(by)
          \/ \E b \in recently_deleted : b.mem = by
          \/ undone_late

(***************************************************************************)
(* Every variable has its shape, no more checkpoints are kept than the     *)
(* limit, and nothing is hidden for good by a half-done merge or rollback. *)
(***************************************************************************)
TidyInv == TidyTypeOK /\ HiddenBehindReal

(***************************************************************************)
(* While clients are served, and none is between its commit and its index  *)
(* update, every active memory is found under its present wording, also    *)
(* after tidy-ups and rollbacks.                                           *)
(***************************************************************************)
IndexServed == open => IndexCurrent

=============================================================================
