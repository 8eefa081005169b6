-------------------------- MODULE RecentlyDeleted --------------------------
(***************************************************************************)
(* Memories as the people and programs who use the vault see them: the     *)
(* owner and AI apps save, edit and delete them through the adapter; what  *)
(* a delete or an edit replaces is copied into recently_deleted in the     *)
(* same transaction, and the owner may restore it for 30 days.  The        *)
(* tidy-up marks memories meanwhile, without changing their wording.       *)
(*                                                                         *)
(* One action is one SQLite transaction, or what the adapter does between  *)
(* two awaits.  The vector store's side of a change is CascadingWrites.    *)
(***************************************************************************)
EXTENDS Naturals, FiniteSets

CONSTANTS
  Owners,       \* clients acting for the owner: desktop app, command line
  Apps,         \* clients acting for AI apps over MCP
  Requests,     \* what happens, see RequestKinds
  AppLimit,     \* APP_CHANGES_PER_HOUR, 30 in the code
  Hour,         \* an hour, in ticks of the clock
  Days30,       \* RECENTLY_DELETED_DAYS, in ticks of the clock
  MaxMemories,  \* bound: how many memories are ever created
  MaxText,      \* bound: how many wordings are ever written
  MaxEntry,     \* bound: how many Recently deleted entries are ever made
  MaxTime       \* bound: the last tick of the clock

RequestKinds == {"save", "edit", "delete", "restore", "erase", "mark", "restart"}

ASSUME ClientAssumption ==
  /\ Owners \cap Apps = {}
  /\ Requests \subseteq RequestKinds
  /\ {AppLimit, Hour, Days30, MaxMemories, MaxText, MaxEntry, MaxTime} \subseteq Nat
  /\ Hour <= Days30

VARIABLES
  memories,         \* the memories table
  recently_deleted, \* the recently_deleted table
  last_id,          \* the last memory id made
  last_text,        \* the last wording given to a memory
  last_entry,       \* the last entry id given out
  now,              \* the clock
  keyword_index,    \* the in-RAM keyword index: the wording it has for each memory, 0 = none
  client,           \* per client: the request it is in the middle of
  app_changes,      \* history: the ids and times of the changes apps made
  let_go            \* history: wordings the owner erased or whose 30 days are over

binVars == <<recently_deleted, last_entry, app_changes, let_go>>
idVars == <<last_id, last_text>>
clientVars == <<memories, binVars, idVars, now, keyword_index, client>>

Clients == Owners \cup Apps
Texts == 1..MaxText

\* Memory ids, numbered in the order they are made; 0 is no memory.
Memories == 1..MaxMemories
NoMemory == 0

\* What the tidy-up sets on a memory, beside superseded_by: archived_at, which
\* an edit clears, and valid_until and the decay marker, which it preserves.
Marks == {"archived", "noted"}

(***************************************************************************)
(* A memories row: the wording, numbered in the order the wordings were    *)
(* written; the memory that supersedes it; the tidy-up's other marks; and  *)
(* the wording the enrichment in its metadata was made for.                *)
(***************************************************************************)
Row == [text : Texts, superseded_by : Memories \cup {NoMemory},
        marks : SUBSET Marks, enriched : 0..MaxText]

NoRow == [text |-> 0, superseded_by |-> NoMemory, marks |-> {}, enriched |-> 0]

Exists(m) == memories[m] # NoRow

\* What try_new makes of a new wording.
NewRow(text) ==
  [text |-> text, superseded_by |-> NoMemory, marks |-> {}, enriched |-> 0]

\* An edit keeps what ADR-028 preserves: all but archived_at.
EditedRow(existing, text) ==
  [existing EXCEPT !.text = text, !.marks = @ \ {"archived"}]

BinEntry == [id : 1..MaxEntry, mem : Memories, row : Row,
             kind : {"deleted", "replaced"}, by : Clients, at : 0..MaxTime]

Idle == [pc |-> "idle"]

ClientState ==
  [pc : {"idle"}]
  \cup [pc : {"editing"}, mem : Memories, row : Row]
  \cup [pc : {"restoring"}, entry : BinEntry]
  \cup [pc : {"indexing"}, mem : Memories, text : 0..MaxText]

Init ==
  /\ memories = [m \in Memories |-> NoRow]
  /\ recently_deleted = {}
  /\ last_id = 0
  /\ last_text = 0
  /\ last_entry = 0
  /\ now = 0
  /\ keyword_index = [m \in Memories |-> 0]
  /\ client = [c \in Clients |-> Idle]
  /\ app_changes = {}
  /\ let_go = {}

----------------------------------------------------------------------------

\* The adapter's last step: bring the keyword index up to date, 0 to drop the memory.
ThenIndexes(c, m, text) ==
  client' = [client EXCEPT ![c] = [pc |-> "indexing", mem |-> m, text |-> text]]

Done(c) == client' = [client EXCEPT ![c] = Idle]

\* The adapter's write: a fresh id, a fresh row.
Save(c) ==
  /\ "save" \in Requests
  /\ client[c] = Idle
  /\ last_id < MaxMemories /\ last_text < MaxText
  /\ memories' = [memories EXCEPT ![last_id + 1] = NewRow(last_text + 1)]
  /\ ThenIndexes(c, last_id + 1, last_text + 1)
  /\ last_id' = last_id + 1
  /\ last_text' = last_text + 1
  /\ UNCHANGED <<binVars, now, keyword_index>>

\* The entries that count against the apps' limit.
AppRowsLastHour ==
  {b \in recently_deleted : b.by \in Apps /\ b.at + Hour > now}

\* tx_check_app_limit: the owner always passes.
WithinLimit(c) == c \in Owners \/ Cardinality(AppRowsLastHour) < AppLimit

\* tx_insert_bin: row is copied as it is.
KeepCopy(c, m, row, kind) ==
  /\ last_entry < MaxEntry
  /\ last_entry' = last_entry + 1
  /\ recently_deleted' = recently_deleted \cup
       {[id |-> last_entry + 1, mem |-> m, row |-> row, kind |-> kind,
         by |-> c, at |-> now]}
  /\ app_changes' = IF c \in Apps THEN app_changes \cup {[id |-> last_entry + 1, at |-> now]}
                                  ELSE app_changes
  /\ UNCHANGED let_go

\* update_as reads the row it will patch, then awaits the embedding.
EditReads(c) ==
  /\ "edit" \in Requests
  /\ client[c] = Idle
  /\ \E m \in Memories :
       /\ Exists(m)
       /\ client' = [client EXCEPT ![c] = [pc |-> "editing", mem |-> m, row |-> memories[m]]]
  /\ UNCHANGED <<memories, binVars, idVars, now, keyword_index>>

\* Seeded fault: the update inserts a row that is gone.
EditUpserts(c) ==
  /\ client[c].pc = "editing"
  /\ WithinLimit(c)
  /\ last_text < MaxText
  /\ LET m == client[c].mem
     IN  /\ IF Exists(m) THEN KeepCopy(c, m, memories[m], "replaced") ELSE UNCHANGED binVars
         /\ memories' = [memories EXCEPT ![m] = EditedRow(client[c].row, last_text + 1)]
         /\ ThenIndexes(c, m, last_text + 1)
  /\ last_text' = last_text + 1
  /\ UNCHANGED <<last_id, now, keyword_index>>

(***************************************************************************)
(* update_memory_keeping_previous: the copy kept is the row as it is now,  *)
(* but what replaces it was patched from the row as it was read.           *)
(***************************************************************************)
EditCommits(c) ==
  /\ client[c].pc = "editing"
  /\ Exists(client[c].mem)
  /\ WithinLimit(c)
  /\ last_text < MaxText
  /\ LET m == client[c].mem
     IN  /\ KeepCopy(c, m, memories[m], "replaced")
         /\ memories' = [memories EXCEPT ![m] = EditedRow(client[c].row, last_text + 1)]
         /\ ThenIndexes(c, m, last_text + 1)
  /\ last_text' = last_text + 1
  /\ UNCHANGED <<last_id, now, keyword_index>>

\* NotFound, RateLimited, or the embedding or the commit failed: nothing changes.
EditRefused(c) ==
  /\ client[c].pc = "editing"
  /\ Done(c)
  /\ UNCHANGED <<memories, binVars, idVars, now, keyword_index>>

\* Seeded fault: deletes are not counted against the limit.
DeleteUnlimited(c) ==
  /\ "delete" \in Requests
  /\ client[c] = Idle
  /\ \E m \in Memories :
       /\ Exists(m)
       /\ KeepCopy(c, m, memories[m], "deleted")
       /\ memories' = [memories EXCEPT ![m] = NoRow]
       /\ ThenIndexes(c, m, 0)
  /\ UNCHANGED <<idVars, now, keyword_index>>

\* move_to_recently_deleted; past the limit nothing changes.
Delete(c) ==
  /\ "delete" \in Requests
  /\ client[c] = Idle
  /\ WithinLimit(c)
  /\ \E m \in Memories :
       /\ Exists(m)
       /\ KeepCopy(c, m, memories[m], "deleted")
       /\ memories' = [memories EXCEPT ![m] = NoRow]
       /\ ThenIndexes(c, m, 0)
  /\ UNCHANGED <<idVars, now, keyword_index>>

\* A delete of a memory that is gone is a quiet success and counts for nothing.
DeleteMissing(c) ==
  /\ "delete" \in Requests
  /\ client[c] = Idle
  /\ \E m \in 1..last_id : ~Exists(m) /\ ThenIndexes(c, m, 0)
  /\ UNCHANGED <<memories, binVars, idVars, now, keyword_index>>

----------------------------------------------------------------------------
(* The owner's Recently deleted screen *)

\* restore_recently_deleted reads the entry, then awaits the embedding.
RestoreReads(c) ==
  /\ "restore" \in Requests
  /\ c \in Owners
  /\ client[c] = Idle
  /\ \E b \in recently_deleted :
       client' = [client EXCEPT ![c] = [pc |-> "restoring", entry |-> b]]
  /\ UNCHANGED <<memories, binVars, idVars, now, keyword_index>>

\* The entry is still there and its 30 days are not over.
StillThere(b) == b \in recently_deleted /\ b.at + Days30 >= now

\* Seeded fault: the wording that is replaced is not kept.
RestoreOverwrites(c) ==
  /\ client[c].pc = "restoring"
  /\ LET b == client[c].entry
     IN  /\ StillThere(b)
         /\ recently_deleted' = recently_deleted \ {b}
         /\ memories' = [memories EXCEPT ![b.mem] = b.row]
         /\ ThenIndexes(c, b.mem, b.row.text)
  /\ UNCHANGED <<last_entry, app_changes, let_go, idVars, now, keyword_index>>

\* restore_from_recently_deleted: the entry's row comes back as it was; the
\* current wording of a memory that exists takes its place in the bin.
RestoreCommits(c) ==
  /\ client[c].pc = "restoring"
  /\ LET b == client[c].entry
         m == b.mem
     IN  /\ StillThere(b)
         /\ last_entry < MaxEntry
         /\ recently_deleted' = (recently_deleted \ {b}) \cup
              IF Exists(m)
                THEN {[id |-> last_entry + 1, mem |-> m, row |-> memories[m],
                       kind |-> "replaced", by |-> c, at |-> now]}
                ELSE {}
         /\ last_entry' = IF Exists(m) THEN last_entry + 1 ELSE last_entry
         /\ memories' = [memories EXCEPT ![m] = b.row]
         /\ ThenIndexes(c, m, b.row.text)
  /\ UNCHANGED <<app_changes, let_go, idVars, now, keyword_index>>

\* NotFound, or the embedding or the commit failed: nothing changes.
RestoreRefused(c) ==
  /\ client[c].pc = "restoring"
  /\ Done(c)
  /\ UNCHANGED <<memories, binVars, idVars, now, keyword_index>>

\* The entries leave for good.
Erased(entries) ==
  /\ entries # {}
  /\ recently_deleted' = recently_deleted \ entries
  /\ let_go' = let_go \cup {b.row.text : b \in entries}
  /\ UNCHANGED <<memories, last_entry, app_changes, idVars, now, keyword_index, client>>

\* erase_from_recently_deleted, empty_recently_deleted.
Erase ==
  /\ "erase" \in Requests
  /\ \/ \E b \in recently_deleted : Erased({b})
     \/ Erased(recently_deleted)

\* purge_expired, when the vault opens and before the list is shown.
Purge == Erased({b \in recently_deleted : b.at + Days30 < now})

----------------------------------------------------------------------------
(* After the commit; the tidy-up; time *)

Indexes(c) ==
  /\ client[c].pc = "indexing"
  /\ keyword_index' = [keyword_index EXCEPT ![client[c].mem] = client[c].text]
  /\ Done(c)
  /\ UNCHANGED <<memories, binVars, idVars, now>>

\* mark_superseded, and each loser of apply_dedup.
Superseded(m, by) == memories' = [memories EXCEPT ![m].superseded_by = by]

\* invalidate, apply_archive, apply_decay.
Marked(m, mark) == memories' = [memories EXCEPT ![m].marks = @ \cup {mark}]

\* The tidy-up, as far as clients can tell: any mark on any memory, at any time.
TidyUpMarks ==
  /\ "mark" \in Requests
  /\ \E m \in Memories :
       /\ Exists(m)
       /\ \/ \E by \in Memories \ {m} : Superseded(m, by)
          \/ \E mark \in Marks : Marked(m, mark)
  /\ UNCHANGED <<binVars, idVars, now, keyword_index, client>>

\* Default retrieval leaves superseded and archived memories out.
Active(row) ==
  row # NoRow /\ row.superseded_by = NoMemory /\ "archived" \notin row.marks

\* The keeper ends and opens the vault again: requests are gone, and the index
\* is loaded anew from the active memories.
Restart ==
  /\ "restart" \in Requests
  /\ client' = [c \in Clients |-> Idle]
  /\ keyword_index' =
       [m \in Memories |-> IF Active(memories[m]) THEN memories[m].text ELSE 0]
  /\ UNCHANGED <<memories, binVars, idVars, now>>

Tick ==
  /\ now < MaxTime
  /\ now' = now + 1
  /\ UNCHANGED <<memories, binVars, idVars, keyword_index, client>>

ClientStep(c) ==
  \/ Save(c) \/ EditReads(c) \/ EditCommits(c) \/ EditRefused(c)
  \/ Delete(c) \/ DeleteMissing(c)
  \/ RestoreReads(c) \/ RestoreCommits(c) \/ RestoreRefused(c) \/ Indexes(c)

Next ==
  \/ \E c \in Clients : ClientStep(c)
  \/ Erase \/ Purge
  \/ TidyUpMarks
  \/ Restart
  \/ Tick

Spec == Init /\ [][Next]_clientVars
----------------------------------------------------------------------------
(* Properties *)

\* The tables, the index and every client have the shape the code gives them.
TypeOK ==
  /\ memories \in [Memories -> Row \cup {NoRow}]
  /\ recently_deleted \subseteq BinEntry
  /\ last_id \in 0..MaxMemories
  /\ last_text \in 0..MaxText
  /\ last_entry \in 0..MaxEntry
  /\ now \in 0..MaxTime
  /\ keyword_index \in [Memories -> 0..MaxText]
  /\ client \in [Clients -> ClientState]
  /\ app_changes \subseteq [id : 1..MaxEntry, at : 0..MaxTime]
  /\ let_go \subseteq Texts

\* A wording that is neither in force nor kept, nor let go by its owner.
CanBeFound(t) ==
  \/ \E m \in Memories : memories[m].text = t
  \/ \E b \in recently_deleted : b.row.text = t
  \/ t \in let_go

(***************************************************************************)
(* No wording anybody wrote is lost: it is in force, or it can be put back *)
(* from Recently deleted, or the owner erased it or its 30 days are over,  *)
(* however saves, edits, deletes and restores of one memory interleave.    *)
(***************************************************************************)
WordingKept == \A t \in 1..last_text : CanBeFound(t)

\* The step takes an entry of memory m out of Recently deleted.
TakenOut(m) == \E b \in recently_deleted \ recently_deleted' : b.mem = m

(***************************************************************************)
(* A deleted memory comes back only when the owner restores it: no edit    *)
(* and no tidy-up that was under way brings it back.                       *)
(***************************************************************************)
DeletedStaysDeleted ==
  [][\A m \in 1..last_id : ~Exists(m) => memories'[m] = NoRow \/ TakenOut(m)]_clientVars

(***************************************************************************)
(* The rows the limit counts never exceed it, whatever two clients do at   *)
(* the same time: the check is part of the change's own transaction.       *)
(***************************************************************************)
AppRowsWithinLimit == Cardinality(AppRowsLastHour) <= AppLimit

ChangesLastHour == {a \in app_changes : a.at + Hour > now}

(***************************************************************************)
(* In any rolling hour AI apps together make at most AppLimit changes.     *)
(***************************************************************************)
AppChangesPerHour == Cardinality(ChangesLastHour) <= AppLimit

(***************************************************************************)
(* An edit keeps what ADR-028 preserves, as it is when the edit commits: a *)
(* memory the tidy-up superseded or invalidated does not come back.        *)
(***************************************************************************)
EditKeepsMarks ==
  [][\A c \in Clients :
       client[c].pc = "editing" /\ client'[c].pc = "indexing" =>
         LET m == client[c].mem
         IN  /\ memories'[m].superseded_by = memories[m].superseded_by
             /\ memories[m].marks \ {"archived"} \subseteq memories'[m].marks]_clientVars

(***************************************************************************)
(* Once no request is between its commit and its index update, an active   *)
(* memory is found under its present wording.                              *)
(***************************************************************************)
IndexCurrent ==
  (\A c \in Clients : client[c].pc # "indexing") =>
    \A m \in Memories : Active(memories[m]) => keyword_index[m] = memories[m].text

============================================================================
