----------------------- MODULE RecentlyDeletedProofs -----------------------
(***************************************************************************)
(* What holds of Recently deleted for any clients, any limits and any mix  *)
(* of requests: type correctness; that no wording is lost; that a deleted  *)
(* memory stays deleted; and that the rows counted against the apps' limit *)
(* never exceed it.                                                        *)
(***************************************************************************)
EXTENDS RecentlyDeleted, FiniteSetTheorems, TLAPS

USE DEF clientVars, binVars, idVars

----------------------------------------------------------------------------
(* Rows *)

LEMMA RowFacts ==
  /\ NoRow \notin Row
  /\ \A text \in Texts : NewRow(text) \in Row
  /\ \A row \in Row, text \in Texts :
       EditedRow(row, text) \in Row /\ EditedRow(row, text).text = text
<1>1. NoRow \notin Row
  BY ClientAssumption DEF Row, NoRow, Texts
<1>2. \A text \in Texts : NewRow(text) \in Row
  BY ClientAssumption DEF Row, NewRow, Texts, NoMemory
<1>3. ASSUME NEW row \in Row, NEW text \in Texts
      PROVE  EditedRow(row, text) \in Row /\ EditedRow(row, text).text = text
  <2>1. row.marks \ {"archived"} \in SUBSET Marks
    BY DEF Row
  <2> QED
    BY <2>1 DEF Row, EditedRow
<1> QED
  BY <1>1, <1>2, <1>3

\* A copy in the bin has the shape of an entry.
LEMMA EntryTyped ==
  ASSUME TypeOK, last_entry < MaxEntry,
         NEW m \in Memories, NEW row \in Row, NEW kind \in {"deleted", "replaced"},
         NEW c \in Clients
  PROVE  /\ [id |-> last_entry + 1, mem |-> m, row |-> row, kind |-> kind,
             by |-> c, at |-> now] \in BinEntry
         /\ last_entry + 1 \in 1..MaxEntry
BY ClientAssumption DEF TypeOK, BinEntry

\* What a client does next has the shape of a client.
LEMMA ClientTyped ==
  ASSUME TypeOK, NEW c \in Clients
  PROVE  /\ Idle \in ClientState
         /\ \A m \in Memories, row \in Row :
              [pc |-> "editing", mem |-> m, row |-> row] \in ClientState
         /\ \A b \in BinEntry : [pc |-> "restoring", entry |-> b] \in ClientState
         /\ \A m \in Memories, text \in 0..MaxText :
              [pc |-> "indexing", mem |-> m, text |-> text] \in ClientState
         /\ client[c].pc = "editing" =>
              client[c].mem \in Memories /\ client[c].row \in Row
         /\ client[c].pc = "restoring" => client[c].entry \in BinEntry
         /\ client[c].pc = "indexing" =>
              client[c].mem \in Memories /\ client[c].text \in 0..MaxText
<1>1. client[c] \in ClientState
  BY DEF TypeOK
<1> QED
  BY <1>1 DEF ClientState, Idle

----------------------------------------------------------------------------
(* Type correctness *)

LEMMA TypeInit == Init => TypeOK
<1> SUFFICES ASSUME Init PROVE TypeOK
  OBVIOUS
<1>1. client \in [Clients -> ClientState]
  BY DEF Init, ClientState, Idle
<1> QED
  BY <1>1, ClientAssumption DEF Init, TypeOK, Memories

\* The effects every change of the bin shares.
LEMMA KeepCopyTyped ==
  ASSUME TypeOK, NEW c \in Clients, NEW m \in Memories, NEW row \in Row,
         NEW kind \in {"deleted", "replaced"}, KeepCopy(c, m, row, kind)
  PROVE  /\ recently_deleted' \subseteq BinEntry
         /\ last_entry' \in 0..MaxEntry
         /\ app_changes' \subseteq [id : 1..MaxEntry, at : 0..MaxTime]
         /\ let_go' \subseteq Texts
<1>1. /\ [id |-> last_entry + 1, mem |-> m, row |-> row, kind |-> kind,
          by |-> c, at |-> now] \in BinEntry
      /\ last_entry + 1 \in 1..MaxEntry
  BY EntryTyped DEF KeepCopy
<1>2. [id |-> last_entry + 1, at |-> now] \in [id : 1..MaxEntry, at : 0..MaxTime]
  BY <1>1 DEF TypeOK
<1> QED
  BY <1>1, <1>2, ClientAssumption DEF KeepCopy, TypeOK

LEMMA TypeStep == TypeOK /\ [Next]_clientVars => TypeOK'
<1> SUFFICES ASSUME TypeOK, [Next]_clientVars PROVE TypeOK'
  OBVIOUS
<1>a. CASE UNCHANGED clientVars
  BY <1>a DEF TypeOK
<1>b. ASSUME NEW c \in Clients, Save(c) PROVE TypeOK'
  <2>1. last_id + 1 \in Memories /\ last_text + 1 \in Texts /\ last_text + 1 \in 0..MaxText
    BY <1>b, ClientAssumption DEF Save, TypeOK, Memories, Texts
  <2>2. memories' \in [Memories -> Row \cup {NoRow}]
    BY <1>b, <2>1, RowFacts DEF Save, TypeOK
  <2>3. client' \in [Clients -> ClientState]
    BY <1>b, <2>1, ClientTyped DEF Save, ThenIndexes, TypeOK
  <2> QED
    BY <1>b, <2>1, <2>2, <2>3, ClientAssumption DEF Save, TypeOK, Memories, Texts
<1>c. ASSUME NEW c \in Clients, EditReads(c) PROVE TypeOK'
  <2>1. PICK m \in Memories :
          /\ Exists(m)
          /\ client' = [client EXCEPT ![c] = [pc |-> "editing", mem |-> m, row |-> memories[m]]]
    BY <1>c DEF EditReads
  <2>2. memories[m] \in Row
    BY <2>1 DEF TypeOK, Exists
  <2>3. client' \in [Clients -> ClientState]
    BY <2>1, <2>2, ClientTyped DEF TypeOK
  <2> QED
    BY <1>c, <2>3 DEF EditReads, TypeOK
<1>d. ASSUME NEW c \in Clients, EditCommits(c) PROVE TypeOK'
  <2> DEFINE m == client[c].mem
  <2>1. m \in Memories /\ client[c].row \in Row
    BY <1>d, ClientTyped DEF EditCommits
  <2>2. memories[m] \in Row
    BY <1>d, <2>1 DEF EditCommits, TypeOK, Exists
  <2>3. last_text + 1 \in Texts /\ last_text + 1 \in 0..MaxText
    BY <1>d, ClientAssumption DEF EditCommits, TypeOK, Texts
  <2>4. memories' \in [Memories -> Row \cup {NoRow}]
    BY <1>d, <2>1, <2>3, RowFacts DEF EditCommits, TypeOK
  <2>5. client' \in [Clients -> ClientState]
    BY <1>d, <2>1, <2>3, ClientTyped DEF EditCommits, ThenIndexes, TypeOK
  <2>6. KeepCopy(c, m, memories[m], "replaced")
    BY <1>d DEF EditCommits
  <2> HIDE DEF m
  <2> QED
    BY <1>d, <2>1, <2>2, <2>3, <2>4, <2>5, <2>6, KeepCopyTyped DEF EditCommits, TypeOK
<1>e. ASSUME NEW c \in Clients, Delete(c) PROVE TypeOK'
  <2>1. PICK m \in Memories :
          /\ Exists(m)
          /\ KeepCopy(c, m, memories[m], "deleted")
          /\ memories' = [memories EXCEPT ![m] = NoRow]
          /\ ThenIndexes(c, m, 0)
    BY <1>e DEF Delete
  <2>2. memories[m] \in Row
    BY <2>1 DEF TypeOK, Exists
  <2>3. client' \in [Clients -> ClientState]
    BY <2>1, ClientTyped, ClientAssumption DEF ThenIndexes, TypeOK
  <2>4. memories' \in [Memories -> Row \cup {NoRow}]
    BY <2>1 DEF TypeOK
  <2> QED
    BY <1>e, <2>1, <2>2, <2>3, <2>4, KeepCopyTyped DEF Delete, TypeOK
<1>f. ASSUME NEW c \in Clients, DeleteMissing(c) PROVE TypeOK'
  <2>1. PICK m \in 1..last_id : ThenIndexes(c, m, 0)
    BY <1>f DEF DeleteMissing
  <2>2. m \in Memories
    BY ClientAssumption DEF TypeOK, Memories
  <2>3. client' \in [Clients -> ClientState]
    BY <2>1, <2>2, ClientTyped, ClientAssumption DEF ThenIndexes, TypeOK
  <2> QED
    BY <1>f, <2>3 DEF DeleteMissing, TypeOK
<1>g. ASSUME NEW c \in Clients, RestoreReads(c) PROVE TypeOK'
  <2>1. PICK b \in recently_deleted :
          client' = [client EXCEPT ![c] = [pc |-> "restoring", entry |-> b]]
    BY <1>g DEF RestoreReads
  <2>2. client' \in [Clients -> ClientState]
    BY <2>1, ClientTyped DEF TypeOK
  <2> QED
    BY <1>g, <2>2 DEF RestoreReads, TypeOK
<1>h. ASSUME NEW c \in Clients, RestoreCommits(c) PROVE TypeOK'
  <2> DEFINE b == client[c].entry
  <2>1. b \in BinEntry
    BY <1>h, ClientTyped DEF RestoreCommits
  <2>2. b.mem \in Memories /\ b.row \in Row /\ b.row.text \in 0..MaxText
    BY <2>1, ClientAssumption DEF BinEntry, Row, Texts
  <2>3. memories' \in [Memories -> Row \cup {NoRow}]
    BY <1>h, <2>2 DEF RestoreCommits, TypeOK
  <2>4. client' \in [Clients -> ClientState]
    BY <1>h, <2>2, ClientTyped DEF RestoreCommits, ThenIndexes, TypeOK
  <2>5. recently_deleted' \subseteq BinEntry /\ last_entry' \in 0..MaxEntry
    <3>1. CASE Exists(b.mem)
      <4>1. memories[b.mem] \in Row
        BY <3>1, <2>2 DEF Exists, TypeOK
      <4>2. /\ [id |-> last_entry + 1, mem |-> b.mem, row |-> memories[b.mem],
                kind |-> "replaced", by |-> c, at |-> now] \in BinEntry
            /\ last_entry + 1 \in 1..MaxEntry
        BY <1>h, <4>1, <2>2, EntryTyped DEF RestoreCommits
      <4> QED
        BY <1>h, <3>1, <4>2 DEF RestoreCommits, TypeOK
    <3>2. CASE ~Exists(b.mem)
      BY <1>h, <3>2 DEF RestoreCommits, TypeOK
    <3> QED
      BY <3>1, <3>2
  <2> QED
    BY <1>h, <2>3, <2>4, <2>5 DEF RestoreCommits, TypeOK
<1>i. ASSUME NEW c \in Clients, EditRefused(c) \/ RestoreRefused(c) PROVE TypeOK'
  <2>1. client' \in [Clients -> ClientState]
    BY <1>i, ClientTyped DEF EditRefused, RestoreRefused, Done, TypeOK
  <2> QED
    BY <1>i, <2>1 DEF EditRefused, RestoreRefused, TypeOK
<1>j. ASSUME NEW c \in Clients, Indexes(c) PROVE TypeOK'
  <2>1. client' \in [Clients -> ClientState] /\ keyword_index' \in [Memories -> 0..MaxText]
    BY <1>j, ClientTyped DEF Indexes, Done, TypeOK
  <2> QED
    BY <1>j, <2>1 DEF Indexes, TypeOK
<1>k. ASSUME NEW entries \in SUBSET recently_deleted, Erased(entries) PROVE TypeOK'
  <2>1. let_go' \subseteq Texts
    BY <1>k DEF Erased, TypeOK, BinEntry, Row
  <2> QED
    BY <1>k, <2>1 DEF Erased, TypeOK
<1>l. CASE TidyUpMarks
  <2>1. PICK m \in Memories :
          /\ Exists(m)
          /\ \/ \E by \in Memories \ {m} : Superseded(m, by)
             \/ \E mark \in Marks : Marked(m, mark)
    BY <1>l DEF TidyUpMarks
  <2>2. memories[m] \in Row
    BY <2>1 DEF Exists, TypeOK
  <2>3. memories' \in [Memories -> Row \cup {NoRow}]
    <3>1. \A by \in Memories : [memories[m] EXCEPT !.superseded_by = by] \in Row
      BY <2>2 DEF Row
    <3>2. ASSUME NEW mark \in Marks
          PROVE  [memories[m] EXCEPT !.marks = @ \cup {mark}] \in Row
      <4>1. memories[m].marks \cup {mark} \in SUBSET Marks
        BY <2>2 DEF Row
      <4> QED
        BY <2>2, <4>1 DEF Row
    <3> QED
      BY <2>1, <3>1, <3>2 DEF Superseded, Marked, TypeOK
  <2> QED
    BY <1>l, <2>3 DEF TidyUpMarks, TypeOK
<1>m. CASE Restart
  <2>1. client' \in [Clients -> ClientState]
    BY <1>m DEF Restart, ClientState, Idle
  <2>2. keyword_index' \in [Memories -> 0..MaxText]
    BY <1>m, ClientAssumption DEF Restart, TypeOK, Active, Row, NoRow, Texts
  <2> QED
    BY <1>m, <2>1, <2>2 DEF Restart, TypeOK
<1>n. CASE Tick
  BY <1>n, ClientAssumption DEF Tick, TypeOK
<1> QED
  BY <1>a, <1>b, <1>c, <1>d, <1>e, <1>f, <1>g, <1>h, <1>i, <1>j, <1>k, <1>l, <1>m, <1>n
  DEF Next, ClientStep, Erase, Purge

\* The tables, the keyword index and every client keep their shape.
THEOREM TypeCorrect == Spec => []TypeOK
<1> QED
  BY TypeInit, TypeStep, PTL DEF Spec

----------------------------------------------------------------------------
(* No wording is lost *)

(***************************************************************************)
(* Beside the types, the argument needs that a row is written over only by *)
(* a change that copies it: a fresh id has no row yet, and no entry can be *)
(* restored to a memory that is still to be made.                          *)
(***************************************************************************)
IdsAreFresh ==
  /\ \A m \in Memories : m > last_id => ~Exists(m)
  /\ \A b \in recently_deleted : b.mem <= last_id

WordingInv == TypeOK /\ IdsAreFresh /\ WordingKept

\* A wording that can be found stays so when rows and entries are only added,
\* let go, or moved between the two tables.
LEMMA FoundAgain ==
  ASSUME NEW t, CanBeFound(t),
         \A m \in Memories :
            \/ memories'[m].text = memories[m].text
            \/ \E b \in recently_deleted' : b.row.text = memories[m].text
            \/ memories[m].text # t,
         \A b \in recently_deleted \ recently_deleted' :
            \/ \E m \in Memories : memories'[m].text = b.row.text
            \/ b.row.text \in let_go',
         let_go \subseteq let_go'
  PROVE  CanBeFound(t)'
<1>1. CASE \E m \in Memories : memories[m].text = t
  <2>1. PICK m \in Memories : memories[m].text = t
    BY <1>1
  <2> QED
    BY <2>1 DEF CanBeFound
<1>2. CASE \E b \in recently_deleted : b.row.text = t
  <2>1. PICK b \in recently_deleted : b.row.text = t
    BY <1>2
  <2>2. CASE b \in recently_deleted'
    BY <2>1, <2>2 DEF CanBeFound
  <2>3. CASE b \notin recently_deleted'
    BY <2>1, <2>3 DEF CanBeFound
  <2> QED
    BY <2>2, <2>3
<1>3. CASE t \in let_go
  BY <1>3 DEF CanBeFound
<1> QED
  BY <1>1, <1>2, <1>3 DEF CanBeFound

LEMMA WordingInit == Init => WordingInv
<1> SUFFICES ASSUME Init PROVE WordingInv
  OBVIOUS
<1>1. TypeOK
  BY TypeInit
<1>2. IdsAreFresh
  BY DEF Init, IdsAreFresh, Exists
<1>3. WordingKept
  BY DEF Init, WordingKept
<1> QED
  BY <1>1, <1>2, <1>3 DEF WordingInv

\* What KeepCopy puts in the bin, and that it takes nothing out.
LEMMA CopyIsKept ==
  ASSUME NEW c, NEW m, NEW row, NEW kind, KeepCopy(c, m, row, kind)
  PROVE  /\ recently_deleted \subseteq recently_deleted'
         /\ \E b \in recently_deleted' : b.row = row
         /\ \A b \in recently_deleted' : b \in recently_deleted \/ b.mem = m
         /\ let_go' = let_go
<1> DEFINE copy == [id |-> last_entry + 1, mem |-> m, row |-> row, kind |-> kind,
                    by |-> c, at |-> now]
<1>1. copy.row = row /\ copy.mem = m
  OBVIOUS
<1>2. recently_deleted' = recently_deleted \cup {copy} /\ let_go' = let_go
  BY DEF KeepCopy
<1> HIDE DEF copy
<1> QED
  BY <1>1, <1>2

\* A fresh id stays without a row, and without an entry in the bin.
LEMMA FreshStep == TypeOK /\ IdsAreFresh /\ [Next]_clientVars => IdsAreFresh'
<1> SUFFICES ASSUME TypeOK, IdsAreFresh, [Next]_clientVars PROVE IdsAreFresh'
  OBVIOUS
<1>a. CASE UNCHANGED <<memories, recently_deleted, last_id>>
  BY <1>a DEF IdsAreFresh, Exists
<1>b. ASSUME NEW c \in Clients, Save(c) PROVE IdsAreFresh'
  <2>1. last_id \in Nat /\ last_id + 1 \in Memories
    BY <1>b, ClientAssumption DEF Save, TypeOK, Memories
  <2>2. memories' = [memories EXCEPT ![last_id + 1] = NewRow(last_text + 1)]
        /\ last_id' = last_id + 1 /\ recently_deleted' = recently_deleted
    BY <1>b DEF Save
  <2> QED
    BY <2>1, <2>2 DEF IdsAreFresh, Exists, TypeOK, BinEntry, Memories
<1>c. ASSUME NEW m \in Memories, Exists(m), NEW row, NEW c, NEW kind,
             KeepCopy(c, m, memories[m], kind), memories' = [memories EXCEPT ![m] = row],
             last_id' = last_id
      PROVE  IdsAreFresh'
  <2>1. m <= last_id
    BY <1>c, ClientAssumption DEF IdsAreFresh, TypeOK, Memories
  <2>2. \A b \in recently_deleted' : b \in recently_deleted \/ b.mem = m
    BY <1>c, CopyIsKept
  <2> QED
    BY <1>c, <2>1, <2>2 DEF IdsAreFresh, Exists, TypeOK, BinEntry, Memories
<1>d. ASSUME NEW c \in Clients, EditCommits(c) PROVE IdsAreFresh'
  <2>1. client[c].mem \in Memories
    BY <1>d, ClientTyped DEF EditCommits
  <2> QED
    BY <1>c, <1>d, <2>1 DEF EditCommits
<1>e. ASSUME NEW c \in Clients, Delete(c) PROVE IdsAreFresh'
  BY <1>c, <1>e DEF Delete
<1>f. ASSUME NEW c \in Clients, RestoreCommits(c) PROVE IdsAreFresh'
  <2> DEFINE b == client[c].entry
             copy == [id |-> last_entry + 1, mem |-> b.mem, row |-> memories[b.mem],
                      kind |-> "replaced", by |-> c, at |-> now]
  <2>1. b \in recently_deleted /\ b.mem \in Memories /\ b.mem <= last_id
    BY <1>f, ClientTyped DEF RestoreCommits, StillThere, IdsAreFresh, BinEntry
  <2>2. /\ recently_deleted' \subseteq recently_deleted \cup {copy} /\ copy.mem = b.mem
        /\ memories' = [memories EXCEPT ![b.mem] = b.row] /\ last_id' = last_id
    BY <1>f DEF RestoreCommits
  <2> HIDE DEF b, copy
  <2> QED
    BY <2>1, <2>2, ClientAssumption DEF IdsAreFresh, Exists, TypeOK, Memories
<1>g. ASSUME NEW entries, Erased(entries) PROVE IdsAreFresh'
  BY <1>g DEF Erased, IdsAreFresh, Exists
<1>h. CASE TidyUpMarks
  <2>1. PICK m \in Memories : Exists(m) /\ \E row : memories' = [memories EXCEPT ![m] = row]
    BY <1>h DEF TidyUpMarks, Superseded, Marked
  <2> QED
    BY <1>h, <2>1 DEF TidyUpMarks, IdsAreFresh, Exists, TypeOK
<1> QED
  BY <1>a, <1>b, <1>d, <1>e, <1>f, <1>g, <1>h
  DEF Next, ClientStep, Erase, Purge, EditReads, EditRefused, DeleteMissing, RestoreReads,
      RestoreRefused, Indexes, Restart, Tick

LEMMA WordingStep == WordingInv /\ [Next]_clientVars => WordingInv'
<1> SUFFICES ASSUME WordingInv, [Next]_clientVars PROVE WordingKept'
  BY TypeStep, FreshStep DEF WordingInv
<1>0. TypeOK /\ IdsAreFresh /\ WordingKept
  BY DEF WordingInv
<1>a. CASE UNCHANGED <<memories, recently_deleted, let_go, idVars>>
  BY <1>0, <1>a DEF WordingKept, CanBeFound
<1>b. ASSUME NEW c \in Clients, Save(c) PROVE WordingKept'
  <2>1. last_id \in Nat /\ last_text \in Nat /\ last_id + 1 \in Memories
    BY <1>0, <1>b, ClientAssumption DEF Save, TypeOK, Memories
  <2>2. memories[last_id + 1].text = 0
    BY <1>0, <2>1 DEF IdsAreFresh, Exists, NoRow
  <2>3. memories' = [memories EXCEPT ![last_id + 1] = NewRow(last_text + 1)]
        /\ last_id' = last_id + 1 /\ last_text' = last_text + 1
        /\ recently_deleted' = recently_deleted /\ let_go' = let_go
    BY <1>b DEF Save
  <2>4. ASSUME NEW t \in 1..last_text PROVE CanBeFound(t)'
    <3>1. CanBeFound(t)
      BY <1>0 DEF WordingKept
    <3>2. \A m \in Memories : memories'[m].text = memories[m].text \/ memories[m].text # t
      BY <1>0, <2>1, <2>2, <2>3 DEF TypeOK
    <3> QED
      BY <2>3, <3>1, <3>2, FoundAgain
  <2>5. ASSUME NEW t, t = last_text + 1 PROVE CanBeFound(t)'
    <3>1. memories'[last_id + 1].text = t
      BY <1>0, <2>1, <2>3, <2>5 DEF NewRow, TypeOK
    <3> QED
      BY <2>1, <3>1 DEF CanBeFound
  <2> QED
    BY <2>1, <2>3, <2>4, <2>5 DEF WordingKept
<1>c. ASSUME NEW c \in Clients, EditCommits(c) PROVE WordingKept'
  <2> DEFINE m == client[c].mem
  <2>1. m \in Memories /\ client[c].row \in Row /\ Exists(m)
    BY <1>0, <1>c, ClientTyped DEF EditCommits
  <2>2. m <= last_id /\ last_text \in Nat
    BY <1>0, <2>1, ClientAssumption DEF IdsAreFresh, TypeOK, Memories
  <2>3. /\ KeepCopy(c, m, memories[m], "replaced")
        /\ memories' = [memories EXCEPT ![m] = EditedRow(client[c].row, last_text + 1)]
        /\ last_text' = last_text + 1 /\ last_id' = last_id
    BY <1>c DEF EditCommits
  <2> HIDE DEF m
  <2>4. /\ recently_deleted \subseteq recently_deleted'
        /\ \E b \in recently_deleted' : b.row = memories[m]
        /\ \A b \in recently_deleted' : b \in recently_deleted \/ b.mem = m
        /\ let_go' = let_go
    BY <2>3, CopyIsKept
  <2>5. ASSUME NEW t \in 1..last_text PROVE CanBeFound(t)'
    <3>1. CanBeFound(t)
      BY <1>0 DEF WordingKept
    <3>2. \A n \in Memories : \/ memories'[n].text = memories[n].text
                              \/ \E b \in recently_deleted' : b.row.text = memories[n].text
      BY <1>0, <2>1, <2>3, <2>4 DEF TypeOK
    <3> QED
      BY <2>4, <3>1, <3>2, FoundAgain
  <2>6. last_text + 1 \in Texts
    BY <1>c, <2>2, ClientAssumption DEF EditCommits, Texts, TypeOK
  <2>7. ASSUME NEW t, t = last_text + 1 PROVE CanBeFound(t)'
    <3>1. memories'[m].text = t
      BY <1>0, <2>1, <2>3, <2>6, <2>7, RowFacts DEF TypeOK
    <3> QED
      BY <2>1, <3>1 DEF CanBeFound
  <2> QED
    BY <2>2, <2>3, <2>5, <2>7 DEF WordingKept
<1>d. ASSUME NEW c \in Clients, Delete(c) PROVE WordingKept'
  <2>1. PICK m \in Memories :
          /\ Exists(m)
          /\ KeepCopy(c, m, memories[m], "deleted")
          /\ memories' = [memories EXCEPT ![m] = NoRow]
    BY <1>d DEF Delete
  <2>2. m <= last_id /\ last_id' = last_id /\ last_text' = last_text
    BY <1>0, <1>d, <2>1, ClientAssumption DEF Delete, IdsAreFresh, TypeOK, Memories
  <2>3. /\ recently_deleted \subseteq recently_deleted'
        /\ \E b \in recently_deleted' : b.row = memories[m]
        /\ \A b \in recently_deleted' : b \in recently_deleted \/ b.mem = m
        /\ let_go' = let_go
    BY <2>1, CopyIsKept
  <2>4. ASSUME NEW t \in 1..last_text PROVE CanBeFound(t)'
    <3>1. CanBeFound(t)
      BY <1>0 DEF WordingKept
    <3>2. \A n \in Memories : \/ memories'[n].text = memories[n].text
                              \/ \E b \in recently_deleted' : b.row.text = memories[n].text
      BY <1>0, <2>1, <2>3 DEF TypeOK
    <3> QED
      BY <2>3, <3>1, <3>2, FoundAgain
  <2> QED
    BY <2>2, <2>4 DEF WordingKept
<1>e. ASSUME NEW c \in Clients, RestoreCommits(c) PROVE WordingKept'
  <2> DEFINE b == client[c].entry
             m == b.mem
  <2>1. b \in recently_deleted /\ m \in Memories /\ m <= last_id
    BY <1>0, <1>e, ClientTyped DEF RestoreCommits, StillThere, IdsAreFresh, BinEntry
  <2>2. /\ recently_deleted \ {b} \subseteq recently_deleted'
        /\ Exists(m) => \E x \in recently_deleted' : x.row = memories[m]
        /\ \A x \in recently_deleted' : x \in recently_deleted \/ x.mem = m
        /\ memories' = [memories EXCEPT ![m] = b.row]
        /\ let_go' = let_go /\ last_id' = last_id /\ last_text' = last_text
    <3> DEFINE copy == [id |-> last_entry + 1, mem |-> m, row |-> memories[m],
                        kind |-> "replaced", by |-> c, at |-> now]
    <3>1. copy.row = memories[m] /\ copy.mem = m
      OBVIOUS
    <3>2. recently_deleted' = (recently_deleted \ {b}) \cup IF Exists(m) THEN {copy} ELSE {}
      BY <1>e DEF RestoreCommits
    <3>3. /\ memories' = [memories EXCEPT ![m] = b.row]
          /\ let_go' = let_go /\ last_id' = last_id /\ last_text' = last_text
      BY <1>e DEF RestoreCommits
    <3> HIDE DEF copy, b, m
    <3> QED
      BY <3>1, <3>2, <3>3
  <2> HIDE DEF b, m
  <2>3. ASSUME NEW t \in 1..last_text PROVE CanBeFound(t)'
    <3>1. CanBeFound(t)
      BY <1>0 DEF WordingKept
    <3>2. ~Exists(m) => memories[m].text # t
      BY DEF Exists, NoRow
    <3>3. \A n \in Memories : \/ memories'[n].text = memories[n].text
                              \/ \E x \in recently_deleted' : x.row.text = memories[n].text
                              \/ memories[n].text # t
      BY <1>0, <2>1, <2>2, <3>2 DEF TypeOK
    <3>4. \E n \in Memories : memories'[n].text = b.row.text
      BY <1>0, <2>1, <2>2 DEF TypeOK
    <3> QED
      BY <2>2, <3>1, <3>3, <3>4, FoundAgain
  <2> QED
    BY <2>2, <2>3 DEF WordingKept
<1>f. ASSUME NEW entries \in SUBSET recently_deleted, Erased(entries)
      PROVE  WordingKept'
  <2>1. ASSUME NEW t \in 1..last_text PROVE CanBeFound(t)'
    <3>1. CanBeFound(t)
      BY <1>0 DEF WordingKept
    <3> QED
      BY <1>f, <3>1, FoundAgain DEF Erased
  <2> QED
    BY <1>f, <2>1 DEF Erased, WordingKept
<1>g. CASE TidyUpMarks
  <2>1. PICK m \in Memories :
          /\ Exists(m)
          /\ \/ \E by \in Memories \ {m} : Superseded(m, by)
             \/ \E mark \in Marks : Marked(m, mark)
    BY <1>g DEF TidyUpMarks
  <2>2. /\ \A n \in Memories : memories'[n].text = memories[n].text
        /\ \A n \in Memories : n # m => memories'[n] = memories[n]
    <3>1. \A by : [memories[m] EXCEPT !.superseded_by = by].text = memories[m].text
      BY <1>0, <2>1 DEF TypeOK, Exists, Row
    <3>2. \A mark : [memories[m] EXCEPT !.marks = @ \cup {mark}].text = memories[m].text
      BY <1>0, <2>1 DEF TypeOK, Exists, Row
    <3> QED
      BY <1>0, <2>1, <3>1, <3>2, ZenonT(60) DEF TypeOK, Superseded, Marked
  <2>3. m <= last_id /\ UNCHANGED <<recently_deleted, let_go, last_id, last_text>>
    BY <1>0, <1>g, <2>1, ClientAssumption DEF TidyUpMarks, IdsAreFresh, TypeOK, Memories
  <2> QED
    BY <1>0, <2>2, <2>3 DEF WordingKept, CanBeFound
<1> QED
  BY <1>a, <1>b, <1>c, <1>d, <1>e, <1>f, <1>g
  DEF Next, ClientStep, Erase, Purge, EditReads, EditRefused, DeleteMissing, RestoreReads,
      RestoreRefused, Indexes, Restart, Tick

\* No wording is lost: it is in force, kept, or let go by its owner.
THEOREM NoWordingLost == Spec => []WordingKept
<1>1. WordingInv => WordingKept
  BY DEF WordingInv
<1> QED
  BY WordingInit, WordingStep, <1>1, PTL DEF Spec

----------------------------------------------------------------------------
(* What is deleted stays deleted *)

LEMMA DeletedStep ==
  ASSUME TypeOK, [Next]_clientVars, NEW m \in 1..last_id, ~Exists(m)
  PROVE  memories'[m] = NoRow \/ TakenOut(m)
<1>0. m \in Memories /\ memories[m] = NoRow /\ m # last_id + 1
  BY ClientAssumption DEF TypeOK, Memories, Exists
<1>a. CASE UNCHANGED memories
  BY <1>0, <1>a
<1>b. ASSUME NEW c \in Clients, Save(c) PROVE memories'[m] = NoRow
  BY <1>0, <1>b DEF Save, TypeOK
<1>c. ASSUME NEW c \in Clients, EditCommits(c) PROVE memories'[m] = NoRow
  BY <1>0, <1>c DEF EditCommits, TypeOK, Exists
<1>d. ASSUME NEW c \in Clients, Delete(c) PROVE memories'[m] = NoRow
  BY <1>0, <1>d DEF Delete, TypeOK
<1>e. ASSUME NEW c \in Clients, RestoreCommits(c)
      PROVE  memories'[m] = NoRow \/ TakenOut(m)
  <2> DEFINE b == client[c].entry
  <2>1. b \in recently_deleted /\ memories' = [memories EXCEPT ![b.mem] = b.row]
    BY <1>e DEF RestoreCommits, StillThere
  <2>2. CASE b.mem = m
    <3>1. recently_deleted' = recently_deleted \ {b}
      BY <1>0, <1>e, <2>2 DEF RestoreCommits, Exists
    <3> QED
      BY <2>1, <2>2, <3>1 DEF TakenOut
  <2>3. CASE b.mem # m
    BY <1>0, <2>1, <2>3 DEF TypeOK
  <2> QED
    BY <2>2, <2>3
<1>f. CASE TidyUpMarks
  BY <1>0, <1>f DEF TidyUpMarks, Superseded, Marked, TypeOK, Exists
<1> QED
  BY <1>a, <1>b, <1>c, <1>d, <1>e, <1>f
  DEF Next, ClientStep, Erase, Purge, Erased, EditReads, EditRefused, DeleteMissing,
      RestoreReads, RestoreRefused, Indexes, Restart, Tick

\* A deleted memory comes back only when the owner takes its entry out of the bin.
THEOREM DeletedMemoriesStayDeleted == Spec => DeletedStaysDeleted
<1>1. TypeOK /\ [Next]_clientVars =>
        [\A m \in 1..last_id : ~Exists(m) => memories'[m] = NoRow \/ TakenOut(m)]_clientVars
  BY DeletedStep
<1> QED
  BY <1>1, TypeCorrect, PTL DEF Spec, DeletedStaysDeleted

----------------------------------------------------------------------------
(* The limit on apps *)

\* No app is ever between the reads and the commit of a restore.
OnlyOwnersRestore == \A c \in Clients : client[c].pc = "restoring" => c \in Owners

LimitInv ==
  /\ TypeOK
  /\ OnlyOwnersRestore
  /\ IsFiniteSet(recently_deleted)
  /\ AppRowsWithinLimit

\* Rows that only leave, or grow older, stay within the limit.
LEMMA FewerRows ==
  ASSUME LimitInv, IsFiniteSet(recently_deleted'), AppRowsLastHour' \subseteq AppRowsLastHour
  PROVE  AppRowsWithinLimit'
<1>1. IsFiniteSet(AppRowsLastHour)
  BY FS_Subset DEF LimitInv, AppRowsLastHour
<1>2. Cardinality(AppRowsLastHour') <= Cardinality(AppRowsLastHour)
      /\ Cardinality(AppRowsLastHour) \in Nat /\ Cardinality(AppRowsLastHour') \in Nat
  BY <1>1, FS_Subset, FS_CardinalityType
<1> QED
  BY <1>2, ClientAssumption DEF LimitInv, AppRowsWithinLimit

\* A copy kept for a client that passed the check stays within the limit.
LEMMA CheckedCopy ==
  ASSUME LimitInv, NEW c \in Clients, NEW m, NEW row, NEW kind,
         WithinLimit(c), KeepCopy(c, m, row, kind), now' = now
  PROVE  IsFiniteSet(recently_deleted') /\ AppRowsWithinLimit'
<1> DEFINE copy == [id |-> last_entry + 1, mem |-> m, row |-> row, kind |-> kind,
                    by |-> c, at |-> now]
<1>1. recently_deleted' = recently_deleted \cup {copy} /\ copy.by = c
  BY DEF KeepCopy
<1> HIDE DEF copy
<1>2. IsFiniteSet(recently_deleted')
  BY <1>1, FS_AddElement DEF LimitInv
<1>3. CASE c \in Owners
  <2>1. c \notin Apps
    BY <1>3, ClientAssumption
  <2>2. AppRowsLastHour' \subseteq AppRowsLastHour
    BY <1>1, <2>1 DEF AppRowsLastHour
  <2> QED
    BY <1>2, <2>2, FewerRows
<1>4. CASE c \notin Owners
  <2>1. Cardinality(AppRowsLastHour) < AppLimit
    BY <1>4 DEF WithinLimit
  <2>2. IsFiniteSet(AppRowsLastHour)
    BY FS_Subset DEF LimitInv, AppRowsLastHour
  <2>3. AppRowsLastHour' \subseteq AppRowsLastHour \cup {copy}
    BY <1>1 DEF AppRowsLastHour
  <2>4. /\ IsFiniteSet(AppRowsLastHour \cup {copy})
        /\ Cardinality(AppRowsLastHour \cup {copy}) <= Cardinality(AppRowsLastHour) + 1
        /\ Cardinality(AppRowsLastHour) \in Nat
    <3>1. Cardinality(AppRowsLastHour) \in Nat
      BY <2>2, FS_CardinalityType
    <3>2. /\ IsFiniteSet(AppRowsLastHour \cup {copy})
          /\ Cardinality(AppRowsLastHour \cup {copy}) =
               IF copy \in AppRowsLastHour THEN Cardinality(AppRowsLastHour)
                                          ELSE Cardinality(AppRowsLastHour) + 1
      BY <2>2, FS_AddElement
    <3> QED
      BY <3>1, <3>2
  <2>5. /\ Cardinality(AppRowsLastHour') <= Cardinality(AppRowsLastHour \cup {copy})
        /\ Cardinality(AppRowsLastHour') \in Nat
        /\ Cardinality(AppRowsLastHour \cup {copy}) \in Nat
    BY <2>3, <2>4, FS_Subset, FS_CardinalityType
  <2> QED
    BY <1>2, <2>1, <2>4, <2>5, ClientAssumption DEF AppRowsWithinLimit
<1> QED
  BY <1>3, <1>4

LEMMA LimitInit == Init => LimitInv
<1> SUFFICES ASSUME Init PROVE LimitInv
  OBVIOUS
<1>1. AppRowsLastHour = {} /\ recently_deleted = {}
  BY DEF Init, AppRowsLastHour
<1> QED
  BY <1>1, TypeInit, FS_EmptySet, ClientAssumption
  DEF Init, LimitInv, OnlyOwnersRestore, Idle, AppRowsWithinLimit

LEMMA RestoreStep == TypeOK /\ OnlyOwnersRestore /\ [Next]_clientVars => OnlyOwnersRestore'
<1> SUFFICES ASSUME TypeOK, OnlyOwnersRestore, [Next]_clientVars,
                    NEW d \in Clients, client'[d].pc = "restoring"
             PROVE  d \in Owners
  BY DEF OnlyOwnersRestore
<1>1. CASE client'[d] = client[d]
  BY <1>1 DEF OnlyOwnersRestore
<1>2. ASSUME NEW c \in Clients, RestoreReads(c) PROVE d \in Owners
  BY <1>1, <1>2 DEF RestoreReads, TypeOK
<1>3. CASE Restart
  BY <1>3 DEF Restart, Idle
<1>4. ASSUME NEW c \in Clients, NEW m, NEW text, ThenIndexes(c, m, text) PROVE d \in Owners
  BY <1>1, <1>4 DEF ThenIndexes, TypeOK
<1>5. ASSUME NEW c \in Clients, Done(c) PROVE d \in Owners
  BY <1>1, <1>5 DEF Done, Idle, TypeOK
<1>6. ASSUME NEW c \in Clients, EditReads(c) PROVE d \in Owners
  BY <1>1, <1>6 DEF EditReads, TypeOK
<1> QED
  BY <1>1, <1>2, <1>3, <1>4, <1>5, <1>6
  DEF Next, ClientStep, Erase, Purge, Erased, Save, EditCommits, EditRefused, Delete,
      DeleteMissing, RestoreCommits, RestoreRefused, Indexes, TidyUpMarks, Tick

LEMMA LimitStep == LimitInv /\ [Next]_clientVars => LimitInv'
<1> SUFFICES ASSUME LimitInv, [Next]_clientVars
             PROVE  IsFiniteSet(recently_deleted') /\ AppRowsWithinLimit'
  BY TypeStep, RestoreStep DEF LimitInv
<1>a. CASE UNCHANGED <<recently_deleted, now>>
  BY <1>a DEF LimitInv, AppRowsWithinLimit, AppRowsLastHour
<1>b. ASSUME NEW c \in Clients, EditCommits(c)
      PROVE  IsFiniteSet(recently_deleted') /\ AppRowsWithinLimit'
  BY <1>b, CheckedCopy DEF EditCommits
<1>c. ASSUME NEW c \in Clients, Delete(c)
      PROVE  IsFiniteSet(recently_deleted') /\ AppRowsWithinLimit'
  BY <1>c, CheckedCopy DEF Delete
<1>d. ASSUME NEW c \in Clients, RestoreCommits(c)
      PROVE  IsFiniteSet(recently_deleted') /\ AppRowsWithinLimit'
  <2> DEFINE b == client[c].entry
             copy == [id |-> last_entry + 1, mem |-> b.mem, row |-> memories[b.mem],
                      kind |-> "replaced", by |-> c, at |-> now]
  <2>1. recently_deleted' \subseteq recently_deleted \cup {copy} /\ now' = now
    BY <1>d DEF RestoreCommits
  <2>2. copy.by \notin Apps
    <3>1. c \in Owners
      BY <1>d DEF RestoreCommits, LimitInv, OnlyOwnersRestore
    <3> QED
      BY <3>1, ClientAssumption
  <2> HIDE DEF copy
  <2>3. IsFiniteSet(recently_deleted')
    BY <2>1, FS_AddElement, FS_Subset DEF LimitInv
  <2>4. AppRowsLastHour' \subseteq AppRowsLastHour
    BY <2>1, <2>2 DEF AppRowsLastHour
  <2> QED
    BY <2>3, <2>4, FewerRows
<1>e. ASSUME NEW entries, Erased(entries)
      PROVE  IsFiniteSet(recently_deleted') /\ AppRowsWithinLimit'
  <2>1. IsFiniteSet(recently_deleted')
    BY <1>e, FS_Subset DEF Erased, LimitInv
  <2>2. AppRowsLastHour' \subseteq AppRowsLastHour
    BY <1>e DEF Erased, AppRowsLastHour
  <2> QED
    BY <2>1, <2>2, FewerRows
<1>f. CASE Tick
  <2>1. recently_deleted' = recently_deleted /\ now' = now + 1
    BY <1>f DEF Tick
  <2>2. AppRowsLastHour' \subseteq AppRowsLastHour
    BY <2>1, ClientAssumption DEF AppRowsLastHour, LimitInv, TypeOK, BinEntry
  <2> QED
    BY <2>1, <2>2, FewerRows DEF LimitInv
<1> QED
  BY <1>a, <1>b, <1>c, <1>d, <1>e, <1>f
  DEF Next, ClientStep, Erase, Purge, Save, EditReads, EditRefused, DeleteMissing,
      RestoreReads, RestoreRefused, Indexes, TidyUpMarks, Restart

\* The rows counted against the apps never exceed their limit.
THEOREM LimitHolds == Spec => []AppRowsWithinLimit
<1>1. LimitInv => AppRowsWithinLimit
  BY DEF LimitInv
<1> QED
  BY LimitInit, LimitStep, <1>1, PTL DEF Spec

----------------------------------------------------------------------------
(* The rolling limit, while the owner takes nothing out of the bin *)

\* Every change an app made in the last hour still has its row in the bin, and
\* no two changes share an entry id.
ChangesHaveRows ==
  \A a \in app_changes : a.at + Hour > now =>
    \E b \in AppRowsLastHour : b.id = a.id /\ b.at = a.at

EntryIdsAreFresh ==
  /\ \A b \in recently_deleted : b.id <= last_entry
  /\ \A a \in app_changes : a.id <= last_entry
  /\ \A a1, a2 \in app_changes : a1.id = a2.id => a1 = a2

NothingTaken == \A c \in Clients : client[c].pc # "restoring"

RateInv == LimitInv /\ ChangesHaveRows /\ EntryIdsAreFresh /\ NothingTaken

LEMMA RateInit == Init => RateInv
<1> SUFFICES ASSUME Init PROVE RateInv
  OBVIOUS
<1>1. ChangesHaveRows /\ EntryIdsAreFresh /\ NothingTaken
  BY DEF Init, ChangesHaveRows, EntryIdsAreFresh, NothingTaken, Idle
<1> QED
  BY <1>1, LimitInit DEF RateInv

\* A checked copy keeps the changes and their rows in step.
LEMMA CopyKeepsStep ==
  ASSUME RateInv, NEW c \in Clients, NEW m, NEW row, NEW kind,
         KeepCopy(c, m, row, kind), now' = now
  PROVE  ChangesHaveRows' /\ EntryIdsAreFresh'
<1> DEFINE copy == [id |-> last_entry + 1, mem |-> m, row |-> row, kind |-> kind,
                    by |-> c, at |-> now]
           change == [id |-> last_entry + 1, at |-> now]
<1>0. /\ last_entry \in Nat /\ now \in Nat
      /\ \A b \in recently_deleted : b.id \in Nat
      /\ \A a \in app_changes : a.id \in Nat /\ a.at \in Nat
  BY ClientAssumption DEF RateInv, LimitInv, TypeOK, BinEntry
<1>1. /\ copy.id = last_entry + 1 /\ copy.by = c /\ copy.at = now
      /\ change.id = last_entry + 1 /\ change.at = now
  OBVIOUS
<1>2. /\ recently_deleted' = recently_deleted \cup {copy}
      /\ app_changes' = IF c \in Apps THEN app_changes \cup {change} ELSE app_changes
      /\ last_entry' = last_entry + 1
  BY DEF KeepCopy
<1> HIDE DEF copy, change
<1>3. AppRowsLastHour \subseteq AppRowsLastHour'
  BY <1>2 DEF AppRowsLastHour
<1>4. EntryIdsAreFresh'
  <2>1. /\ \A b \in recently_deleted' : b.id <= last_entry'
        /\ \A a \in app_changes' : a.id <= last_entry'
    BY <1>0, <1>1, <1>2 DEF RateInv, EntryIdsAreFresh
  <2>2. \A a1, a2 \in app_changes' : a1.id = a2.id => a1 = a2
    BY <1>0, <1>1, <1>2 DEF RateInv, EntryIdsAreFresh
  <2> QED
    BY <2>1, <2>2 DEF EntryIdsAreFresh
<1>5. ASSUME NEW a \in app_changes', a.at + Hour > now
      PROVE  \E b \in AppRowsLastHour' : b.id = a.id /\ b.at = a.at
  <2>1. CASE a \in app_changes
    BY <1>3, <1>5, <2>1 DEF RateInv, ChangesHaveRows
  <2>2. CASE a \notin app_changes
    <3>1. c \in Apps /\ a = change
      BY <1>2, <2>2
    <3>2. copy \in AppRowsLastHour'
      BY <1>1, <1>2, <1>5, <3>1 DEF AppRowsLastHour
    <3> QED
      BY <1>1, <3>1, <3>2
  <2> QED
    BY <2>1, <2>2
<1> QED
  BY <1>4, <1>5 DEF ChangesHaveRows

LEMMA RateStep ==
  ASSUME Requests \cap {"restore", "erase"} = {}
  PROVE  RateInv /\ [Next]_clientVars => RateInv'
<1> SUFFICES ASSUME RateInv, [Next]_clientVars
             PROVE  ChangesHaveRows' /\ EntryIdsAreFresh' /\ NothingTaken'
  BY LimitStep DEF RateInv
<1>1. NothingTaken'
  <2> SUFFICES ASSUME NEW d \in Clients PROVE client'[d].pc # "restoring"
    BY DEF NothingTaken
  <2>0. client[d].pc # "restoring" /\ client \in [Clients -> ClientState]
    BY DEF RateInv, NothingTaken, LimitInv, TypeOK
  <2>1. CASE client'[d] = client[d]
    BY <2>0, <2>1
  <2>2. ASSUME NEW c \in Clients, NEW m, NEW text, ThenIndexes(c, m, text)
        PROVE  client'[d].pc # "restoring"
    BY <2>0, <2>2 DEF ThenIndexes
  <2>3. ASSUME NEW c \in Clients, Done(c) PROVE client'[d].pc # "restoring"
    BY <2>0, <2>3 DEF Done, Idle
  <2>4. ASSUME NEW c \in Clients, EditReads(c) PROVE client'[d].pc # "restoring"
    BY <2>0, <2>4 DEF EditReads
  <2>5. CASE Restart
    BY <2>5 DEF Restart, Idle
  <2> QED
    BY <2>1, <2>2, <2>3, <2>4, <2>5
    DEF Next, ClientStep, Erase, Purge, Erased, Save, EditCommits, EditRefused, Delete,
        DeleteMissing, RestoreReads, RestoreCommits, RestoreRefused, Indexes, TidyUpMarks, Tick
<1>a. CASE UNCHANGED <<recently_deleted, last_entry, app_changes, now>>
  <2>1. AppRowsLastHour' = AppRowsLastHour
    BY <1>a DEF AppRowsLastHour
  <2>2. ChangesHaveRows'
    BY <1>a, <2>1 DEF RateInv, ChangesHaveRows
  <2>3. EntryIdsAreFresh'
    BY <1>a DEF RateInv, EntryIdsAreFresh
  <2> QED
    BY <1>1, <2>2, <2>3
<1>b. ASSUME NEW c \in Clients, EditCommits(c) PROVE ChangesHaveRows' /\ EntryIdsAreFresh'
  BY <1>b, CopyKeepsStep DEF EditCommits
<1>c. ASSUME NEW c \in Clients, Delete(c) PROVE ChangesHaveRows' /\ EntryIdsAreFresh'
  BY <1>c, CopyKeepsStep DEF Delete
<1>d. ASSUME NEW c \in Clients, RestoreCommits(c) PROVE FALSE
  BY <1>d DEF RestoreCommits, RateInv, NothingTaken
<1>e. CASE Purge
  <2>1. /\ recently_deleted' = recently_deleted \ {b \in recently_deleted : b.at + Days30 < now}
        /\ UNCHANGED <<last_entry, app_changes, now>>
    BY <1>e DEF Purge, Erased
  <2>2. AppRowsLastHour' = AppRowsLastHour
    BY <2>1, ClientAssumption DEF AppRowsLastHour, RateInv, LimitInv, TypeOK, BinEntry
  <2> QED
    BY <1>1, <2>1, <2>2 DEF RateInv, ChangesHaveRows, EntryIdsAreFresh
<1>f. CASE Tick
  <2>1. now' = now + 1 /\ UNCHANGED <<recently_deleted, last_entry, app_changes>>
    BY <1>f DEF Tick
  <2>2. ASSUME NEW a \in app_changes, a.at + Hour > now'
        PROVE  \E b \in AppRowsLastHour' : b.id = a.id /\ b.at = a.at
    <3>1. a.at \in Nat /\ now \in Nat /\ Hour \in Nat
      BY ClientAssumption DEF RateInv, LimitInv, TypeOK
    <3>2. a.at + Hour > now
      BY <2>1, <2>2, <3>1
    <3>3. PICK b \in AppRowsLastHour : b.id = a.id /\ b.at = a.at
      BY <3>2 DEF RateInv, ChangesHaveRows
    <3>4. b \in AppRowsLastHour'
      BY <2>1, <2>2, <3>3, <3>1 DEF AppRowsLastHour
    <3> QED
      BY <3>3, <3>4
  <2> QED
    BY <1>1, <2>1, <2>2 DEF RateInv, ChangesHaveRows, EntryIdsAreFresh
<1>g. ~Erase
  BY DEF Erase
<1> QED
  BY <1>1, <1>a, <1>b, <1>c, <1>d, <1>e, <1>f, <1>g
  DEF Next, ClientStep, Save, EditReads, EditRefused, DeleteMissing,
      RestoreReads, RestoreRefused, Indexes, TidyUpMarks, Restart

\* The changes of the last hour are at most the rows of the last hour.
LEMMA ChangesWithinLimit ==
  ASSUME RateInv
  PROVE  AppChangesPerHour
<1> DEFINE rows == {b \in AppRowsLastHour : \E a \in ChangesLastHour : a.id = b.id}
           f == [b \in rows |-> CHOOSE a \in ChangesLastHour : a.id = b.id]
<1>1. IsFiniteSet(AppRowsLastHour)
  BY FS_Subset DEF RateInv, LimitInv, AppRowsLastHour
<1>2. IsFiniteSet(rows) /\ Cardinality(rows) <= Cardinality(AppRowsLastHour)
  BY <1>1, FS_Subset
<1>3. f \in Surjection(rows, ChangesLastHour)
  <2>1. \A b \in rows : f[b] \in ChangesLastHour /\ f[b].id = b.id
    OBVIOUS
  <2>2. ASSUME NEW a \in ChangesLastHour PROVE \E b \in rows : f[b] = a
    <3>1. PICK b \in AppRowsLastHour : b.id = a.id
      BY DEF RateInv, ChangesHaveRows, ChangesLastHour
    <3>2. b \in rows
      BY <3>1
    <3> QED
      BY <2>1, <3>1, <3>2 DEF RateInv, EntryIdsAreFresh, ChangesLastHour
  <2> QED
    BY <2>1, <2>2 DEF Surjection
<1> HIDE DEF f, rows
<1>4. IsFiniteSet(ChangesLastHour) /\ Cardinality(ChangesLastHour) <= Cardinality(rows)
  BY <1>2, <1>3, FS_Surjection
<1>5. /\ Cardinality(ChangesLastHour) \in Nat /\ Cardinality(rows) \in Nat
      /\ Cardinality(AppRowsLastHour) \in Nat
  BY <1>1, <1>2, <1>4, FS_CardinalityType
<1> QED
  BY <1>2, <1>4, <1>5, ClientAssumption DEF RateInv, LimitInv, AppRowsWithinLimit, AppChangesPerHour

\* While the owner neither restores nor erases, apps together make at most
\* AppLimit changes in any rolling hour, whatever restarts and the purge do.
THEOREM RateHolds ==
  ASSUME Requests \cap {"restore", "erase"} = {}
  PROVE  Spec => []AppChangesPerHour
<1>1. RateInv /\ [Next]_clientVars => RateInv'
  BY RateStep
<1>2. RateInv => AppChangesPerHour
  BY ChangesWithinLimit
<1> QED
  BY RateInit, <1>1, <1>2, PTL DEF Spec

============================================================================
