---------------------------- MODULE KeyLifecycle ----------------------------
(***************************************************************************)
(* The vault key: two credentials in the operating system's store (the     *)
(* main one every process reads, and a spare that exists while the main    *)
(* one is moved to Local persistence), the marker of an unfinished         *)
(* erasure, and the data sealed under a key.                               *)
(*                                                                         *)
(* Every operation runs under the one key lock (K1), so at most one is in  *)
(* progress; the lock goes when its process ends.  One action is one       *)
(* change to the store, the marker or the files, with the reads that lead  *)
(* to it, and the process may stop between any two.  Not modelled: stored  *)
(* values that are not 32 bytes, and the removal of open files (only       *)
(* systems where a file in use stays are modelled).                        *)
(***************************************************************************)
EXTENDS Naturals

CONSTANTS
  Folders,      \* the folders a process may open as its vault
  Home,         \* the folder the location record names at first
  Default,      \* where "start again" puts the vault
  OpenedFolders,\* which folders are opened beside the recorded one
  Reads,        \* Policy::reads, 5 in the code
  LocklessUse,  \* whether a process that took no vault lock may use a folder erased
  Faults,       \* what the store does wrong, see FaultKinds
  MaxFaults,    \* bound: how often it does
  MaxStops,     \* bound: how often a process stops midway
  MaxKeys,      \* bound: how many keys are ever made
  MaxErasures,  \* bound: how often the owner deletes everything
  MaxTrips      \* bound: how often a drive is taken out

FaultKinds ==
  {"no_entry",   \* a read of a credential that exists answers "no entry"
   "no_delete",  \* a delete reports success and leaves the credential
   "garbled",    \* a write stores other bytes
   "roaming",    \* a write does not take Local persistence
   "refused",    \* a write changes nothing
   "denied",     \* a file or the marker cannot be removed or written
   "roamed",     \* a main that is not Local is replaced by another computer's
   "lost"}       \* main is removed by something else

ASSUME KeyAssumption ==
  /\ Home \in Folders /\ Default \in Folders /\ Home # Default
  /\ OpenedFolders \subseteq Folders /\ LocklessUse \in BOOLEAN
  /\ Faults \subseteq FaultKinds
  /\ {Reads, MaxFaults, MaxStops, MaxKeys, MaxErasures, MaxTrips} \subseteq Nat
  /\ Reads > 0 /\ MaxKeys > 0

VARIABLES
  main, spare, \* the two credentials
  marker,      \* the folder the erased marker names, or no folder
  data,        \* per folder: the keys its files are sealed under
  vault_dir,   \* the folder the location record names
  away,        \* folders on a drive that is out
  op,          \* the operation that holds the key lock
  open_by,     \* the keys processes hold and the folders they use them in
  made,        \* the last key made
  faults, stops, erasures, trips, \* how much of each bound is spent
  erased       \* history: the keys an erasure has destroyed

cred == <<main, spare>>
bounds == <<stops, erasures, trips>>
place == <<vault_dir, away>>
keyVars == <<cred, marker, data, place, op, open_by, made, faults, bounds, erased>>

\* Keys, numbered in the order they are made, and bytes no key was made with.
Keys == 1..MaxKeys
Garbled == MaxKeys + 1

Credential == [key : Keys \cup {Garbled}, local : BOOLEAN]
NoEntry == [key |-> 0, local |-> FALSE]

NoFolder == "no folder"

Idle == [at |-> "idle"]

\* Where an operation may be: opening (C1, C2, D5, D4), erasing, starting again.
Steps ==
  {"finish_erasure", "c1_spare", "c1_clean", "c1_marker", "recover", "c2_main", "restore",
   "c2_spare", "read_main", "m2", "m3", "m3_again", "m4", "d4", "d4_spare", "d4_data", "create"}
  \cup {"e2_spare", "e2_main", "e0", "clean", "e3_spare", "e3_main", "e3_marker"}
  \cup {"settle", "settle_marker", "record"}

\* What an operation remembers: its own folder, the ErasureState it found, and
\* whether its file step left anything.
Operation ==
  [at : Steps, own : Folders, seen : BOOLEAN, pending : BOOLEAN, left : BOOLEAN]

\* A fresh computer, or one whose key was made before keys were Local.
Init ==
  /\ main \in {NoEntry, [key |-> 1, local |-> FALSE]}
  /\ spare = NoEntry
  /\ marker = NoFolder
  /\ data = [f \in Folders |-> IF f = Home /\ main # NoEntry THEN {1} ELSE {}]
  /\ vault_dir = Home
  /\ away = {}
  /\ op = Idle
  /\ open_by = {}
  /\ made = IF main = NoEntry THEN 0 ELSE 1
  /\ faults = 0 /\ stops = 0 /\ erasures = 0 /\ trips = 0
  /\ erased = {}

----------------------------------------------------------------------------
(***************************************************************************)
(* The credential store and the files, with what they may do wrong.  An    *)
(* outcome is what is left or answered, and how many faults it takes.      *)
(***************************************************************************)

Spend(n) == faults + n <= MaxFaults /\ faults' = faults + n

If(kind, outcomes) == IF kind \in Faults THEN outcomes ELSE {}

\* n reads of c in a row: "no entry" is the answer when they all say so.
Answers(n, c) ==
  {[is |-> c, cost |-> 0]}
  \cup If("no_entry", {[is |-> NoEntry, cost |-> IF c = NoEntry THEN 0 ELSE n]})

Read(c) == Answers(1, c)

\* Seeded fault: one "no entry" is believed.
BelievedAtOnce(c) == Answers(1, c)

\* R1.
Believed(c) == Answers(Reads, c)

\* D2: a Local write of k over c, and whether it read back.
Writes(c, k) ==
  {[left |-> [key |-> k, local |-> TRUE], ok |-> TRUE, cost |-> 0]}
  \cup If("no_entry", {[left |-> [key |-> k, local |-> TRUE], ok |-> FALSE, cost |-> Reads]})
  \cup If("garbled", {[left |-> [key |-> Garbled, local |-> TRUE], ok |-> FALSE, cost |-> 1]})
  \cup If("roaming", {[left |-> [key |-> k, local |-> FALSE], ok |-> FALSE, cost |-> 1]})
  \cup If("refused", {[left |-> c, ok |-> FALSE, cost |-> 1]})

Deletes(c) ==
  {[left |-> NoEntry, cost |-> 0]}
  \cup If("no_delete", {[left |-> c, cost |-> IF c = NoEntry THEN 0 ELSE 1]})

\* E2: a delete of c, and the one read that must then say "no entry".
DeletesConfirmed(c) ==
  UNION {{[left |-> d.left, gone |-> r.is = NoEntry, cost |-> d.cost + r.cost] :
           r \in Read(d.left)} : d \in Deletes(c)}

InUse(f) == \E h \in open_by : h[2] = f

\* Erasure's file step over f: whether entries are left, the data among them,
\* and the cost.  Files that a process has open cannot be removed.
Cleans(f) ==
  IF InUse(f) /\ data[f] # {} THEN {[left |-> TRUE, data |-> data[f], cost |-> 0]}
  ELSE {[left |-> FALSE, data |-> {}, cost |-> 0]}
       \cup If("denied", [left : {TRUE}, data : {{}, data[f]}, cost : {1}])

\* C1's check of the marker: the folder it names is the recorded one, and there.
Trusted == marker = vault_dir /\ vault_dir \notin away

Go(at) == op' = [op EXCEPT !.at = at]
End == op' = Idle
OpensWith(k) == End /\ open_by' = open_by \cup {<<k, op.own>>}

----------------------------------------------------------------------------
(* open_or_create: C1, finish an erasure that left files behind. *)

Begin(at, f) ==
  /\ op = Idle
  /\ f \notin away
  /\ op' = [at |-> at, own |-> f, seen |-> FALSE, pending |-> FALSE, left |-> FALSE]

OpenFolder(f) ==
  /\ f \in OpenedFolders \cup {vault_dir}
  /\ Begin("finish_erasure", f)
  /\ UNCHANGED <<cred, marker, data, place, open_by, made, faults, bounds, erased>>

\* Seeded fault: an unfinished erasure only keeps new keys from being made.
NeverFinishes ==
  /\ op.at = "finish_erasure"
  /\ op' = [op EXCEPT !.at = "recover", !.seen = marker # NoFolder, !.pending = marker # NoFolder]
  /\ UNCHANGED <<cred, marker, data, place, open_by, made, faults, bounds, erased>>

\* Nothing is done about a marker that cannot be trusted, or beside a key.
FinishErasure ==
  /\ op.at = "finish_erasure"
  /\ \/ /\ marker = NoFolder
        /\ Go("recover") /\ UNCHANGED faults
     \/ /\ marker # NoFolder /\ ~Trusted
        /\ op' = [op EXCEPT !.at = "recover", !.seen = TRUE, !.pending = TRUE]
        /\ UNCHANGED faults
     \/ /\ marker # NoFolder /\ Trusted
        /\ \E m \in Believed(main) :
             \/ /\ m.is # NoEntry /\ Spend(m.cost)
                /\ op' = [op EXCEPT !.at = "recover", !.seen = TRUE, !.pending = TRUE]
             \/ /\ m.is = NoEntry
                /\ \E s \in Read(spare) :
                     /\ Spend(m.cost + s.cost)
                     /\ op' = [op EXCEPT !.at = IF s.is = NoEntry THEN "c1_clean" ELSE "c1_spare",
                                         !.seen = TRUE]
  /\ UNCHANGED <<cred, marker, data, place, open_by, made, bounds, erased>>

\* Delete the spare and see that it is gone, or stop the operation.
DropsSpare(at, then) ==
  /\ op.at = at
  /\ \E d \in DeletesConfirmed(spare) :
       /\ spare' = d.left /\ Spend(d.cost)
       /\ IF d.gone THEN Go(then) ELSE End
  /\ UNCHANGED <<main, marker, data, place, open_by, made, bounds, erased>>

C1Spare == DropsSpare("c1_spare", "c1_clean")

C1Clean ==
  /\ op.at = "c1_clean"
  /\ \E c \in Cleans(marker) :
       /\ Spend(c.cost)
       /\ data' = [data EXCEPT ![marker] = c.data]
       /\ \/ ~c.left /\ Go("c1_marker")
          \/ c.left /\ op.own = marker /\ End
          \/ c.left /\ op.own # marker /\ op' = [op EXCEPT !.at = "recover", !.pending = TRUE]
  /\ UNCHANGED <<cred, marker, place, open_by, made, bounds, erased>>

C1Marker ==
  /\ op.at = "c1_marker"
  /\ marker' = NoFolder
  /\ Go("recover")
  /\ UNCHANGED <<cred, data, place, open_by, made, faults, bounds, erased>>

----------------------------------------------------------------------------
(* C2: finish an interrupted move, or restore the key from its spare. *)

\* Seeded fault: a spare equal to main is taken for a finished move, and left.
LeavesEqualSpare ==
  /\ op.at = "recover"
  /\ \E s \in Read(spare), m \in Believed(main) :
       /\ Spend(s.cost + m.cost)
       /\ Go(IF s.is # NoEntry /\ m.is = NoEntry /\ ~op.seen THEN "restore" ELSE "read_main")
  /\ UNCHANGED <<cred, marker, data, place, open_by, made, bounds, erased>>

Recover ==
  /\ op.at = "recover"
  /\ \E s \in Read(spare), m \in Believed(main) :
       \/ /\ s.is = NoEntry
          /\ Go("read_main") /\ Spend(s.cost)
       \/ /\ s.is # NoEntry /\ Spend(s.cost + m.cost)
          /\ \/ /\ m.is # NoEntry /\ m.is.key = spare.key
                /\ Go(IF main.local THEN "c2_spare" ELSE "c2_main")
             \/ /\ m.is # NoEntry /\ m.is.key # spare.key
                /\ Go("read_main")
             \/ /\ m.is = NoEntry
                /\ Go(IF op.seen THEN "read_main" ELSE "restore")
  /\ UNCHANGED <<cred, marker, data, place, open_by, made, bounds, erased>>

C2Main ==
  /\ op.at = "c2_main"
  /\ \E w \in Writes(main, spare.key) :
       /\ main' = w.left /\ Spend(w.cost)
       /\ Go(IF w.ok THEN "c2_spare" ELSE "read_main")
  /\ UNCHANGED <<spare, marker, data, place, open_by, made, bounds, erased>>

Restore ==
  /\ op.at = "restore"
  /\ \E w \in Writes(main, spare.key) :
       /\ main' = w.left /\ Spend(w.cost)
       /\ IF w.ok THEN Go("c2_spare") ELSE End
  /\ UNCHANGED <<spare, marker, data, place, open_by, made, bounds, erased>>

\* A spare that stays is removed by a later open.
RemoveSpare(at) ==
  /\ op.at = at
  /\ \E d \in Deletes(spare) : spare' = d.left /\ Spend(d.cost)

C2Spare ==
  /\ RemoveSpare("c2_spare")
  /\ Go("read_main")
  /\ UNCHANGED <<main, marker, data, place, open_by, made, bounds, erased>>

----------------------------------------------------------------------------
(* Read main and move it to Local persistence (D5: M2, M3, M4). *)

ReadMain ==
  /\ op.at = "read_main"
  /\ \E m \in Believed(main) :
       /\ Spend(m.cost)
       /\ \/ m.is = NoEntry /\ Go("d4") /\ UNCHANGED open_by
          \/ m.is # NoEntry /\ ~main.local /\ Go("m2") /\ UNCHANGED open_by
          \/ m.is # NoEntry /\ main.local /\ OpensWith(main.key)
  /\ UNCHANGED <<cred, marker, data, place, made, bounds, erased>>

M2 ==
  /\ op.at = "m2"
  /\ \E w \in Writes(spare, main.key) :
       /\ spare' = w.left /\ Spend(w.cost)
       /\ IF w.ok THEN Go("m3") /\ UNCHANGED open_by ELSE OpensWith(main.key)
  /\ UNCHANGED <<main, marker, data, place, made, bounds, erased>>

\* Main is rewritten from memory, which is what the spare holds.
RewritesMain(at, otherwise) ==
  /\ op.at = at
  /\ \E w \in Writes(main, spare.key) :
       /\ main' = w.left /\ Spend(w.cost)
       /\ \/ w.ok /\ Go("m4") /\ UNCHANGED open_by
          \/ ~w.ok /\ otherwise
  /\ UNCHANGED <<spare, marker, data, place, made, bounds, erased>>

\* Seeded fault: the spare is dropped although main did not read back.
M3DropsSpare == RewritesMain("m3", Go("m4") /\ UNCHANGED open_by)

M3 == RewritesMain("m3", Go("m3_again") /\ UNCHANGED open_by)
M3Again == RewritesMain("m3_again", OpensWith(spare.key))

M4 ==
  /\ RemoveSpare("m4")
  /\ OpensWith(main.key)
  /\ UNCHANGED <<main, marker, data, place, made, bounds, erased>>

----------------------------------------------------------------------------
(* D4: make a key where there is none. *)

D4 ==
  /\ op.at = "d4"
  /\ \/ op.pending /\ End /\ UNCHANGED faults
     \/ /\ ~op.pending
        /\ \E s \in Believed(spare) :
             /\ Spend(s.cost)
             /\ \/ s.is = NoEntry /\ Go("d4_data")
                \/ s.is # NoEntry /\ ~op.seen /\ End
                \/ s.is # NoEntry /\ op.seen /\ Go("d4_spare")
  /\ UNCHANGED <<cred, marker, data, place, open_by, made, bounds, erased>>

D4Spare == DropsSpare("d4_spare", "d4_data")

\* Seeded fault: existing data does not keep a key from being made.
IgnoresData ==
  /\ op.at = "d4_data"
  /\ IF made < MaxKeys THEN Go("create") ELSE End
  /\ UNCHANGED <<cred, marker, data, place, open_by, made, faults, bounds, erased>>

\* The model makes no more keys once MaxKeys are made.
D4Data ==
  /\ op.at = "d4_data"
  /\ IF data[op.own] = {} /\ made < MaxKeys THEN Go("create") ELSE End
  /\ UNCHANGED <<cred, marker, data, place, open_by, made, faults, bounds, erased>>

\* A key that was never stored was not made.
Create ==
  /\ op.at = "create"
  /\ \E w \in Writes(main, made + 1) :
       /\ main' = w.left /\ Spend(w.cost)
       /\ made' = IF w.left.key = made + 1 THEN made + 1 ELSE made
       /\ IF w.ok THEN OpensWith(made + 1) ELSE End /\ UNCHANGED open_by
  /\ UNCHANGED <<spare, marker, data, place, bounds, erased>>

----------------------------------------------------------------------------
(* erase: E2, E0, the files, E3. *)

\* Seeded fault: the key is destroyed before its spare.
MainFirst ==
  /\ erasures < MaxErasures
  /\ LocklessUse \/ ~InUse(vault_dir)
  /\ Begin("e2_main", vault_dir)
  /\ erasures' = erasures + 1
  /\ UNCHANGED <<cred, marker, data, place, open_by, made, faults, stops, trips, erased>>

\* The caller holds the vault exclusively: no process that takes its lock has it.
Erase ==
  /\ erasures < MaxErasures
  /\ LocklessUse \/ ~InUse(vault_dir)
  /\ Begin("e2_spare", vault_dir)
  /\ erasures' = erasures + 1
  /\ UNCHANGED <<cred, marker, data, place, open_by, made, faults, stops, trips, erased>>

E2Spare == DropsSpare("e2_spare", "e2_main")

E2Main ==
  /\ op.at = "e2_main"
  /\ \E d \in DeletesConfirmed(main) :
       /\ main' = d.left /\ Spend(d.cost)
       /\ IF d.gone THEN Go("e0") /\ erased' = 1..made ELSE End /\ UNCHANGED erased
  /\ UNCHANGED <<spare, marker, data, place, open_by, made, bounds>>

\* The erasure goes on without a marker that cannot be written.
E0 ==
  /\ op.at = "e0"
  /\ \/ marker' = op.own /\ UNCHANGED faults
     \/ "denied" \in Faults /\ Spend(1) /\ UNCHANGED marker
  /\ Go("clean")
  /\ UNCHANGED <<cred, data, place, open_by, made, bounds, erased>>

Clean ==
  /\ op.at = "clean"
  /\ \E c \in Cleans(op.own) :
       /\ Spend(c.cost)
       /\ data' = [data EXCEPT ![op.own] = c.data]
       /\ op' = [op EXCEPT !.at = "e3_spare", !.left = c.left]
  /\ UNCHANGED <<cred, marker, place, open_by, made, bounds, erased>>

\* Seeded fault: E2's confirmation is taken for the end of it.
TrustsE2(c) == {[left |-> c, gone |-> TRUE, cost |-> 0]}

\* A credential that is back is destroyed again: what is left, and at what cost.
Rechecks(c) ==
  UNION {IF r.is = NoEntry THEN {[left |-> c, gone |-> TRUE, cost |-> r.cost]}
         ELSE DeletesConfirmed(c) : r \in Read(c)}

E3Spare ==
  /\ op.at = "e3_spare"
  /\ \E d \in Rechecks(spare) :
       /\ spare' = d.left /\ Spend(d.cost)
       /\ IF d.gone THEN Go("e3_main") ELSE End
  /\ UNCHANGED <<main, marker, data, place, open_by, made, bounds, erased>>

E3Main ==
  /\ op.at = "e3_main"
  /\ \E d \in Rechecks(main) :
       /\ main' = d.left /\ Spend(d.cost)
       /\ IF d.gone /\ ~op.left THEN Go("e3_marker") ELSE End
  /\ UNCHANGED <<spare, marker, data, place, open_by, made, bounds, erased>>

E3Marker ==
  /\ op.at = "e3_marker"
  /\ \/ marker' = NoFolder /\ UNCHANGED faults
     \/ "denied" \in Faults /\ Spend(1) /\ UNCHANGED marker
  /\ End
  /\ UNCHANGED <<cred, data, place, open_by, made, bounds, erased>>

----------------------------------------------------------------------------
(* Start again in the default place, when the vault's folder is not there. *)

StartAgain ==
  /\ vault_dir \in away
  /\ data[Default] = {}
  /\ Begin("settle", Default)
  /\ UNCHANGED <<cred, marker, data, place, open_by, made, faults, bounds, erased>>

\* The marker goes only when both credentials are believed gone.
Settle ==
  /\ op.at = "settle"
  /\ \/ marker = NoFolder /\ Go("record") /\ UNCHANGED faults
     \/ /\ marker # NoFolder
        /\ \E m \in Believed(main), s \in Believed(spare) :
             \/ /\ m.is # NoEntry
                /\ Go("record") /\ Spend(m.cost)
             \/ /\ m.is = NoEntry /\ Spend(m.cost + s.cost)
                /\ Go(IF s.is = NoEntry THEN "settle_marker" ELSE "record")
  /\ UNCHANGED <<cred, marker, data, place, open_by, made, bounds, erased>>

SettleMarker ==
  /\ op.at = "settle_marker"
  /\ marker' = NoFolder
  /\ Go("record")
  /\ UNCHANGED <<cred, data, place, open_by, made, faults, bounds, erased>>

Record ==
  /\ op.at = "record"
  /\ vault_dir' = op.own
  /\ End
  /\ UNCHANGED <<cred, marker, data, away, open_by, made, faults, bounds, erased>>

----------------------------------------------------------------------------
(* What happens around the operations. *)

\* A process that opened a new vault writes data sealed under its key; over
\* data sealed under another it cannot open the database.
Seal(h) ==
  /\ h \in open_by
  /\ data[h[2]] = {}
  /\ data' = [data EXCEPT ![h[2]] = {h[1]}]
  /\ UNCHANGED <<cred, marker, place, op, open_by, made, faults, bounds, erased>>

Close(h) ==
  /\ h \in open_by
  /\ open_by' = open_by \ {h}
  /\ UNCHANGED <<cred, marker, data, place, op, made, faults, bounds, erased>>

\* The process is stopped, or a store or file call fails and ends the operation.
Stop ==
  /\ op # Idle /\ stops < MaxStops
  /\ End
  /\ stops' = stops + 1
  /\ UNCHANGED <<cred, marker, data, place, open_by, made, faults, erasures, trips, erased>>

\* A drive is taken out while nothing on it is open.
TakeOut(f) ==
  /\ op = Idle /\ f \notin away /\ ~InUse(f) /\ trips < MaxTrips
  /\ away' = away \cup {f}
  /\ trips' = trips + 1
  /\ UNCHANGED <<cred, marker, data, vault_dir, op, open_by, made, faults, stops, erasures, erased>>

PutBack(f) ==
  /\ op = Idle /\ f \in away
  /\ away' = away \ {f}
  /\ UNCHANGED <<cred, marker, data, vault_dir, op, open_by, made, faults, bounds, erased>>

\* An older build's key roams with the user: another computer's replaces it.
Roam ==
  /\ op = Idle /\ "roamed" \in Faults /\ Spend(1)
  /\ main # NoEntry /\ ~main.local /\ made < MaxKeys
  /\ made' = made + 1
  /\ main' = [key |-> made + 1, local |-> FALSE]
  /\ UNCHANGED <<spare, marker, data, place, op, open_by, bounds, erased>>

\* Something outside the program, the user for one, removes main.
Lose ==
  /\ op = Idle /\ "lost" \in Faults /\ Spend(1)
  /\ main' = NoEntry
  /\ UNCHANGED <<spare, marker, data, place, op, open_by, made, bounds, erased>>

Opening ==
  \/ FinishErasure \/ C1Spare \/ C1Clean \/ C1Marker
  \/ Recover \/ C2Main \/ Restore \/ C2Spare
  \/ ReadMain \/ M2 \/ M3 \/ M3Again \/ M4
  \/ D4 \/ D4Spare \/ D4Data \/ Create

Erasing == E2Spare \/ E2Main \/ E0 \/ Clean \/ E3Spare \/ E3Main \/ E3Marker

StartingAgain == Settle \/ SettleMarker \/ Record

Next ==
  \/ \E f \in Folders : OpenFolder(f) \/ TakeOut(f) \/ PutBack(f)
  \/ Erase \/ StartAgain
  \/ Opening \/ Erasing \/ StartingAgain
  \/ \E h \in open_by : Seal(h) \/ Close(h)
  \/ Stop \/ Roam \/ Lose

Spec == Init /\ [][Next]_keyVars

(***************************************************************************)
(* The owner keeps starting the app, windows are closed in the end, drives *)
(* come back, and an operation goes on unless its process is stopped.      *)
(***************************************************************************)
Fairness ==
  /\ SF_keyVars(OpenFolder(vault_dir))
  /\ WF_keyVars(Opening \/ Erasing \/ StartingAgain)
  /\ \A f \in Folders : SF_keyVars(PutBack(f))
  /\ \A h \in (Keys \cup {Garbled}) \X Folders : WF_keyVars(Close(h))

FairSpec == Spec /\ Fairness

----------------------------------------------------------------------------
(* Properties *)

\* The types of the variables.
TypeOK ==
  /\ {main, spare} \subseteq Credential \cup {NoEntry}
  /\ marker \in Folders \cup {NoFolder}
  /\ data \in [Folders -> SUBSET (Keys \cup {Garbled})]
  /\ vault_dir \in Folders /\ away \subseteq Folders
  /\ op \in Operation \cup {Idle}
  /\ open_by \subseteq (Keys \cup {Garbled}) \X Folders
  /\ made \in 0..MaxKeys
  /\ faults \in 0..MaxFaults /\ stops \in 0..MaxStops
  /\ erasures \in 0..MaxErasures /\ trips \in 0..MaxTrips
  /\ erased \subseteq Keys

Copies == {c.key : c \in {main, spare} \ {NoEntry}}

(***************************************************************************)
(* "A key is never lost" (lifecycle.rs:12): but for an erasure, no         *)
(* operation removes or overwrites the last stored copy of a key.          *)
(***************************************************************************)
LastCopyKept ==
  [][Opening \/ StartingAgain => Copies \ ({Garbled} \cup erased) \subseteq Copies']_keyVars

(***************************************************************************)
(* "A key never comes back once erased" (lifecycle.rs:14): once the key's  *)
(* deletion is confirmed, neither credential ever holds it again, whatever *)
(* stops in between and whichever folder is opened.                        *)
(***************************************************************************)
ErasedStaysGone == Copies \cap erased = {}

(***************************************************************************)
(* The same as the processes see it: unless the erasure was also stopped   *)
(* midway, no open returns the key after it was confirmed gone, though the *)
(* store ignored a delete and then denied holding the credential.          *)
(***************************************************************************)
ErasedNeverOpened ==
  [][stops = 0 => \A h \in open_by' \ open_by : h[1] \notin erased]_keyVars

\* A marker never stands beside a key: finishing an erasure may delete the folder's files.
NoKeyBesideMarker == marker # NoFolder => main = NoEntry

(***************************************************************************)
(* D4: the key in force, if its bytes are a key's, opens everything in the *)
(* vault's folder.  No new key is put over sealed data that is still       *)
(* there, an erasure's leftovers included, though the folder may be lost   *)
(* and started again elsewhere.                                            *)
(***************************************************************************)
KeyFitsVault == main.key \in Keys => data[vault_dir] \subseteq {main.key}

\* D5, C2: a key that is not Local becomes Local, and its spare goes.
MoveFinishes ==
  main # NoEntry /\ ~main.local ~> spare = NoEntry /\ (main = NoEntry \/ main.local)

(***************************************************************************)
(* C1: the app being started again and again, an erasure that destroyed    *)
(* the key and was stopped, or left files behind, is finished.             *)
(***************************************************************************)
ErasureFinishes == marker # NoFolder /\ main = NoEntry ~> marker = NoFolder

(***************************************************************************)
(* The lifecycle keeps VaultKey's promise.  The key is the one the         *)
(* credentials hold, bytes no key was made with aside.                     *)
(***************************************************************************)
Promise == INSTANCE VaultKey WITH
  key <- IF Copies \ {Garbled} = {} THEN 0 ELSE CHOOSE k \in Copies \ {Garbled} : TRUE,
  last <- made

KeepsPromise == Promise!Spec
=============================================================================
