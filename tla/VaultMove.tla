----------------------------- MODULE VaultMove -----------------------------
(***************************************************************************)
(* Moving the memories to a folder the person chose: the location record,  *)
(* the folders on disk, the desktop windows that finish a waiting move at  *)
(* their start, and the keepers that open the vault meanwhile.             *)
(*                                                                         *)
(* One action is one change on disk or one lock taken.  A step that may    *)
(* fail half way leaves what the failure leaves; the process may stop at   *)
(* any step, and a drive may be taken out and put back.                    *)
(***************************************************************************)
EXTENDS Integers, FiniteSets

CONSTANTS
  Folders,       \* folders the vault may be in
  Home,          \* the folder it is in at first
  NoFolder,      \* no folder
  Windows,       \* desktop windows
  Keepers,       \* keeper processes
  Nobody,        \* the holder of a lock nobody holds
  Entries,       \* the vault's own entries: vault.db, lance, reports, ...
  MAX_ATTEMPTS,  \* attempts a move gets
  PatientPerson, \* TRUE: no move is asked for while a window's start is busy with one
  MaxMoves,      \* bound: moves ever asked for
  MaxSaves,      \* bound: memories ever saved
  MaxTroubles    \* bound: failures, stops, drives out and files put by others

ASSUME FolderAssumption ==
  /\ Home \in Folders /\ NoFolder \notin Folders
  /\ Nobody \notin Windows \cup Keepers
  /\ Windows \cap Keepers = {}

ASSUME MoveBoundAssumption ==
  /\ {MAX_ATTEMPTS, MaxMoves, MaxSaves, MaxTroubles} \subseteq Nat
  /\ MAX_ATTEMPTS > 0
  /\ PatientPerson \in BOOLEAN
  /\ Entries \cap {"vault-id", "move-id", "move-id.tmp", "other"} = {}

VARIABLES
  record,   \* vault-location.json
  files,    \* per folder and name: its content, 0 when it is not there
  dirs,     \* the folders that exist
  out,      \* the folders whose drive is out
  marker,   \* whether an erasure is unfinished
  intent,   \* per folder: who holds .vault.intent
  lock,     \* per folder: who holds .vault.lock
  k1,       \* who holds the key lock K1
  window,   \* per window: what its start is doing
  keeper,   \* per keeper: what it is doing, and in which folder
  memories, \* history: what the person's memories are now
  last,     \* how many moves were asked for, saves made and troubles had
  left      \* history: folders that were out, or that the person was told are left

vars == <<record, files, dirs, out, marker, intent, lock, k1, window, keeper,
          memories, last, left>>
diskVars == <<files, dirs>>
lockVars == <<intent, lock, k1>>
worldVars == <<out, marker, keeper, memories, left>>

\* What a move copies (MOVED, .vault-id last), and every name in a folder.
Moved == Entries \cup {"vault-id"}
Names == Moved \cup {"move-id", "move-id.tmp", "other"}

\* Contents are numbers: a save's, a move's, 1 for the vault's ID and other
\* people's files; what a failed write left; the empty store a keeper creates.
Absent == 0
Torn == -1
Fresh == -2

NoMove == [to |-> NoFolder, id |-> 0, attempts |-> 0]
NoCleanup == [from |-> NoFolder, id |-> 0]
NoneCopied == [n \in Moved |-> Absent]

Idle == [pc |-> "idle", goal |-> "none", from |-> NoFolder, move |-> NoMove,
         then |-> "none", copied |-> NoneCopied]

Nowhere == [pc |-> "off", dir |-> NoFolder]

Contents == -2..(MaxSaves + MaxMoves + 1)

Moves == [to : Folders \cup {NoFolder}, id : 0..MaxMoves, attempts : 0..MAX_ATTEMPTS]

WindowStates ==
  [pc : {"idle", "erase", "intent", "lock", "clean", "attempt", "half", "check",
         "mark", "copy", "commit", "failed", "unmark", "old"},
   goal : {"none", "clean", "move"}, from : Folders \cup {NoFolder}, move : Moves,
   then : {"none", "check", "retry", "giveup"}, copied : [Moved -> Contents]]

KeeperStates ==
  [pc : {"off", "resolved", "checked", "locked", "serving"}, dir : Folders \cup {NoFolder}]

TypeOK ==
  /\ record \in [dir : Folders, move : Moves,
                 cleanup : [from : Folders \cup {NoFolder}, id : 0..MaxMoves]]
  /\ files \in [Folders -> [Names -> Contents]]
  /\ dirs \subseteq Folders /\ out \subseteq Folders /\ left \subseteq Folders
  /\ marker \in BOOLEAN
  /\ intent \in [Folders -> Windows \cup {Nobody}]
  /\ lock \in [Folders -> Windows \cup Keepers \cup {Nobody}]
  /\ k1 \in Windows \cup {Nobody}
  /\ window \in [Windows -> WindowStates]
  /\ keeper \in [Keepers -> KeeperStates]
  /\ memories \in [Entries -> Contents]
  /\ last \in [move : 0..MaxMoves, save : 0..MaxSaves, trouble : 0..MaxTroubles]

Init ==
  /\ record = [dir |-> Home, move |-> NoMove, cleanup |-> NoCleanup]
  /\ files = [f \in Folders |-> [n \in Names |->
                IF f = Home /\ n \in Moved THEN 1 ELSE Absent]]
  /\ dirs = {Home}
  /\ out = {} /\ marker = FALSE
  /\ intent = [f \in Folders |-> Nobody]
  /\ lock = [f \in Folders |-> Nobody]
  /\ k1 = Nobody
  /\ window = [w \in Windows |-> Idle]
  /\ keeper = [k \in Keepers |-> Nowhere]
  /\ memories = [e \in Entries |-> 1]
  /\ last = [move |-> 0, save |-> 0, trouble |-> 0]
  /\ left = {}

----------------------------------------------------------------------------
(* The disk. *)

\* A folder whose drive is out cannot be told from one that is not there.
Seen(f) == f \in dirs /\ f \notin out

Has(f, n) == Seen(f) /\ files[f][n] # Absent

Inside(f) == {n \in Names : files[f][n] # Absent}

Put(f, n, content) == files' = [files EXCEPT ![f][n] = content]
Remove(f, n) == Put(f, n, Absent)

Trouble == last.trouble < MaxTroubles /\ last' = [last EXCEPT !.trouble = @ + 1]

\* A start, or an erasure, that will clean an old copy left in from.
Cleans(from) == [Idle EXCEPT !.pc = "intent", !.goal = "clean", !.from = from]

\* resolve: the recorded folder is there and is this vault.
Resolves == Has(record.dir, "vault-id")

----------------------------------------------------------------------------
(* What the person asks for, and what happens to the folders meanwhile. *)

\* request_move: only while nothing else is waiting, to a folder that is not there yet.
RequestMove(f) ==
  /\ PatientPerson => \A w \in Windows : window[w].goal # "move"
  /\ k1 = Nobody
  /\ Resolves
  /\ record.cleanup = NoCleanup /\ record.move = NoMove
  /\ ~marker
  /\ f \notin dirs /\ f \notin out
  /\ last.move < MaxMoves
  /\ last' = [last EXCEPT !.move = @ + 1]
  /\ record' = [record EXCEPT !.move = [to |-> f, id |-> last.move + 1, attempts |-> 0]]
  /\ UNCHANGED <<diskVars, lockVars, window, worldVars>>

\* forget_old_copy: only a folder that cannot be seen.
ForgetOldCopy ==
  /\ k1 = Nobody
  /\ record.cleanup # NoCleanup
  /\ ~Seen(record.cleanup.from)
  /\ record' = [record EXCEPT !.cleanup = NoCleanup]
  /\ left' = left \cup {record.cleanup.from}
  /\ UNCHANGED <<diskVars, lockVars, window, out, marker, keeper, memories, last>>

\* "Delete everything" is not started while a move is waiting.
EraseAsked(w) ==
  /\ window[w] = Idle
  /\ Resolves /\ record.move = NoMove
  /\ window' = [window EXCEPT ![w] = [Idle EXCEPT !.pc = "erase", !.from = record.dir]]
  /\ UNCHANGED <<record, diskVars, lockVars, worldVars, last>>

\* The memories are gone once the key is; the entries that could not be
\* removed keep the marker standing.  Then an old copy is cleaned.
Erase(w, kept) ==
  LET dir == window[w].from IN
  /\ window[w].pc = "erase" /\ k1 = Nobody
  /\ intent[dir] = Nobody /\ lock[dir] = Nobody
  /\ dir = record.dir /\ Seen(dir)
  /\ IF kept = {} THEN UNCHANGED last ELSE Trouble
  /\ marker' = (kept # {})
  /\ memories' = [e \in Entries |-> Absent]
  /\ files' = [files EXCEPT ![dir] =
                 [n \in Names |-> IF n \in Entries \ kept THEN Absent ELSE @[n]]]
  /\ window' = [window EXCEPT ![w] =
                  IF record.cleanup = NoCleanup THEN Idle ELSE Cleans(record.cleanup.from)]
  /\ UNCHANGED <<record, dirs, out, lockVars, keeper, left>>

\* The vault could not be had for it, or a write failed before anything went.
EraseRefused(w) ==
  /\ window[w].pc = "erase"
  /\ window' = [window EXCEPT ![w] = Idle]
  /\ UNCHANGED <<record, diskVars, lockVars, worldVars, last>>

\* A drive is taken out, or put back.
TakeOut(f) ==
  /\ f \notin out /\ Trouble
  /\ \A k \in Keepers : keeper[k].dir # f
  /\ out' = out \cup {f} /\ left' = left \cup {f}
  /\ UNCHANGED <<record, diskVars, lockVars, window, marker, keeper, memories>>

PutBack(f) ==
  /\ f \in out /\ out' = out \ {f}
  /\ UNCHANGED <<record, diskVars, lockVars, window, marker, keeper, memories, last, left>>

\* Somebody else makes the folder, or puts a file of their own into it.
OthersFile(f) ==
  /\ f \notin out /\ files[f]["other"] = Absent /\ Trouble
  /\ dirs' = dirs \cup {f}
  /\ Put(f, "other", 1)
  /\ UNCHANGED <<record, lockVars, window, worldVars>>

----------------------------------------------------------------------------
(* A desktop's start. *)

At(w, pc) == window[w].pc = pc
Goto(w, pc) == window' = [window EXCEPT ![w].pc = pc]

\* The start is over; what it held is released.
Opened(w) ==
  /\ window' = [window EXCEPT ![w] = Idle]
  /\ intent' = [f \in Folders |-> IF intent[f] = w THEN Nobody ELSE intent[f]]
  /\ lock' = [f \in Folders |-> IF lock[f] = w THEN Nobody ELSE lock[f]]
  /\ k1' = IF k1 = w THEN Nobody ELSE k1

\* run_pending: an old copy first, then a waiting move, unless another window
\* holds the memories.
Start(w) ==
  /\ At(w, "idle")
  /\ \/ /\ record.cleanup # NoCleanup
        /\ window' = [window EXCEPT ![w] = Cleans(record.cleanup.from)]
     \/ /\ record.cleanup = NoCleanup /\ record.move # NoMove
        /\ Resolves /\ intent[record.dir] = Nobody
        /\ window' = [window EXCEPT ![w] =
                        [Idle EXCEPT !.pc = "intent", !.goal = "move", !.from = record.dir]]
  /\ UNCHANGED <<record, diskVars, lockVars, worldVars, last>>

TakesIntent(w) ==
  LET from == window[w].from IN
  /\ At(w, "intent") /\ Seen(from) /\ intent[from] = Nobody
  /\ intent' = [intent EXCEPT ![from] = w]
  /\ Goto(w, "lock")
  /\ UNCHANGED <<record, diskVars, lock, k1, worldVars, last>>

\* Seeded fault: the start goes on without the lock.
TakesNoLock(w) ==
  /\ At(w, "lock")
  /\ Goto(w, IF window[w].goal = "clean" THEN "clean" ELSE "attempt")
  /\ UNCHANGED <<record, diskVars, lockVars, worldVars, last>>

TakesLock(w) ==
  LET from == window[w].from IN
  /\ At(w, "lock") /\ Seen(from) /\ lock[from] = Nobody
  /\ lock' = [lock EXCEPT ![from] = w]
  /\ Goto(w, IF window[w].goal = "clean" THEN "clean" ELSE "attempt")
  /\ UNCHANGED <<record, diskVars, intent, k1, worldVars, last>>

\* Busy, Deferred, OldCopyWaiting: the next start tries again.  An old copy's
\* folder is taken at once or left; for a move, a keeper asked to hand over is
\* gone long before the wait ends, and one that is not is a trouble.
CannotHave(w) ==
  LET from == window[w].from IN
  /\ \/ At(w, "intent") /\ (~Seen(from) \/ intent[from] # Nobody) /\ UNCHANGED last
     \/ At(w, "lock") /\ ~Seen(from) /\ UNCHANGED last
     \/ /\ At(w, "lock") /\ Seen(from) /\ lock[from] # Nobody
        /\ IF window[w].goal = "move" THEN Trouble ELSE UNCHANGED last
  /\ Opened(w)
  /\ UNCHANGED <<record, diskVars, worldVars>>

\* Seeded fault: the attempt is not counted.
AttemptUncounted(w) ==
  /\ At(w, "attempt") /\ k1 = Nobody /\ record.move # NoMove
  /\ k1' = w
  /\ window' = [window EXCEPT ![w].pc = "half", ![w].from = record.dir,
                   ![w].move = record.move, ![w].then = "check", ![w].copied = NoneCopied]
  /\ UNCHANGED <<record, diskVars, intent, lock, worldVars, last>>

\* attempt_under_lock, under K1: nothing to do any more, or the move is given
\* up, or the attempt is counted before anything else happens.
Attempt(w) ==
  LET move == record.move
      counted == [move EXCEPT !.attempts = @ + 1]
      over == marker \/ move.attempts >= MAX_ATTEMPTS
  IN
  /\ At(w, "attempt") /\ k1 = Nobody
  /\ move # NoMove
  /\ k1' = w
  /\ record' = IF over THEN record ELSE [record EXCEPT !.move = counted]
  /\ window' = [window EXCEPT ![w].pc = "half", ![w].from = record.dir,
                   ![w].move = IF over THEN move ELSE counted,
                   ![w].then = IF over THEN "giveup" ELSE "check",
                   ![w].copied = NoneCopied]
  /\ UNCHANGED <<diskVars, intent, lock, worldVars, last>>

\* The move is no longer there, or the attempt could not be counted.
NoAttempt(w) ==
  /\ At(w, "attempt") /\ k1 = Nobody
  /\ IF record.move = NoMove THEN UNCHANGED last ELSE Trouble
  /\ Opened(w)
  /\ UNCHANGED <<record, diskVars, worldVars>>

----------------------------------------------------------------------------
(* remove_half_copy: only a folder that carries this move's ID, or one a    *)
(* crash left before the ID was in place.                                   *)

\* The folder carries this move's ID.
HalfCopyOf(to, id) == Seen(to) /\ files[to]["move-id"] = id

\* Nothing was written but, at most, this move's ID.
NothingYet(to, id) ==
  /\ Inside(to) \subseteq {"move-id.tmp"}
  /\ files[to]["move-id.tmp"] \in {Absent, Torn, id}

\* The order in which its names go: .move-id last.
NextOfHalf(to) ==
  IF Inside(to) \cap Moved # {} THEN Inside(to) \cap Moved
  ELSE IF files[to]["move-id.tmp"] # Absent THEN {"move-id.tmp"}
  ELSE Inside(to) \cap {"move-id"}

\* Seeded fault: the folder goes with whatever is in it.
RemovesWholeFolder(w) ==
  LET to == window[w].move.to IN
  /\ At(w, "half") /\ Seen(to)
  /\ files' = [files EXCEPT ![to] = [n \in Names |-> Absent]]
  /\ dirs' = dirs \ {to}
  /\ UNCHANGED <<record, lockVars, window, worldVars, last>>

RemovesHalf(w) ==
  LET to == window[w].move.to
      id == window[w].move.id
      mine == HalfCopyOf(to, id)
  IN
  /\ At(w, "half") /\ Seen(to)
  /\ mine \/ NothingYet(to, id)
  /\ IF NextOfHalf(to) # {}
     THEN /\ \E n \in NextOfHalf(to) : Remove(to, n)
          /\ UNCHANGED dirs
     ELSE /\ Inside(to) = {}
          /\ dirs' = dirs \ {to}
          /\ UNCHANGED files
  /\ UNCHANGED <<record, lockVars, window, worldVars, last>>

\* What follows once the half copy is gone, or was never there.
AfterHalf(w, removed) ==
  CASE window[w].then = "giveup" ->
         /\ record' = [record EXCEPT !.move = NoMove]
         /\ left' = IF removed THEN left ELSE left \cup {window[w].move.to}
         /\ Opened(w)
    [] window[w].then = "check" /\ removed ->
         Goto(w, "check") /\ UNCHANGED <<record, left, lockVars>>
    [] window[w].then = "check" /\ ~removed ->
         Goto(w, "failed") /\ UNCHANGED <<record, left, lockVars>>
    [] OTHER ->
         Opened(w) /\ UNCHANGED <<record, left>>

HalfRemoved(w) ==
  /\ At(w, "half") /\ ~Seen(window[w].move.to)
  /\ AfterHalf(w, TRUE)
  /\ UNCHANGED <<diskVars, out, marker, keeper, memories, last>>

\* Something of it cannot be removed, or the folder is not this move's.
HalfNotRemoved(w) ==
  LET to == window[w].move.to
      id == window[w].move.id
  IN
  /\ At(w, "half") /\ Seen(to)
  /\ IF (HalfCopyOf(to, id) /\ "other" \notin Inside(to)) \/ NothingYet(to, id)
     THEN Trouble ELSE UNCHANGED last
  /\ AfterHalf(w, FALSE)
  /\ UNCHANGED <<diskVars, out, marker, keeper, memories>>

\* after_failure: another attempt at the next start, or the move is given up.
AfterFailure(w) ==
  LET move == window[w].move IN
  /\ At(w, "failed")
  /\ IF record.cleanup = NoCleanup /\ record.move.id = move.id
     THEN /\ window' = [window EXCEPT ![w].pc = "half", ![w].copied = NoneCopied,
               ![w].then = IF move.attempts >= MAX_ATTEMPTS THEN "giveup" ELSE "retry"]
          /\ UNCHANGED lockVars
     ELSE Opened(w)
  /\ UNCHANGED <<record, diskVars, worldVars, last>>

----------------------------------------------------------------------------
(* copy_and_commit. *)

Fails(w) == Goto(w, "failed")

\* check_folder again, then a new folder.
MakesFolder(w) ==
  LET to == window[w].move.to IN
  /\ At(w, "check") /\ to \notin dirs /\ to \notin out
  /\ dirs' = dirs \cup {to}
  /\ Goto(w, "mark")
  /\ UNCHANGED <<record, files, lockVars, worldVars, last>>

FolderNotUsable(w) ==
  LET to == window[w].move.to IN
  /\ At(w, "check")
  /\ IF to \in dirs \cup out THEN UNCHANGED last ELSE Trouble
  /\ Fails(w)
  /\ UNCHANGED <<record, diskVars, lockVars, worldVars>>

\* .move-id, written beside and renamed; a failure leaves what was written.
MarksFolder(w) ==
  LET to == window[w].move.to
      id == window[w].move.id
  IN
  /\ At(w, "mark") /\ Seen(to)
  /\ \/ Put(to, "move-id", id) /\ Goto(w, "copy") /\ UNCHANGED last
     \/ /\ Trouble /\ Fails(w)
        /\ \E content \in {Absent, Torn, id} : Put(to, "move-id.tmp", content)
  /\ UNCHANGED <<record, dirs, lockVars, worldVars>>

\* What the listing has that is not copied yet; .vault-id is copied last.
ToCopy(w) ==
  LET rest == {n \in Moved : files[window[w].from][n] # Absent
                              /\ window[w].copied[n] = Absent}
  IN IF rest = {"vault-id"} THEN rest ELSE rest \ {"vault-id"}

\* A copy's digest is of what was read; a bad drive may store something else.
Copies(w, n) ==
  LET from == window[w].from
      to == window[w].move.to
  IN
  /\ At(w, "copy") /\ Seen(from) /\ Seen(to)
  /\ n \in ToCopy(w)
  /\ \/ /\ Put(to, n, files[from][n])
        /\ window' = [window EXCEPT ![w].copied[n] = files[from][n]]
        /\ UNCHANGED last
     \/ /\ Trouble /\ Put(to, n, Torn)
        /\ \/ window' = [window EXCEPT ![w].copied[n] = files[from][n]]
           \/ Fails(w)
  /\ UNCHANGED <<record, dirs, lockVars, worldVars>>

\* Seeded fault: the copy is not read back.
VerifiesNothing(w) ==
  /\ At(w, "copy") /\ ToCopy(w) = {} /\ Goto(w, "commit")
  /\ UNCHANGED <<record, diskVars, lockVars, worldVars, last>>

\* Every copied file is read back.
Verifies(w) ==
  LET to == window[w].move.to IN
  /\ At(w, "copy") /\ ToCopy(w) = {} /\ Seen(to)
  /\ Goto(w, IF \A n \in Moved : window[w].copied[n] # Absent =>
                                   files[to][n] = window[w].copied[n]
             THEN "commit" ELSE "failed")
  /\ UNCHANGED <<record, diskVars, lockVars, worldVars, last>>

\* A drive was taken out under the copy.
Unreachable(w) ==
  LET from == window[w].from
      to == window[w].move.to
  IN
  /\ \/ At(w, "mark") /\ ~Seen(to)
     \/ At(w, "copy") /\ ~(Seen(from) /\ Seen(to))
  /\ Fails(w)
  /\ UNCHANGED <<record, diskVars, lockVars, worldVars, last>>

\* Seeded fault: the record changes before the copy is made.
CommitsEarly(w) ==
  LET move == window[w].move IN
  /\ At(w, "copy")
  /\ record' = [dir |-> move.to, move |-> NoMove,
                cleanup |-> [from |-> window[w].from, id |-> move.id]]
  /\ window' = [window EXCEPT ![w].pc = "unmark", ![w].copied = NoneCopied]
  /\ k1' = Nobody
  /\ UNCHANGED <<diskVars, intent, lock, worldVars, last>>

\* The switch: one atomic write of the record.
Commits(w) ==
  LET move == window[w].move IN
  /\ At(w, "commit")
  /\ \/ /\ record' = [dir |-> move.to, move |-> NoMove,
                      cleanup |-> [from |-> window[w].from, id |-> move.id]]
        /\ window' = [window EXCEPT ![w].pc = "unmark", ![w].copied = NoneCopied]
        /\ k1' = Nobody /\ UNCHANGED last
     \/ Trouble /\ Fails(w) /\ UNCHANGED <<record, k1>>
  /\ UNCHANGED <<diskVars, intent, lock, worldVars>>

----------------------------------------------------------------------------
(* The old copy. *)

\* clean_holding_old: a folder that cannot be seen is waited for.
CleansOld(w) ==
  LET cleanup == record.cleanup IN
  /\ At(w, "clean")
  /\ IF cleanup # NoCleanup /\ Seen(cleanup.from)
     THEN /\ window' = [window EXCEPT ![w].pc = "unmark", ![w].from = cleanup.from,
                                     ![w].move.id = cleanup.id]
          /\ UNCHANGED lockVars
     ELSE Opened(w)
  /\ UNCHANGED <<record, diskVars, worldVars, last>>

\* remove_old_copy: .move-id out of the new folder, if that can be done, ...
Unmarks(w) ==
  LET mine == Has(record.dir, "move-id") /\ files[record.dir]["move-id"] = window[w].move.id
  IN
  /\ At(w, "unmark")
  /\ IF mine
     THEN \/ Remove(record.dir, "move-id") /\ UNCHANGED last
          \/ Trouble /\ UNCHANGED files
     ELSE UNCHANGED <<files, last>>
  /\ Goto(w, "old")
  /\ UNCHANGED <<record, dirs, lockVars, worldVars>>

\* ... then the old folder's entries, and .vault-id once they are all gone.
OldEntries(w) ==
  LET from == window[w].from
      entries == {n \in Entries : Has(from, n)}
  IN IF entries # {} THEN entries
     ELSE {n \in {"vault-id"} : Has(from, n)}

RemovesOld(w, n) ==
  /\ At(w, "old") /\ n \in OldEntries(w)
  /\ Remove(window[w].from, n)
  /\ UNCHANGED <<record, dirs, lockVars, window, worldVars, last>>

\* Some of it could not be removed: the next start tries again.
OldNotRemoved(w) ==
  /\ At(w, "old") /\ OldEntries(w) # {} /\ Trouble
  /\ \E removed \in (SUBSET OldEntries(w)) \ {OldEntries(w)} :
       files' = [files EXCEPT ![window[w].from] =
                  [n \in Names |-> IF n \in removed THEN Absent ELSE @[n]]]
  /\ Opened(w)
  /\ UNCHANGED <<record, dirs, worldVars>>

\* Seeded fault: the test of the move's ID is the wrong way round.
ClearsOthersCleanup(w) ==
  /\ At(w, "old") /\ OldEntries(w) = {} /\ k1 = Nobody
  /\ record' = IF record.cleanup.id = window[w].move.id
               THEN record ELSE [record EXCEPT !.cleanup = NoCleanup]
  /\ Opened(w)
  /\ UNCHANGED <<diskVars, worldVars, last>>

\* clear_cleanup: under K1, only this move's.
ClearsCleanup(w) ==
  /\ At(w, "old") /\ OldEntries(w) = {} /\ k1 = Nobody
  /\ record' = IF record.cleanup.id = window[w].move.id
               THEN [record EXCEPT !.cleanup = NoCleanup] ELSE record
  /\ Opened(w)
  /\ UNCHANGED <<diskVars, worldVars, last>>

\* The process stops, or a write of the record that only ends the start fails.
Stop(w) ==
  /\ window[w] # Idle /\ Trouble
  /\ Opened(w)
  /\ UNCHANGED <<record, diskVars, worldVars>>

----------------------------------------------------------------------------
(* Keepers: a keeper finds the folder, probes the intent, takes the lock,   *)
(* probes again, and opens the vault.                                       *)

KeeperAt(k, pc) == keeper[k].pc = pc
KeeperOff(k) == keeper' = [keeper EXCEPT ![k] = Nowhere]
keeperUnchanged == <<record, dirs, out, intent, k1, window, left>>

Resolve(k) ==
  /\ KeeperAt(k, "off") /\ Resolves /\ k1 = Nobody
  /\ keeper' = [keeper EXCEPT ![k] = [pc |-> "resolved", dir |-> record.dir]]
  /\ UNCHANGED <<keeperUnchanged, files, lock, marker, memories, last>>

ProbesIntent(k) ==
  LET dir == keeper[k].dir IN
  /\ KeeperAt(k, "resolved")
  /\ IF Seen(dir) /\ intent[dir] = Nobody
     THEN keeper' = [keeper EXCEPT ![k].pc = "checked"]
     ELSE KeeperOff(k)
  /\ UNCHANGED <<keeperUnchanged, files, lock, marker, memories, last>>

TakesVault(k) ==
  LET dir == keeper[k].dir IN
  /\ KeeperAt(k, "checked")
  /\ IF Seen(dir) /\ lock[dir] = Nobody
     THEN /\ lock' = [lock EXCEPT ![dir] = k]
          /\ keeper' = [keeper EXCEPT ![k].pc = "locked"]
     ELSE KeeperOff(k) /\ UNCHANGED lock
  /\ UNCHANGED <<keeperUnchanged, files, marker, memories, last>>

OpensVault(k, kept) ==
  LET dir == keeper[k].dir IN
  /\ keeper' = [keeper EXCEPT ![k].pc = "serving"]
  /\ marker' = (marker /\ dir # record.dir)
  /\ files' = [files EXCEPT ![dir] = [n \in Names |->
       IF n \in Entries \ kept THEN Fresh ELSE @[n]]]
  /\ memories' = IF dir = record.dir
                 THEN [e \in Entries |-> files'[dir][e]] ELSE memories
  /\ UNCHANGED lock

\* Opening the vault finishes an erasure and creates the stores that are not there.
Opens(k) ==
  LET dir == keeper[k].dir IN
  /\ KeeperAt(k, "locked")
  /\ IF Seen(dir) /\ intent[dir] = Nobody
     THEN OpensVault(k, IF marker THEN {} ELSE Inside(dir))
     ELSE /\ KeeperOff(k)
          /\ lock' = [lock EXCEPT ![dir] = Nobody]
          /\ UNCHANGED <<files, marker, memories>>
  /\ UNCHANGED <<keeperUnchanged, last>>

\* Relays find the keeper through the record: memories are saved only there.
Save(k, e) ==
  LET dir == keeper[k].dir IN
  /\ KeeperAt(k, "serving") /\ Seen(dir) /\ dir = record.dir
  /\ last.save < MaxSaves
  /\ last' = [last EXCEPT !.save = @ + 1]
  /\ Put(dir, e, last.save + 2)
  /\ memories' = [memories EXCEPT ![e] = last.save + 2]
  /\ UNCHANGED <<keeperUnchanged, lock, marker, keeper>>

\* Idle, handed over, or killed: the lock goes with the process.
Leaves(k) ==
  /\ KeeperAt(k, "serving")
  /\ KeeperOff(k)
  /\ lock' = [lock EXCEPT ![keeper[k].dir] = Nobody]
  /\ UNCHANGED <<keeperUnchanged, files, marker, memories, last>>

\* A serving keeper asked to hand over leaves.
HandsOver(k) ==
  /\ Leaves(k)
  /\ intent[keeper[k].dir] # Nobody

----------------------------------------------------------------------------

StartSteps(w) ==
  \/ EraseRefused(w) \/ TakesIntent(w) \/ CannotHave(w)
  \/ Attempt(w) \/ NoAttempt(w) \/ RemovesHalf(w) \/ HalfRemoved(w)
  \/ HalfNotRemoved(w) \/ AfterFailure(w) \/ MakesFolder(w) \/ FolderNotUsable(w)
  \/ MarksFolder(w) \/ (\E n \in Moved : Copies(w, n)) \/ Verifies(w)
  \/ Unreachable(w) \/ Commits(w) \/ CleansOld(w) \/ Unmarks(w)
  \/ (\E n \in Moved : RemovesOld(w, n)) \/ OldNotRemoved(w) \/ ClearsCleanup(w)

KeeperSteps(k) == ProbesIntent(k) \/ TakesVault(k) \/ Opens(k)

Next ==
  \/ \E f \in Folders : RequestMove(f) \/ TakeOut(f) \/ PutBack(f) \/ OthersFile(f)
  \/ ForgetOldCopy
  \/ \E w \in Windows :
       \/ Start(w) \/ TakesLock(w) \/ StartSteps(w) \/ Stop(w)
       \/ EraseAsked(w) \/ \E kept \in SUBSET Entries : Erase(w, kept)
  \/ \E k \in Keepers :
       \/ Resolve(k) \/ KeeperSteps(k) \/ Leaves(k)
       \/ \E e \in Entries : Save(k, e)

(***************************************************************************)
(* Fairness: a process that is running takes its next step; the person     *)
(* starts Zaaheen again, in one window or another; a keeper asked to hand  *)
(* over goes before the 30-second wait is over (its drain is bounded by 10 *)
(* seconds), however often another one starts in between.                  *)
(***************************************************************************)
Fairness ==
  /\ SF_vars(\E w \in Windows : Start(w)) /\ SF_vars(\E w \in Windows : TakesLock(w))
  /\ \A w \in Windows : WF_vars(StartSteps(w))
  /\ \A k \in Keepers : WF_vars(KeeperSteps(k)) /\ SF_vars(HandsOver(k))

Spec == Init /\ [][Next]_vars /\ Fairness

----------------------------------------------------------------------------

\* Outside a move and its cleaning the memories are in one folder only, but
\* for a folder whose drive was out or that could not all be removed.
OneCopy ==
  \A f \in Folders \ (left \cup {record.dir, record.move.to, record.cleanup.from}) :
    \A e \in Entries : files[f][e] \in {Absent, Fresh}

\* "At every moment exactly one complete vault is named by the location
\* record": the folder it names is the vault and holds what was last saved,
\* at every step of a move and of the starts that recover from one, and no
\* other folder keeps the memories once the move and its cleaning are over.
NamedVaultComplete ==
  /\ files[record.dir]["vault-id"] = 1
  /\ marker \/ \A e \in Entries : files[record.dir][e] = memories[e]
  /\ OneCopy

\* "The caller holds the vault folder exclusively (M1)": the copy is made from
\* the folder the record names, and this window has that folder to itself.
SourceHeld ==
  \A w \in Windows : window[w].pc \in {"copy", "commit"} =>
    /\ window[w].from = record.dir
    /\ lock[record.dir] = w

\* Every variable has its shape, and a window that copies holds its source.
MoveInv == TypeOK /\ SourceHeld

\* What other people keep in a folder stays: the move and its recovery remove
\* neither a file that is not theirs nor the folder it is in.
OthersKept ==
  [][\A f \in Folders : files[f]["other"] # Absent =>
       files'[f]["other"] # Absent /\ f \in dirs']_vars

\* Every move asked for is made or given up, and every old copy goes, by the
\* starts that follow, while the drives stay in.
MoveEnds == record.move # NoMove ~> (record.move = NoMove \/ out # {})
OldCopyGoes == record.cleanup # NoCleanup ~> (record.cleanup = NoCleanup \/ out # {})

\* What all of this is for: one vault that, now and then, is elsewhere.
Vault == INSTANCE NamedVault WITH
  dir <- record.dir,
  content <- [e \in Entries |-> files[record.dir][e]]
VaultSpec == Vault!Spec

============================================================================
