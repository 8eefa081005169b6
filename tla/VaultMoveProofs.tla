--------------------------- MODULE VaultMoveProofs ---------------------------
(***************************************************************************)
(* What holds of a vault that is moved, for any number of folders,         *)
(* windows, keepers, entries, moves, stops and failures, while nobody asks *)
(* for a move when a window's start is busy with one: the folder the       *)
(* location record names is at every moment the whole vault, and a move    *)
(* changes where it is and nothing else.                                   *)
(***************************************************************************)
EXTENDS VaultMove, TLAPS

----------------------------------------------------------------------------
(* The inductive invariant *)

\* From the counted attempt to the switch, a window has K1.
Attempting == {"half", "check", "mark", "copy", "commit", "failed"}

\* Every process works in some folder.
Places ==
  /\ record.move # NoMove => record.move.to \in Folders
  /\ record.cleanup # NoCleanup => record.cleanup.from \in Folders
  /\ \A w \in Windows : window[w].pc \in Attempting =>
       window[w].move.to \in Folders /\ window[w].from \in Folders
  /\ \A k \in Keepers : keeper[k].pc # "off" => keeper[k].dir \in Folders

\* Nothing is in a folder that is not there.
FoldersSound == \A f \in Folders \ dirs, n \in Names : files[f][n] = Absent

\* A start has the lock of the folder it is to move.
WindowLocks ==
  \A w \in Windows :
    /\ window[w].pc \in {"intent", "lock"} => window[w].goal # "none"
    /\ window[w].pc \in Attempting \cup {"attempt"} =>
         window[w].goal = "move" /\ window[w].from \in Folders /\ lock[window[w].from] = w

\* A keeper has the lock of the folder it serves.
KeeperLocks ==
  \A k \in Keepers : keeper[k].pc \in {"locked", "serving"} => lock[keeper[k].dir] = k

\* K1 belongs to the window that attempts the move.
KeyLockHeld ==
  \A w \in Windows : k1 = w <=> window[w].pc \in Attempting

\* A start that is to move the vault is at the folder the vault is in, and what
\* it works at is the recorded move.
MoveKnown ==
  /\ \A w \in Windows :
       window[w].goal = "move" /\ window[w].pc \in {"intent", "lock", "attempt"} =>
         record.move = NoMove \/ window[w].from = record.dir
  /\ \A w \in Windows : window[w].pc \in Attempting =>
       record.move # NoMove /\ window[w].move = record.move /\ window[w].from = record.dir

\* A move goes to another folder, and nothing waits to be cleaned meanwhile.
RecordSound ==
  /\ record.dir \in dirs
  /\ record.move # NoMove =>
       /\ record.move.to # record.dir
       /\ record.cleanup = NoCleanup
       /\ record.move.id = last.move /\ record.move.id > 0
  /\ record.cleanup # NoCleanup =>
       /\ record.cleanup.from \in dirs /\ record.cleanup.from # record.dir
       /\ record.cleanup.id \in 1..last.move

\* What a window cleans is neither the vault nor where it is going, and what is
\* cleaned for one move is not taken for another's.
OldFolders ==
  \A w \in Windows : window[w].pc \in {"unmark", "old"} =>
    /\ window[w].from \in dirs /\ window[w].from # record.dir
    /\ window[w].from # record.move.to
    /\ window[w].move.id \in 1..last.move
    /\ record.move # NoMove => window[w].move.id < last.move
    /\ record.cleanup # NoCleanup /\ record.cleanup.id = window[w].move.id =>
         record.cleanup.from = window[w].from

\* Nor is a keeper where the vault is going.
KeeperFolders ==
  \A k \in Keepers : keeper[k].pc # "off" =>
    keeper[k].dir \in dirs /\ keeper[k].dir # record.move.to

\* A drive that is out is remembered.
OutRemembered == out \subseteq left

\* The copy starts from nothing and goes to a folder that is there.
CopyStarts ==
  \A w \in Windows :
    /\ window[w].pc \in {"half", "check", "mark"} => window[w].copied = NoneCopied
    /\ window[w].pc \in {"mark", "copy", "commit"} => window[w].move.to \in dirs

\* What is copied so far, and that nothing else is where it is copied to.
CopySound ==
  \A w \in Windows :
    /\ window[w].pc \in {"mark", "copy"} =>
         \A n \in Moved :
           IF window[w].copied[n] = Absent THEN files[window[w].move.to][n] = Absent
           ELSE window[w].copied[n] = files[window[w].from][n]
    /\ window[w].pc = "commit" =>
         \A n \in Moved : files[window[w].move.to][n] = files[window[w].from][n]

\* The parts of NamedVaultComplete.
VaultThere == files[record.dir]["vault-id"] = 1
VaultCurrent == marker \/ \A e \in Entries : files[record.dir][e] = memories[e]

IInv ==
  /\ TypeOK /\ Places /\ FoldersSound
  /\ WindowLocks /\ KeeperLocks /\ KeyLockHeld
  /\ MoveKnown /\ RecordSound /\ OldFolders /\ KeeperFolders
  /\ OutRemembered /\ CopyStarts /\ CopySound /\ VaultThere /\ VaultCurrent /\ OneCopy

----------------------------------------------------------------------------
(* Windows, keepers and files *)

\* The names are apart, and so are the folders and processes.
LEMMA NameFacts ==
  /\ Moved \subseteq Names /\ Entries \subseteq Moved /\ "vault-id" \in Moved
  /\ "vault-id" \notin Entries
  /\ "move-id" \in Names \ Moved /\ "move-id.tmp" \in Names \ Moved /\ "other" \in Names \ Moved
  /\ Absent \in Contents /\ Torn \in Contents /\ Fresh \in Contents /\ 1 \in Contents
  /\ 0 \in 0..MaxMoves
BY MoveBoundAssumption DEF Names, Moved, Contents, Absent, Torn, Fresh

OthersStay(w) == \A v \in Windows \ {w} : window'[v] = window[v]

\* Where a window goes, and that it works at the same.
Goes(w, pc) ==
  /\ window'[w].pc = pc /\ window'[w].goal = window[w].goal /\ window'[w].from = window[w].from
  /\ window'[w].move = window[w].move /\ window'[w].copied = window[w].copied
  /\ OthersStay(w) /\ window' \in [Windows -> WindowStates]

\* The start is over, and its locks are free.
Over(w) ==
  /\ window'[w] = Idle /\ OthersStay(w) /\ window' \in [Windows -> WindowStates]
  /\ \A f \in Folders : lock'[f] = IF lock[f] = w THEN Nobody ELSE lock[f]
  /\ k1' = IF k1 = w THEN Nobody ELSE k1

\* One name of one folder changes.
OnlyFile(f, n, content) ==
  /\ files'[f][n] = content
  /\ \A g \in Folders, m \in Names : g # f \/ m # n => files'[g][m] = files[g][m]
  /\ files' \in [Folders -> [Names -> Contents]]

\* A window that does nothing has nothing to work at.
LEMMA IdleFacts ==
  /\ Idle \in WindowStates /\ Idle.pc = "idle" /\ Idle.goal = "none"
  /\ NoMove \in Moves /\ NoneCopied \in [Moved -> Contents]
  /\ \A n \in Moved : NoneCopied[n] = Absent
<1>1. NoMove \in Moves
  BY MoveBoundAssumption DEF NoMove, Moves
<1>2. NoneCopied \in [Moved -> Contents] /\ \A n \in Moved : NoneCopied[n] = Absent
  BY NameFacts DEF NoneCopied
<1> QED
  BY <1>1, <1>2 DEF Idle, WindowStates

\* The shape of what a window works at.
LEMMA WindowFacts ==
  ASSUME TypeOK, NEW w \in Windows
  PROVE  /\ window[w] \in WindowStates
         /\ window[w].from \in Folders \cup {NoFolder} /\ window[w].move \in Moves
         /\ window[w].copied \in [Moved -> Contents]
         /\ window[w].move.to \in Folders \cup {NoFolder} /\ window[w].move.id \in 0..MaxMoves
         /\ window[w].move.id \in Nat
BY DEF TypeOK, WindowStates, Moves

Pcs ==
  {"idle", "erase", "intent", "lock", "clean", "attempt", "half", "check",
   "mark", "copy", "commit", "failed", "unmark", "old"}

\* A window that goes on keeps what it works at.
LEMMA GotoFacts ==
  ASSUME TypeOK, NEW w \in Windows,
         NEW pc \in Pcs, Goto(w, pc)
  PROVE  Goes(w, pc)
<1>1. window'[w] = [window[w] EXCEPT !.pc = pc] /\ OthersStay(w)
  BY DEF TypeOK, Goto, OthersStay
<1>2. [window[w] EXCEPT !.pc = pc] \in WindowStates
  BY WindowFacts DEF WindowStates, Pcs
<1>3. window' \in [Windows -> WindowStates]
  BY <1>2 DEF TypeOK, Goto
<1> QED
  BY <1>1, <1>3, WindowFacts DEF Goes, WindowStates

\* What a start that is over gives back.
LEMMA OpenedFacts ==
  ASSUME TypeOK, NEW w \in Windows, Opened(w)
  PROVE  /\ Over(w)
         /\ intent' \in [Folders -> Windows \cup {Nobody}]
         /\ lock' \in [Folders -> Windows \cup Keepers \cup {Nobody}]
BY IdleFacts DEF TypeOK, Opened, Over, OthersStay

\* Writing one name leaves every other.
LEMMA PutFacts ==
  ASSUME TypeOK, NEW f \in Folders, NEW n \in Names, NEW content \in Contents, Put(f, n,
    content)
  PROVE  OnlyFile(f, n, content)
BY DEF TypeOK, Put, OnlyFile

\* A folder that is seen is there.
LEMMA SeenFacts ==
  ASSUME TypeOK, NEW f, Seen(f)
  PROVE  f \in dirs /\ f \in Folders
BY DEF TypeOK, Seen

----------------------------------------------------------------------------
(* What each action does: where it can be taken, what it changes and what it *)
(* leaves alone.                                                            *)

\* A failure is counted, and no move is.
LEMMA TroubleFacts ==
  ASSUME TypeOK, Trouble \/ UNCHANGED last
  PROVE  /\ last' \in [move : 0..MaxMoves, save : 0..MaxSaves, trouble : 0..MaxTroubles]
         /\ last'.move = last.move
<1>1. last.trouble \in 0..MaxTroubles /\ MaxTroubles \in Nat
  BY MoveBoundAssumption DEF TypeOK
<1>2. CASE Trouble
  BY <1>1, <1>2 DEF Trouble, TypeOK
<1>3. CASE UNCHANGED last
  BY <1>3 DEF TypeOK
<1> QED
  BY <1>2, <1>3

LEMMA RequestMoveFacts ==
  ASSUME TypeOK, NEW f \in Folders, RequestMove(f)
  PROVE  /\ PatientPerson => \A w \in Windows : window[w].goal # "move"
         /\ k1 = Nobody /\ record.dir \in dirs /\ f \notin dirs
         /\ record.cleanup = NoCleanup /\ record.move = NoMove
         /\ record'.dir = record.dir /\ record'.cleanup = record.cleanup
         /\ record'.move.to = f /\ record'.move.id = last.move + 1 /\ last'.move = last.move + 1
         /\ record' \in [dir : Folders, move : Moves,
                         cleanup : [from : Folders \cup {NoFolder}, id : 0..MaxMoves]]
         /\ last' \in [move : 0..MaxMoves, save : 0..MaxSaves, trouble : 0..MaxTroubles]
         /\ UNCHANGED <<files, dirs, out, marker, intent, lock, k1, window, keeper, memories, left>>
<1>1. record' = [record EXCEPT !.move = [to |-> f, id |-> last.move + 1, attempts |-> 0]]
  BY DEF RequestMove
<1>2. last' = [last EXCEPT !.move = @ + 1] /\ last.move < MaxMoves
  BY DEF RequestMove
<1>3. last' \in [move : 0..MaxMoves, save : 0..MaxSaves, trouble : 0..MaxTroubles]
      /\ last'.move = last.move + 1 /\ last.move + 1 \in 0..MaxMoves
  BY <1>2, MoveBoundAssumption DEF TypeOK
<1>4. [to |-> f, id |-> last.move + 1, attempts |-> 0] \in Moves
  BY <1>3, MoveBoundAssumption DEF Moves
<1>5. /\ record'.dir = record.dir /\ record'.cleanup = record.cleanup
      /\ record'.move = [to |-> f, id |-> last.move + 1, attempts |-> 0]
      /\ record' \in [dir : Folders, move : Moves,
                      cleanup : [from : Folders \cup {NoFolder}, id : 0..MaxMoves]]
  BY <1>1, <1>4 DEF TypeOK
<1> QED
  BY <1>3, <1>5 DEF RequestMove, Resolves, Has, Seen, diskVars, lockVars, worldVars

LEMMA ForgetOldCopyFacts ==
  ASSUME TypeOK, ForgetOldCopy
  PROVE  /\ k1 = Nobody /\ record.cleanup # NoCleanup /\ left' = left \cup {record.cleanup.from}
         /\ ~Seen(record.cleanup.from)
         /\ record'.dir = record.dir /\ record'.move = record.move /\ record'.cleanup = NoCleanup
         /\ record' \in [dir : Folders, move : Moves,
                         cleanup : [from : Folders \cup {NoFolder}, id : 0..MaxMoves]]
         /\ UNCHANGED <<files, dirs, out, marker, intent, lock, k1, window, keeper, memories, last>>
<1>1. record' = [record EXCEPT !.cleanup = NoCleanup]
  BY DEF ForgetOldCopy
<1>2. NoCleanup \in [from : Folders \cup {NoFolder}, id : 0..MaxMoves]
  BY MoveBoundAssumption DEF NoCleanup
<1>3. /\ record'.dir = record.dir /\ record'.move = record.move /\ record'.cleanup = NoCleanup
      /\ record' \in [dir : Folders, move : Moves,
                      cleanup : [from : Folders \cup {NoFolder}, id : 0..MaxMoves]]
  BY <1>1, <1>2 DEF TypeOK
<1> QED
  BY <1>3 DEF ForgetOldCopy, diskVars, lockVars

\* A start that cleans has its folder from the record.
LEMMA CleansFacts ==
  ASSUME TypeOK, NEW from \in Folders \cup {NoFolder}
  PROVE  /\ Cleans(from) \in WindowStates /\ Cleans(from).pc = "intent"
         /\ Cleans(from).goal = "clean" /\ Cleans(from).from = from
BY IdleFacts DEF Cleans, Idle, WindowStates

LEMMA EraseAskedFacts ==
  ASSUME TypeOK, NEW w \in Windows, EraseAsked(w)
  PROVE  /\ window[w] = Idle /\ window'[w].pc = "erase" /\ window'[w].goal = "none"
         /\ OthersStay(w) /\ window' \in [Windows -> WindowStates]
         /\ UNCHANGED <<record, files, dirs, out, marker, intent, lock, k1, keeper, memories, last,
                        left>>
<1>1. window' = [window EXCEPT ![w] = [Idle EXCEPT !.pc = "erase", !.from = record.dir]]
  BY DEF EraseAsked
<1>2. /\ [Idle EXCEPT !.pc = "erase", !.from = record.dir] \in WindowStates
      /\ [Idle EXCEPT !.pc = "erase", !.from = record.dir].pc = "erase"
      /\ [Idle EXCEPT !.pc = "erase", !.from = record.dir].goal = "none"
  BY IdleFacts DEF Idle, WindowStates, TypeOK
<1>3. /\ window'[w].pc = "erase" /\ window'[w].goal = "none"
      /\ OthersStay(w) /\ window' \in [Windows -> WindowStates]
  BY <1>1, <1>2 DEF TypeOK, OthersStay
<1> QED
  BY <1>3 DEF EraseAsked, diskVars, lockVars, worldVars

LEMMA EraseFacts ==
  ASSUME TypeOK, NEW w \in Windows, NEW kept \in SUBSET Entries, Erase(w, kept)
  PROVE  /\ window[w].pc = "erase" /\ k1 = Nobody
         /\ lock[record.dir] = Nobody /\ record.dir \in dirs
         /\ marker' = (kept # {})
         /\ memories' = [e \in Entries |-> Absent]
         /\ \A n \in Names : files'[record.dir][n] =
              IF n \in Entries \ kept THEN Absent ELSE files[record.dir][n]
         /\ \A f \in Folders \ {record.dir} : files'[f] = files[f]
         /\ files' \in [Folders -> [Names -> Contents]]
         /\ window'[w].pc \in {"idle", "intent"} /\ window'[w].goal \in {"none", "clean"}
         /\ window'[w].pc = "idle" <=> window'[w].goal = "none"
         /\ OthersStay(w) /\ window' \in [Windows -> WindowStates]
         /\ last' \in [move : 0..MaxMoves, save : 0..MaxSaves, trouble : 0..MaxTroubles]
         /\ last'.move = last.move
         /\ UNCHANGED <<record, dirs, out, intent, lock, k1, keeper, left>>
<1>1. /\ window[w].pc = "erase" /\ k1 = Nobody /\ window[w].from = record.dir
      /\ lock[record.dir] = Nobody /\ record.dir \in dirs
      /\ marker' = (kept # {}) /\ memories' = [e \in Entries |-> Absent]
      /\ UNCHANGED <<record, dirs, out, intent, lock, k1, keeper, left>>
  BY DEF Erase, Seen, lockVars
<1>2. files' = [files EXCEPT ![record.dir] =
                  [n \in Names |-> IF n \in Entries \ kept THEN Absent ELSE @[n]]]
  BY DEF Erase
<1>3. /\ \A n \in Names : files'[record.dir][n] =
           IF n \in Entries \ kept THEN Absent ELSE files[record.dir][n]
      /\ \A f \in Folders \ {record.dir} : files'[f] = files[f]
      /\ files' \in [Folders -> [Names -> Contents]]
  BY <1>2, NameFacts DEF TypeOK
<1>4. PICK next \in {Idle, Cleans(record.cleanup.from)} : window' = [window EXCEPT ![w] = next]
  BY DEF Erase
<1>5. next \in WindowStates /\ next.pc \in {"idle", "intent"} /\ next.goal \in {"none", "clean"}
      /\ (next.pc = "idle" <=> next.goal = "none")
  BY IdleFacts, CleansFacts DEF TypeOK
<1>6. window'[w] = next /\ OthersStay(w) /\ window' \in [Windows -> WindowStates]
  BY <1>4, <1>5 DEF TypeOK, OthersStay
<1>7. /\ last' \in [move : 0..MaxMoves, save : 0..MaxSaves, trouble : 0..MaxTroubles]
      /\ last'.move = last.move
  BY TroubleFacts DEF Erase
<1> QED
  BY <1>1, <1>3, <1>5, <1>6, <1>7

LEMMA EraseRefusedFacts ==
  ASSUME TypeOK, NEW w \in Windows, EraseRefused(w)
  PROVE  /\ window[w].pc = "erase" /\ window'[w] = Idle /\ OthersStay(w)
         /\ window' \in [Windows -> WindowStates]
         /\ UNCHANGED <<record, files, dirs, out, marker, intent, lock, k1, keeper, memories, last,
                        left>>
BY IdleFacts DEF EraseRefused, TypeOK, OthersStay, diskVars, lockVars, worldVars

LEMMA OthersFileFacts ==
  ASSUME TypeOK, NEW f \in Folders, OthersFile(f)
  PROVE  /\ OnlyFile(f, "other", 1) /\ dirs' = dirs \cup {f} /\ last'.move = last.move
         /\ last' \in [move : 0..MaxMoves, save : 0..MaxSaves, trouble : 0..MaxTroubles]
         /\ UNCHANGED <<record, out, marker, intent, lock, k1, window, keeper, memories, left>>
BY PutFacts, NameFacts, TroubleFacts DEF OthersFile, lockVars, worldVars

LEMMA StartFacts ==
  ASSUME TypeOK, NEW w \in Windows, Start(w)
  PROVE  /\ window[w].pc = "idle" /\ window'[w].pc = "intent" /\ OthersStay(w)
         /\ window' \in [Windows -> WindowStates]
         /\ window'[w].goal = "clean" \/ (window'[w].goal = "move" /\ window'[w].from = record.dir)
         /\ UNCHANGED <<record, files, dirs, out, marker, intent, lock, k1, keeper, memories, last,
                        left>>
<1> DEFINE move == [Idle EXCEPT !.pc = "intent", !.goal = "move", !.from = record.dir]
<1>1. PICK next \in {Cleans(record.cleanup.from), move} : window' = [window EXCEPT ![w] = next]
  BY DEF Start
<1>2. move \in WindowStates /\ move.pc = "intent" /\ move.goal = "move" /\ move.from = record.dir
  BY IdleFacts DEF Idle, WindowStates, TypeOK
<1>3. /\ Cleans(record.cleanup.from) \in WindowStates /\ Cleans(record.cleanup.from).pc = "intent"
      /\ Cleans(record.cleanup.from).goal = "clean"
  BY CleansFacts DEF TypeOK
<1> HIDE DEF move
<1>4. window'[w] = next /\ OthersStay(w) /\ window' \in [Windows -> WindowStates]
  BY <1>1, <1>2, <1>3 DEF TypeOK, OthersStay
<1> QED
  BY <1>2, <1>3, <1>4 DEF Start, At, diskVars, lockVars, worldVars

LEMMA TakesIntentFacts ==
  ASSUME TypeOK, NEW w \in Windows, TakesIntent(w)
  PROVE  /\ window[w].pc = "intent" /\ Goes(w, "lock")
         /\ intent' \in [Folders -> Windows \cup {Nobody}]
         /\ UNCHANGED <<record, files, dirs, out, marker, lock, k1, keeper, memories, last, left>>
BY GotoFacts DEF TakesIntent, At, TypeOK, Pcs, diskVars, worldVars

LEMMA TakesLockFacts ==
  ASSUME TypeOK, NEW w \in Windows, TakesLock(w)
  PROVE  /\ window[w].pc = "lock" /\ window[w].from \in Folders /\ lock[window[w].from] = Nobody
         /\ lock'[window[w].from] = w /\ \A f \in Folders \ {window[w].from} : lock'[f] = lock[f]
         /\ lock' \in [Folders -> Windows \cup Keepers \cup {Nobody}]
         /\ \/ window[w].goal = "clean" /\ Goes(w, "clean")
            \/ window[w].goal # "clean" /\ Goes(w, "attempt")
         /\ UNCHANGED <<record, files, dirs, out, marker, intent, k1, keeper, memories, last, left>>
<1>1. window[w].from \in Folders
  BY SeenFacts DEF TakesLock
<1>2. /\ lock'[window[w].from] = w /\ \A f \in Folders \ {window[w].from} : lock'[f] = lock[f]
      /\ lock' \in [Folders -> Windows \cup Keepers \cup {Nobody}]
  BY <1>1 DEF TakesLock, TypeOK
<1>3. \/ window[w].goal = "clean" /\ Goes(w, "clean")
      \/ window[w].goal # "clean" /\ Goes(w, "attempt")
  BY GotoFacts DEF TakesLock, Pcs
<1> QED
  BY <1>1, <1>2, <1>3 DEF TakesLock, At, diskVars, worldVars

LEMMA CannotHaveFacts ==
  ASSUME TypeOK, NEW w \in Windows, CannotHave(w)
  PROVE  /\ window[w].pc \in {"intent", "lock"} /\ Over(w)
         /\ UNCHANGED <<record, files, dirs, out, marker, keeper, memories, left>>
BY OpenedFacts DEF CannotHave, At, diskVars, worldVars

LEMMA NoAttemptFacts ==
  ASSUME TypeOK, NEW w \in Windows, NoAttempt(w)
  PROVE  /\ window[w].pc = "attempt" /\ Over(w)
         /\ UNCHANGED <<record, files, dirs, out, marker, keeper, memories, left>>
BY OpenedFacts DEF NoAttempt, At, diskVars, worldVars

LEMMA AttemptFacts ==
  ASSUME TypeOK, NEW w \in Windows, Attempt(w)
  PROVE  /\ window[w].pc = "attempt" /\ k1 = Nobody /\ k1' = w /\ record.move # NoMove
         /\ window'[w].pc = "half" /\ window'[w].goal = window[w].goal
         /\ window'[w].from = record.dir /\ window'[w].move = record'.move
         /\ window'[w].copied = NoneCopied
         /\ OthersStay(w) /\ window' \in [Windows -> WindowStates]
         /\ record'.dir = record.dir /\ record'.cleanup = record.cleanup
         /\ record'.move.to = record.move.to /\ record'.move.id = record.move.id
         /\ record' \in [dir : Folders, move : Moves,
                         cleanup : [from : Folders \cup {NoFolder}, id : 0..MaxMoves]]
         /\ UNCHANGED <<files, dirs, out, marker, intent, lock, keeper, memories, last, left>>
<1> DEFINE move == record.move
           counted == [move EXCEPT !.attempts = @ + 1]
           over == marker \/ move.attempts >= MAX_ATTEMPTS
           next == IF over THEN move ELSE counted
           then == IF over THEN "giveup" ELSE "check"
<1>1. move \in Moves
  BY DEF TypeOK
<1>2. next \in Moves /\ next.to = move.to /\ next.id = move.id
  <2>1. CASE over
    BY <1>1, <2>1
  <2>2. CASE ~over
    <3>1. counted \in Moves /\ counted.to = move.to /\ counted.id = move.id
      BY <1>1, <2>2, MoveBoundAssumption DEF Moves
    <3> QED
      BY <2>2, <3>1
  <2> QED
    BY <2>1, <2>2
<1>3. record' = [record EXCEPT !.move = next] \/ (record' = record /\ next = record.move)
  BY DEF Attempt
<1>4. window' = [window EXCEPT ![w].pc = "half", ![w].from = record.dir, ![w].move = next,
                               ![w].then = then, ![w].copied = NoneCopied]
  BY DEF Attempt
<1>5. then \in {"giveup", "check"}
  OBVIOUS
<1> HIDE DEF next, then
<1>6. /\ record'.dir = record.dir /\ record'.cleanup = record.cleanup /\ record'.move = next
      /\ record' \in [dir : Folders, move : Moves,
                      cleanup : [from : Folders \cup {NoFolder}, id : 0..MaxMoves]]
  BY <1>2, <1>3 DEF TypeOK
<1>7. [window[w] EXCEPT !.pc = "half", !.from = record.dir, !.move = next, !.then = then,
                        !.copied = NoneCopied] \in WindowStates
  <2>1. record.dir \in Folders
    BY DEF TypeOK
  <2> QED
    BY <1>2, <1>5, <2>1, WindowFacts, IdleFacts DEF WindowStates
<1>8. window'[w] = [window[w] EXCEPT !.pc = "half", !.from = record.dir, !.move = next,
                                     !.then = then, !.copied = NoneCopied] /\ OthersStay(w)
  BY <1>4, WindowFacts DEF TypeOK, OthersStay
<1>9. window' = [v \in Windows |-> window'[v]]
  BY <1>4 DEF TypeOK
<1>10. window' \in [Windows -> WindowStates]
  BY <1>7, <1>8, <1>9, WindowFacts DEF OthersStay
<1>11. /\ window'[w].pc = "half" /\ window'[w].goal = window[w].goal
       /\ window'[w].from = record.dir /\ window'[w].move = next
       /\ window'[w].copied = NoneCopied
  BY <1>8, WindowFacts DEF WindowStates
<1> QED
  BY <1>2, <1>6, <1>8, <1>10, <1>11 DEF Attempt, At, diskVars, worldVars

LEMMA RemovesHalfFacts ==
  ASSUME TypeOK, NEW w \in Windows, RemovesHalf(w)
  PROVE  LET to == window[w].move.to IN
         /\ window[w].pc = "half" /\ to \in Folders
         /\ \/ UNCHANGED dirs /\ \E n \in Names \ {"other"} : OnlyFile(to, n, Absent)
            \/ /\ UNCHANGED files /\ dirs' = dirs \ {to}
               /\ \A n \in Names : files[to][n] = Absent
         /\ UNCHANGED <<record, out, marker, intent, lock, k1, window, keeper, memories, last, left>>
<1> DEFINE to == window[w].move.to
<1>1. to \in Folders
  BY SeenFacts DEF RemovesHalf
<1>2. NextOfHalf(to) \subseteq Names \ {"other"}
  BY NameFacts DEF NextOfHalf
<1>3. CASE NextOfHalf(to) # {}
  <2>1. PICK n \in NextOfHalf(to) : Put(to, n, Absent) /\ UNCHANGED dirs
    BY <1>3 DEF RemovesHalf, Remove
  <2>2. n \in Names \ {"other"} /\ OnlyFile(to, n, Absent)
    BY <1>1, <1>2, <2>1, PutFacts, NameFacts
  <2> QED
    BY <1>1, <2>1, <2>2 DEF RemovesHalf, At, lockVars, worldVars
<1>4. CASE NextOfHalf(to) = {}
  <2>1. Inside(to) = {} /\ dirs' = dirs \ {to} /\ UNCHANGED files
    BY <1>4 DEF RemovesHalf
  <2>2. \A n \in Names : files[to][n] = Absent
    BY <2>1 DEF Inside
  <2> QED
    BY <1>1, <2>1, <2>2 DEF RemovesHalf, At, lockVars, worldVars
<1> QED
  BY <1>3, <1>4

\* The half copy is gone, or is left where the person is told of it.
LEMMA AfterHalfFacts ==
  ASSUME TypeOK, NEW w \in Windows, NEW removed \in BOOLEAN, AfterHalf(w, removed)
  PROVE  \/ /\ record'.dir = record.dir /\ record'.cleanup = record.cleanup /\ record'.move = NoMove
            /\ record' \in [dir : Folders, move : Moves,
                            cleanup : [from : Folders \cup {NoFolder}, id : 0..MaxMoves]]
            /\ left' = IF removed THEN left ELSE left \cup {window[w].move.to}
            /\ Opened(w) /\ Over(w)
         \/ /\ Goes(w, "check") \/ Goes(w, "failed")
            /\ UNCHANGED <<record, left, intent, lock, k1>>
         \/ Opened(w) /\ Over(w) /\ UNCHANGED <<record, left>>
<1>1. CASE window[w].then = "giveup"
  <2>1. /\ record' = [record EXCEPT !.move = NoMove]
        /\ left' = IF removed THEN left ELSE left \cup {window[w].move.to}
        /\ Opened(w)
    BY <1>1 DEF AfterHalf
  <2>2. /\ record'.dir = record.dir /\ record'.cleanup = record.cleanup /\ record'.move = NoMove
        /\ record' \in [dir : Folders, move : Moves,
                        cleanup : [from : Folders \cup {NoFolder}, id : 0..MaxMoves]]
    BY <2>1, IdleFacts DEF TypeOK
  <2> QED
    BY <2>1, <2>2, OpenedFacts
<1>2. CASE window[w].then = "check"
  BY <1>2, GotoFacts DEF AfterHalf, Pcs, lockVars
<1>3. CASE window[w].then \notin {"giveup", "check"}
  BY <1>3, OpenedFacts DEF AfterHalf
<1> QED
  BY <1>1, <1>2, <1>3

LEMMA HalfRemovedFacts ==
  ASSUME TypeOK, NEW w \in Windows, HalfRemoved(w)
  PROVE  /\ window[w].pc = "half" /\ ~Seen(window[w].move.to)
         /\ AfterHalf(w, TRUE)
         /\ UNCHANGED <<files, dirs, out, marker, keeper, memories, last>>
BY DEF HalfRemoved, At, diskVars

LEMMA HalfNotRemovedFacts ==
  ASSUME TypeOK, NEW w \in Windows, HalfNotRemoved(w)
  PROVE  /\ window[w].pc = "half"
         /\ AfterHalf(w, FALSE)
         /\ UNCHANGED <<files, dirs, out, marker, keeper, memories>>
         /\ last' \in [move : 0..MaxMoves, save : 0..MaxSaves, trouble : 0..MaxTroubles]
         /\ last'.move = last.move
BY TroubleFacts DEF HalfNotRemoved, At, diskVars

LEMMA AfterFailureFacts ==
  ASSUME TypeOK, NEW w \in Windows, AfterFailure(w)
  PROVE  /\ window[w].pc = "failed"
         /\ \/ /\ window'[w].pc = "half" /\ window'[w].goal = window[w].goal
               /\ window'[w].from = window[w].from /\ window'[w].move = window[w].move
               /\ window'[w].copied = NoneCopied
               /\ OthersStay(w) /\ window' \in [Windows -> WindowStates]
               /\ UNCHANGED <<intent, lock, k1>>
            \/ Opened(w) /\ Over(w)
         /\ UNCHANGED <<record, files, dirs, out, marker, keeper, memories, last, left>>
<1> DEFINE then == IF window[w].move.attempts >= MAX_ATTEMPTS THEN "giveup" ELSE "retry"
<1>1. CASE window' = [window EXCEPT ![w].pc = "half", ![w].copied = NoneCopied, ![w].then = then]
           /\ UNCHANGED lockVars
  <2>1. then \in {"giveup", "retry"}
    OBVIOUS
  <2> HIDE DEF then
  <2>2. window'[w] = [window[w] EXCEPT !.pc = "half", !.copied = NoneCopied, !.then = then]
        /\ OthersStay(w) /\ window' = [v \in Windows |-> window'[v]]
    BY <1>1, WindowFacts DEF TypeOK, OthersStay
  <2>3. window'[w] \in WindowStates
    BY <2>1, <2>2, WindowFacts, IdleFacts DEF WindowStates
  <2>4. window' \in [Windows -> WindowStates]
    BY <2>2, <2>3, WindowFacts DEF OthersStay
  <2>5. /\ window'[w].pc = "half" /\ window'[w].goal = window[w].goal
        /\ window'[w].from = window[w].from /\ window'[w].move = window[w].move
        /\ window'[w].copied = NoneCopied
    BY <2>2, WindowFacts DEF WindowStates
  <2> QED
    BY <1>1, <2>2, <2>4, <2>5 DEF AfterFailure, At, diskVars, worldVars, lockVars
<1>2. CASE Opened(w)
  BY <1>2, OpenedFacts DEF AfterFailure, At, diskVars, worldVars
<1> QED
  BY <1>1, <1>2 DEF AfterFailure

LEMMA MakesFolderFacts ==
  ASSUME TypeOK, Places, NEW w \in Windows, MakesFolder(w)
  PROVE  /\ window[w].pc = "check" /\ window[w].move.to \in Folders \ dirs
         /\ dirs' = dirs \cup {window[w].move.to} /\ Goes(w, "mark")
         /\ UNCHANGED <<record, files, out, marker, intent, lock, k1, keeper, memories, last, left>>
BY GotoFacts DEF MakesFolder, Places, Attempting, At, Pcs, lockVars, worldVars

LEMMA FolderNotUsableFacts ==
  ASSUME TypeOK, NEW w \in Windows, FolderNotUsable(w)
  PROVE  /\ window[w].pc = "check" /\ Goes(w, "failed")
         /\ last' \in [move : 0..MaxMoves, save : 0..MaxSaves, trouble : 0..MaxTroubles]
         /\ last'.move = last.move
         /\ UNCHANGED <<record, files, dirs, out, marker, intent, lock, k1, keeper, memories, left>>
BY GotoFacts, TroubleFacts DEF FolderNotUsable, At, Fails, Pcs, diskVars, lockVars,
   worldVars

LEMMA MarksFolderFacts ==
  ASSUME TypeOK, NEW w \in Windows, MarksFolder(w)
  PROVE  /\ window[w].pc = "mark" /\ window[w].move.to \in dirs \cap Folders
         /\ Goes(w, "copy") \/ Goes(w, "failed")
         /\ \E n \in Names \ Moved, content \in Contents :
              n # "other" /\ OnlyFile(window[w].move.to, n, content)
         /\ last' \in [move : 0..MaxMoves, save : 0..MaxSaves, trouble : 0..MaxTroubles]
         /\ last'.move = last.move
         /\ UNCHANGED <<record, dirs, out, marker, intent, lock, k1, keeper, memories, left>>
<1> DEFINE to == window[w].move.to
           id == window[w].move.id
<1>1. to \in Folders /\ to \in dirs /\ id \in Contents
  BY SeenFacts, WindowFacts, MoveBoundAssumption DEF MarksFolder, Contents
<1>2. PICK n \in {"move-id", "move-id.tmp"}, content \in {Absent, Torn, id} : Put(to, n, content)
  BY DEF MarksFolder
<1>3. n \in Names \ Moved /\ n # "other" /\ content \in Contents
  BY <1>1, NameFacts
<1>4. OnlyFile(to, n, content)
  BY <1>1, <1>2, <1>3, PutFacts
<1>5. Goes(w, "copy") \/ Goes(w, "failed")
  BY GotoFacts DEF MarksFolder, Fails, Pcs
<1>6. /\ last' \in [move : 0..MaxMoves, save : 0..MaxSaves, trouble : 0..MaxTroubles]
      /\ last'.move = last.move
  BY TroubleFacts DEF MarksFolder
<1> QED
  BY <1>1, <1>3, <1>4, <1>5, <1>6 DEF MarksFolder, At, lockVars, worldVars

LEMMA CopiesFacts ==
  ASSUME TypeOK, NEW w \in Windows, NEW n \in Moved, Copies(w, n)
  PROVE  LET from == window[w].from
             to == window[w].move.to IN
         /\ window[w].pc = "copy" /\ from \in Folders /\ to \in dirs \cap Folders
         /\ files[from][n] # Absent
         /\ \/ /\ OnlyFile(to, n, files[from][n]) \/ OnlyFile(to, n, Torn)
               /\ window'[w].pc = "copy" /\ window'[w].goal = window[w].goal
               /\ window'[w].from = from /\ window'[w].move = window[w].move
               /\ window'[w].copied[n] = files[from][n]
               /\ \A m \in Moved \ {n} : window'[w].copied[m] = window[w].copied[m]
               /\ OthersStay(w) /\ window' \in [Windows -> WindowStates]
            \/ OnlyFile(to, n, Torn) /\ Goes(w, "failed")
         /\ last' \in [move : 0..MaxMoves, save : 0..MaxSaves, trouble : 0..MaxTroubles]
         /\ last'.move = last.move
         /\ UNCHANGED <<record, dirs, out, marker, intent, lock, k1, keeper, memories, left>>
<1> DEFINE from == window[w].from
           to == window[w].move.to
<1>1. from \in Folders /\ to \in Folders /\ to \in dirs
  BY SeenFacts DEF Copies
<1>2. n \in Names /\ files[from][n] \in Contents /\ files[from][n] # Absent /\ Torn \in Contents
  BY <1>1, NameFacts DEF Copies, ToCopy, TypeOK
<1>3. ASSUME window' = [window EXCEPT ![w].copied[n] = files[from][n]]
      PROVE  /\ window'[w].pc = window[w].pc /\ window'[w].goal = window[w].goal
             /\ window'[w].from = from /\ window'[w].move = window[w].move
             /\ window'[w].copied[n] = files[from][n]
             /\ \A m \in Moved \ {n} : window'[w].copied[m] = window[w].copied[m]
             /\ OthersStay(w) /\ window' \in [Windows -> WindowStates]
  <2> DEFINE copied == [window[w].copied EXCEPT ![n] = files[from][n]]
  <2>1. window'[w] = [window[w] EXCEPT !.copied = copied]
        /\ OthersStay(w) /\ window' = [v \in Windows |-> window'[v]]
    BY <1>3, WindowFacts DEF TypeOK, OthersStay
  <2>2. copied \in [Moved -> Contents] /\ copied[n] = files[from][n]
        /\ \A m \in Moved \ {n} : copied[m] = window[w].copied[m]
    BY <1>2, WindowFacts
  <2> HIDE DEF copied
  <2>3. window'[w] \in WindowStates /\ window'[w].copied = copied
    BY <2>1, <2>2, WindowFacts DEF WindowStates
  <2>4. /\ window'[w].pc = window[w].pc /\ window'[w].goal = window[w].goal
        /\ window'[w].from = from /\ window'[w].move = window[w].move
    BY <2>1, WindowFacts DEF WindowStates
  <2>5. window' \in [Windows -> WindowStates]
    BY <2>1, <2>3, WindowFacts DEF OthersStay
  <2> QED
    BY <2>1, <2>2, <2>3, <2>4, <2>5
<1>4. ASSUME Put(to, n, files[from][n]) PROVE OnlyFile(to, n, files[from][n])
  BY <1>1, <1>2, <1>4, PutFacts
<1>5. ASSUME Put(to, n, Torn) PROVE OnlyFile(to, n, Torn)
  BY <1>1, <1>2, <1>5, PutFacts
<1>6. Fails(w) => Goes(w, "failed")
  BY GotoFacts DEF Fails, Pcs
<1>7. /\ last' \in [move : 0..MaxMoves, save : 0..MaxSaves, trouble : 0..MaxTroubles]
      /\ last'.move = last.move
  BY TroubleFacts DEF Copies
<1>8. window[w].pc = "copy"
      /\ UNCHANGED <<record, dirs, out, marker, intent, lock, k1, keeper, memories, left>>
  BY DEF Copies, At, lockVars, worldVars
<1>9. \/ Put(to, n, files[from][n]) /\ window' = [window EXCEPT ![w].copied[n] = files[from][n]]
      \/ Put(to, n, Torn) /\ window' = [window EXCEPT ![w].copied[n] = files[from][n]]
      \/ Put(to, n, Torn) /\ Fails(w)
  BY DEF Copies
<1> HIDE DEF from, to
<1>10. \/ /\ OnlyFile(to, n, files[from][n]) \/ OnlyFile(to, n, Torn)
          /\ window'[w].pc = "copy" /\ window'[w].goal = window[w].goal
          /\ window'[w].from = from /\ window'[w].move = window[w].move
          /\ window'[w].copied[n] = files[from][n]
          /\ \A m \in Moved \ {n} : window'[w].copied[m] = window[w].copied[m]
          /\ OthersStay(w) /\ window' \in [Windows -> WindowStates]
       \/ OnlyFile(to, n, Torn) /\ Goes(w, "failed")
  BY <1>3, <1>4, <1>5, <1>6, <1>8, <1>9
<1> QED
  BY <1>1, <1>2, <1>7, <1>8, <1>10 DEF from, to

LEMMA VerifiesFacts ==
  ASSUME TypeOK, NEW w \in Windows, Verifies(w)
  PROVE  /\ window[w].pc = "copy"
         /\ \/ Goes(w, "failed")
            \/ /\ Goes(w, "commit")
               /\ \A n \in Moved : IF window[w].copied[n] = Absent THEN files[window[w].from][n] = Absent
                                   ELSE files[window[w].move.to][n] = window[w].copied[n]
         /\ UNCHANGED <<record, files, dirs, out, marker, intent, lock, k1, keeper, memories, last,
                        left>>
<1> DEFINE rest == {n \in Moved : files[window[w].from][n] # Absent /\ window[w].copied[n] = Absent}
<1>1. rest = {}
  BY DEF Verifies, ToCopy
<1>2. Goes(w, "failed") \/
      (Goes(w, "commit") /\ \A n \in Moved : window[w].copied[n] # Absent =>
                                   files[window[w].move.to][n] = window[w].copied[n])
  BY GotoFacts DEF Verifies, Pcs
<1> QED
  BY <1>1, <1>2 DEF Verifies, At, diskVars, lockVars, worldVars

LEMMA UnreachableFacts ==
  ASSUME TypeOK, NEW w \in Windows, Unreachable(w)
  PROVE  /\ window[w].pc \in {"mark", "copy"} /\ Goes(w, "failed")
         /\ UNCHANGED <<record, files, dirs, out, marker, intent, lock, k1, keeper, memories, last,
                        left>>
BY GotoFacts DEF Unreachable, At, Fails, Pcs, diskVars, lockVars, worldVars

LEMMA CommitsFacts ==
  ASSUME TypeOK, Places, NEW w \in Windows, Commits(w)
  PROVE  /\ window[w].pc = "commit"
         /\ \/ /\ record'.dir = window[w].move.to /\ record'.move = NoMove
               /\ record'.cleanup.from = window[w].from /\ record'.cleanup.id = window[w].move.id
               /\ record' \in [dir : Folders, move : Moves,
                               cleanup : [from : Folders \cup {NoFolder}, id : 0..MaxMoves]]
               /\ window'[w].pc = "unmark" /\ window'[w].from = window[w].from
               /\ window'[w].move = window[w].move /\ window'[w].goal = window[w].goal
               /\ OthersStay(w) /\ window' \in [Windows -> WindowStates]
               /\ k1' = Nobody
            \/ Goes(w, "failed") /\ UNCHANGED <<record, k1>>
         /\ last' \in [move : 0..MaxMoves, save : 0..MaxSaves, trouble : 0..MaxTroubles]
         /\ last'.move = last.move
         /\ UNCHANGED <<files, dirs, out, marker, intent, lock, keeper, memories, left>>
<1> DEFINE move == window[w].move
<1>0. move.to \in Folders
  BY DEF Commits, At, Places, Attempting
<1>1. CASE /\ record' = [dir |-> move.to, move |-> NoMove,
                         cleanup |-> [from |-> window[w].from, id |-> move.id]]
           /\ window' = [window EXCEPT ![w].pc = "unmark", ![w].copied = NoneCopied]
           /\ k1' = Nobody
  <2>1. window'[w] = [window[w] EXCEPT !.pc = "unmark", !.copied = NoneCopied]
        /\ OthersStay(w) /\ window' = [v \in Windows |-> window'[v]]
    BY <1>1, WindowFacts DEF TypeOK, OthersStay
  <2>2. window'[w] \in WindowStates
    BY <2>1, WindowFacts, IdleFacts DEF WindowStates
  <2>3. window' \in [Windows -> WindowStates]
    BY <2>1, <2>2, WindowFacts DEF OthersStay
  <2>4. /\ window'[w].pc = "unmark" /\ window'[w].goal = window[w].goal
        /\ window'[w].from = window[w].from /\ window'[w].move = window[w].move
    BY <2>1, WindowFacts DEF WindowStates
  <2>5. record' \in [dir : Folders, move : Moves,
                     cleanup : [from : Folders \cup {NoFolder}, id : 0..MaxMoves]]
    BY <1>0, <1>1, WindowFacts, IdleFacts
  <2>6. /\ record'.dir = move.to /\ record'.move = NoMove
        /\ record'.cleanup.from = window[w].from /\ record'.cleanup.id = move.id
    BY <1>1
  <2> QED
    BY <1>1, <2>1, <2>3, <2>4, <2>5, <2>6, TroubleFacts
       DEF Commits, At, diskVars, worldVars
<1>2. CASE Goto(w, "failed") /\ UNCHANGED <<record, k1>>
  BY <1>2, GotoFacts, TroubleFacts DEF Commits, At, Pcs, diskVars, worldVars
<1> QED
  BY <1>1, <1>2 DEF Commits, Fails

LEMMA CleansOldFacts ==
  ASSUME TypeOK, NEW w \in Windows, CleansOld(w)
  PROVE  /\ window[w].pc = "clean"
         /\ \/ /\ record.cleanup # NoCleanup
               /\ window'[w].pc = "unmark" /\ window'[w].goal = window[w].goal
               /\ window'[w].from = record.cleanup.from /\ window'[w].move.id = record.cleanup.id
               /\ OthersStay(w) /\ window' \in [Windows -> WindowStates]
               /\ UNCHANGED <<intent, lock, k1>>
            \/ Opened(w) /\ Over(w)
         /\ UNCHANGED <<record, files, dirs, out, marker, keeper, memories, last, left>>
<1> DEFINE cleanup == record.cleanup
<1>1. CASE /\ cleanup # NoCleanup /\ UNCHANGED lockVars
           /\ window' = [window EXCEPT ![w].pc = "unmark", ![w].from = cleanup.from,
                                     ![w].move.id = cleanup.id]
  <2> DEFINE move == [window[w].move EXCEPT !.id = cleanup.id]
  <2>1. window'[w] = [window[w] EXCEPT !.pc = "unmark", !.from = cleanup.from, !.move = move]
        /\ OthersStay(w) /\ window' = [v \in Windows |-> window'[v]]
    BY <1>1, WindowFacts, ZenonT(60) DEF TypeOK, OthersStay, WindowStates
  <2>2. cleanup.from \in Folders \cup {NoFolder} /\ cleanup.id \in 0..MaxMoves
    BY DEF TypeOK
  <2>3. move \in Moves /\ move.id = cleanup.id
    BY <2>2, WindowFacts DEF Moves
  <2> HIDE DEF move
  <2>4. window'[w] \in WindowStates
    BY <2>1, <2>2, <2>3, WindowFacts DEF WindowStates
  <2>5. window' \in [Windows -> WindowStates]
    BY <2>1, <2>4, WindowFacts DEF OthersStay
  <2>6. /\ window'[w].pc = "unmark" /\ window'[w].goal = window[w].goal
        /\ window'[w].from = cleanup.from /\ window'[w].move = move
    BY <2>1, WindowFacts DEF WindowStates
  <2> QED
    BY <1>1, <2>1, <2>3, <2>5, <2>6 DEF CleansOld, At, diskVars, worldVars, lockVars
<1>2. CASE Opened(w)
  BY <1>2, OpenedFacts DEF CleansOld, At, diskVars, worldVars
<1> QED
  BY <1>1, <1>2 DEF CleansOld

LEMMA UnmarksFacts ==
  ASSUME TypeOK, NEW w \in Windows, Unmarks(w)
  PROVE  /\ window[w].pc = "unmark" /\ Goes(w, "old")
         /\ OnlyFile(record.dir, "move-id", Absent) \/ UNCHANGED files
         /\ last' \in [move : 0..MaxMoves, save : 0..MaxSaves, trouble : 0..MaxTroubles]
         /\ last'.move = last.move
         /\ UNCHANGED <<record, dirs, out, marker, intent, lock, k1, keeper, memories, left>>
<1>1. record.dir \in Folders
  BY DEF TypeOK
<1>2. Put(record.dir, "move-id", Absent) \/ UNCHANGED files
  BY DEF Unmarks, Remove
<1>3. OnlyFile(record.dir, "move-id", Absent) \/ UNCHANGED files
  BY <1>1, <1>2, PutFacts, NameFacts
<1> QED
  BY <1>3, GotoFacts, TroubleFacts DEF Unmarks, At, Pcs, lockVars, worldVars

LEMMA RemovesOldFacts ==
  ASSUME TypeOK, NEW w \in Windows, NEW n \in Moved, RemovesOld(w, n)
  PROVE  /\ window[w].pc = "old" /\ window[w].from \in Folders
         /\ OnlyFile(window[w].from, n, Absent)
         /\ UNCHANGED <<record, dirs, out, marker, intent, lock, k1, window, keeper, memories, last,
                        left>>
<1>1. window[w].from \in Folders
  BY SeenFacts DEF RemovesOld, OldEntries, Has
<1>2. OnlyFile(window[w].from, n, Absent)
  BY <1>1, PutFacts, NameFacts DEF RemovesOld, Remove
<1> QED
  BY <1>1, <1>2 DEF RemovesOld, At, lockVars, worldVars

LEMMA OldNotRemovedFacts ==
  ASSUME TypeOK, NEW w \in Windows, OldNotRemoved(w)
  PROVE  /\ window[w].pc = "old" /\ window[w].from \in Folders /\ Over(w)
         /\ \E removed \in SUBSET Moved :
              /\ \A n \in Names : files'[window[w].from][n] =
                   IF n \in removed THEN Absent ELSE files[window[w].from][n]
              /\ \A f \in Folders \ {window[w].from} : files'[f] = files[f]
         /\ files' \in [Folders -> [Names -> Contents]]
         /\ UNCHANGED <<record, dirs, out, marker, keeper, memories, left>>
<1>1. window[w].from \in Folders /\ OldEntries(w) \subseteq Moved
  BY SeenFacts, NameFacts DEF OldNotRemoved, OldEntries, Has
<1>2. PICK removed \in (SUBSET OldEntries(w)) \ {OldEntries(w)} :
        files' = [files EXCEPT ![window[w].from] =
                    [n \in Names |-> IF n \in removed THEN Absent ELSE @[n]]]
  BY DEF OldNotRemoved
<1>3. /\ \A n \in Names : files'[window[w].from][n] =
           IF n \in removed THEN Absent ELSE files[window[w].from][n]
      /\ \A f \in Folders \ {window[w].from} : files'[f] = files[f]
      /\ files' \in [Folders -> [Names -> Contents]]
  BY <1>1, <1>2, NameFacts DEF TypeOK
<1>4. removed \in SUBSET Moved
  BY <1>1
<1> QED
  BY <1>1, <1>3, <1>4, OpenedFacts DEF OldNotRemoved, At, worldVars

LEMMA ClearsCleanupFacts ==
  ASSUME TypeOK, NEW w \in Windows, ClearsCleanup(w)
  PROVE  /\ window[w].pc = "old" /\ k1 = Nobody /\ Over(w)
         /\ Seen(window[w].from) => \A e \in Entries : files[window[w].from][e] = Absent
         /\ record'.dir = record.dir /\ record'.move = record.move
         /\ \/ record' = record
            \/ record'.cleanup = NoCleanup /\ record.cleanup.id = window[w].move.id
         /\ record' \in [dir : Folders, move : Moves,
                         cleanup : [from : Folders \cup {NoFolder}, id : 0..MaxMoves]]
         /\ UNCHANGED <<files, dirs, out, marker, keeper, memories, last, left>>
<1>1. NoCleanup \in [from : Folders \cup {NoFolder}, id : 0..MaxMoves]
  BY MoveBoundAssumption DEF NoCleanup
<1>2. \/ record' = record
      \/ record' = [record EXCEPT !.cleanup = NoCleanup] /\ record.cleanup.id = window[w].move.id
  BY DEF ClearsCleanup
<1>3. /\ record'.dir = record.dir /\ record'.move = record.move
      /\ \/ record' = record
         \/ record'.cleanup = NoCleanup /\ record.cleanup.id = window[w].move.id
      /\ record' \in [dir : Folders, move : Moves,
                      cleanup : [from : Folders \cup {NoFolder}, id : 0..MaxMoves]]
  BY <1>1, <1>2 DEF TypeOK
<1>4. Seen(window[w].from) => \A e \in Entries : files[window[w].from][e] = Absent
  BY DEF ClearsCleanup, OldEntries, Has
<1> QED
  BY <1>3, <1>4, OpenedFacts DEF ClearsCleanup, At, diskVars, worldVars

\* The window after it found the half copy gone, or left it.
HalfOver(w) ==
  \/ /\ Over(w)
     /\ record'.dir = record.dir /\ record'.cleanup = record.cleanup /\ record'.move = NoMove
     /\ left \subseteq left'
     /\ Seen(window[w].move.to) => window[w].move.to \in left'
  \/ /\ Goes(w, "check") \/ Goes(w, "failed")
     /\ UNCHANGED <<record, left, lock, k1>>
  \/ Over(w) /\ UNCHANGED <<record, left>>

\* Both ways of being done with a half copy.
LEMMA HalfOverFacts ==
  ASSUME TypeOK, NEW w \in Windows, HalfRemoved(w) \/ HalfNotRemoved(w)
  PROVE  window[w].pc = "half" /\ HalfOver(w) /\ UNCHANGED <<files, dirs, out, marker, keeper, memories>>
         /\ last'.move = last.move
<1>1. CASE HalfRemoved(w)
  BY <1>1, HalfRemovedFacts, AfterHalfFacts DEF HalfOver
<1>2. CASE HalfNotRemoved(w)
  BY <1>2, HalfNotRemovedFacts, AfterHalfFacts DEF HalfOver
<1> QED
  BY <1>1, <1>2

LEMMA StopFacts ==
  ASSUME TypeOK, NEW w \in Windows, Stop(w)
  PROVE  /\ Over(w)
         /\ last' \in [move : 0..MaxMoves, save : 0..MaxSaves, trouble : 0..MaxTroubles]
         /\ last'.move = last.move
         /\ UNCHANGED <<record, files, dirs, out, marker, keeper, memories, left>>
BY OpenedFacts, TroubleFacts DEF Stop, diskVars, worldVars

LEMMA TakeOutFacts ==
  ASSUME TypeOK, NEW f \in Folders, TakeOut(f)
  PROVE  /\ out' = out \cup {f} /\ left' = left \cup {f}
         /\ last' \in [move : 0..MaxMoves, save : 0..MaxSaves, trouble : 0..MaxTroubles]
         /\ last'.move = last.move
         /\ UNCHANGED <<record, files, dirs, marker, intent, lock, k1, window, keeper, memories>>
BY TroubleFacts DEF TakeOut, diskVars, lockVars

LEMMA PutBackFacts ==
  ASSUME TypeOK, NEW f \in Folders, PutBack(f)
  PROVE  /\ out' = out \ {f}
         /\ UNCHANGED <<record, files, dirs, marker, intent, lock, k1, window, keeper, memories, last,
                        left>>
BY DEF PutBack, diskVars, lockVars

----------------------------------------------------------------------------
(* Keepers *)

OtherKeepersStay(k) == \A l \in Keepers \ {k} : keeper'[l] = keeper[l]

\* The shape of a keeper.
LEMMA KeeperFacts ==
  ASSUME TypeOK, NEW k \in Keepers
  PROVE  /\ keeper[k] \in KeeperStates /\ keeper[k].dir \in Folders \cup {NoFolder}
         /\ Nowhere \in KeeperStates /\ Nowhere.pc = "off"
BY DEF TypeOK, KeeperStates, Nowhere

\* A keeper that goes leaves the others.
LEMMA KeeperOffFacts ==
  ASSUME TypeOK, NEW k \in Keepers, KeeperOff(k)
  PROVE  keeper'[k].pc = "off" /\ OtherKeepersStay(k) /\ keeper' \in [Keepers -> KeeperStates]
BY KeeperFacts DEF TypeOK, KeeperOff, OtherKeepersStay

\* A keeper that goes on stays at its folder.
LEMMA KeeperGotoFacts ==
  ASSUME TypeOK, NEW k \in Keepers,
         NEW pc \in {"off", "resolved", "checked", "locked", "serving"},
         keeper' = [keeper EXCEPT ![k].pc = pc]
  PROVE  /\ keeper'[k].pc = pc /\ keeper'[k].dir = keeper[k].dir
         /\ OtherKeepersStay(k) /\ keeper' \in [Keepers -> KeeperStates]
<1>1. keeper'[k] = [keeper[k] EXCEPT !.pc = pc] /\ OtherKeepersStay(k)
  BY DEF TypeOK, OtherKeepersStay
<1>2. [keeper[k] EXCEPT !.pc = pc] \in KeeperStates
  BY KeeperFacts DEF KeeperStates
<1> QED
  BY <1>1, <1>2, KeeperFacts DEF TypeOK, KeeperStates

LEMMA ResolveFacts ==
  ASSUME TypeOK, NEW k \in Keepers, Resolve(k)
  PROVE  /\ k1 = Nobody /\ record.dir \in dirs
         /\ keeper'[k].pc = "resolved" /\ keeper'[k].dir = record.dir
         /\ OtherKeepersStay(k) /\ keeper' \in [Keepers -> KeeperStates]
         /\ UNCHANGED <<record, files, dirs, out, marker, intent, lock, k1, window, memories, last,
                        left>>
<1>1. [pc |-> "resolved", dir |-> record.dir] \in KeeperStates
  BY DEF KeeperStates, TypeOK
<1> QED
  BY <1>1 DEF Resolve, Resolves, Has, Seen, TypeOK, OtherKeepersStay, keeperUnchanged

LEMMA ProbesIntentFacts ==
  ASSUME TypeOK, NEW k \in Keepers, ProbesIntent(k)
  PROVE  /\ keeper[k].pc = "resolved"
         /\ keeper'[k].pc \in {"off", "checked"}
         /\ keeper'[k].pc # "off" => keeper'[k].dir = keeper[k].dir
         /\ OtherKeepersStay(k) /\ keeper' \in [Keepers -> KeeperStates]
         /\ UNCHANGED <<record, files, dirs, out, marker, intent, lock, k1, window, memories, last,
                        left>>
BY KeeperOffFacts, KeeperGotoFacts DEF ProbesIntent, KeeperAt, keeperUnchanged

LEMMA TakesVaultFacts ==
  ASSUME TypeOK, NEW k \in Keepers, TakesVault(k)
  PROVE  /\ keeper[k].pc = "checked"
         /\ \/ keeper'[k].pc = "off" /\ UNCHANGED lock
            \/ /\ keeper'[k].pc = "locked" /\ keeper'[k].dir = keeper[k].dir
               /\ keeper[k].dir \in Folders
               /\ lock[keeper[k].dir] = Nobody /\ lock'[keeper[k].dir] = k
               /\ \A f \in Folders \ {keeper[k].dir} : lock'[f] = lock[f]
         /\ lock' \in [Folders -> Windows \cup Keepers \cup {Nobody}]
         /\ OtherKeepersStay(k) /\ keeper' \in [Keepers -> KeeperStates]
         /\ UNCHANGED <<record, files, dirs, out, marker, intent, k1, window, memories, last, left>>
<1>1. CASE KeeperOff(k) /\ UNCHANGED lock
  BY <1>1, KeeperOffFacts DEF TakesVault, KeeperAt, keeperUnchanged, TypeOK
<1>2. CASE /\ Seen(keeper[k].dir) /\ lock[keeper[k].dir] = Nobody
           /\ lock' = [lock EXCEPT ![keeper[k].dir] = k]
           /\ keeper' = [keeper EXCEPT ![k].pc = "locked"]
  <2>1. keeper[k].dir \in Folders
    BY <1>2, SeenFacts
  <2>2. /\ lock'[keeper[k].dir] = k /\ \A f \in Folders \ {keeper[k].dir} : lock'[f] = lock[f]
        /\ lock' \in [Folders -> Windows \cup Keepers \cup {Nobody}]
    BY <1>2, <2>1 DEF TypeOK
  <2> QED
    BY <1>2, <2>1, <2>2, KeeperGotoFacts DEF TakesVault, KeeperAt, keeperUnchanged
<1> QED
  BY <1>1, <1>2 DEF TakesVault

LEMMA OpensFacts ==
  ASSUME TypeOK, Places, NEW k \in Keepers, Opens(k)
  PROVE  LET dir == keeper[k].dir IN
         /\ keeper[k].pc = "locked" /\ dir \in Folders
         /\ \/ /\ keeper'[k].pc = "serving" /\ keeper'[k].dir = dir /\ dir \in dirs
               /\ UNCHANGED lock
               /\ marker' = (marker /\ dir # record.dir)
               /\ \E renewed \in SUBSET Entries : \A n \in Names :
                    files'[dir][n] = IF n \in renewed THEN Fresh ELSE files[dir][n]
               /\ \A f \in Folders \ {dir} : files'[f] = files[f]
               /\ memories' = IF dir = record.dir THEN [e \in Entries |-> files'[dir][e]]
                              ELSE memories
            \/ /\ keeper'[k].pc = "off"
               /\ lock'[dir] = Nobody /\ \A f \in Folders \ {dir} : lock'[f] = lock[f]
               /\ UNCHANGED <<files, marker, memories>>
         /\ files' \in [Folders -> [Names -> Contents]]
         /\ memories' \in [Entries -> Contents]
         /\ lock' \in [Folders -> Windows \cup Keepers \cup {Nobody}]
         /\ OtherKeepersStay(k) /\ keeper' \in [Keepers -> KeeperStates]
         /\ UNCHANGED <<record, dirs, out, intent, k1, window, last, left>>
<1> DEFINE dir == keeper[k].dir
<1>0. dir \in Folders
  BY DEF Opens, KeeperAt, Places
<1>1. CASE Seen(dir) /\ intent[dir] = Nobody
  <2>1. PICK kept \in SUBSET Names : OpensVault(k, kept)
    BY <1>1 DEF Opens, Inside
  <2>2. files' = [files EXCEPT ![dir] = [n \in Names |->
                    IF n \in Entries \ kept THEN Fresh ELSE @[n]]]
    BY <2>1 DEF OpensVault
  <2>3. /\ \A n \in Names : files'[dir][n] = IF n \in Entries \ kept THEN Fresh ELSE files[dir][n]
        /\ \A f \in Folders \ {dir} : files'[f] = files[f]
        /\ files' \in [Folders -> [Names -> Contents]]
    BY <1>0, <2>2, NameFacts DEF TypeOK
  <2>4. memories' = IF dir = record.dir THEN [e \in Entries |-> files'[dir][e]] ELSE memories
    BY <2>1 DEF OpensVault
  <2>5. memories' \in [Entries -> Contents]
    BY <1>0, <2>3, <2>4, NameFacts DEF TypeOK
  <2>6. Entries \ kept \in SUBSET Entries
    OBVIOUS
  <2>7. /\ keeper'[k].pc = "serving" /\ keeper'[k].dir = dir
        /\ OtherKeepersStay(k) /\ keeper' \in [Keepers -> KeeperStates]
    BY <2>1, KeeperGotoFacts DEF OpensVault
  <2>8. /\ dir \in dirs /\ UNCHANGED lock /\ marker' = (marker /\ dir # record.dir)
        /\ lock' \in [Folders -> Windows \cup Keepers \cup {Nobody}]
    BY <1>1, <2>1, SeenFacts DEF OpensVault, TypeOK
  <2>9. \E renewed \in SUBSET Entries : \A n \in Names :
          files'[dir][n] = IF n \in renewed THEN Fresh ELSE files[dir][n]
    BY <2>3, <2>6
  <2> QED
    BY <1>0, <2>3, <2>4, <2>5, <2>7, <2>8, <2>9 DEF Opens, KeeperAt, keeperUnchanged
<1>2. CASE /\ KeeperOff(k) /\ lock' = [lock EXCEPT ![dir] = Nobody]
           /\ UNCHANGED <<files, marker, memories>>
  <2>1. /\ lock'[dir] = Nobody /\ \A f \in Folders \ {dir} : lock'[f] = lock[f]
        /\ lock' \in [Folders -> Windows \cup Keepers \cup {Nobody}]
    BY <1>0, <1>2 DEF TypeOK
  <2>2. files' \in [Folders -> [Names -> Contents]] /\ memories' \in [Entries -> Contents]
    BY <1>2 DEF TypeOK
  <2> QED
    BY <1>0, <1>2, <2>1, <2>2, KeeperOffFacts DEF Opens, KeeperAt, keeperUnchanged
<1> QED
  BY <1>1, <1>2 DEF Opens

LEMMA SaveFacts ==
  ASSUME TypeOK, NEW k \in Keepers, NEW e \in Entries, Save(k, e)
  PROVE  /\ keeper[k].pc = "serving" /\ keeper[k].dir = record.dir /\ record.dir \in dirs
         /\ \E content \in Contents \ {Absent} :
              /\ OnlyFile(record.dir, e, content) /\ memories'[e] = content
              /\ \A d \in Entries \ {e} : memories'[d] = memories[d]
         /\ memories' \in [Entries -> Contents]
         /\ last' \in [move : 0..MaxMoves, save : 0..MaxSaves, trouble : 0..MaxTroubles]
         /\ last'.move = last.move
         /\ UNCHANGED <<record, dirs, out, marker, intent, lock, k1, window, keeper, left>>
<1>1. record.dir \in Folders /\ e \in Names
  BY NameFacts DEF TypeOK
<1>2. last.save \in 0..MaxSaves /\ last.save < MaxSaves /\ MaxSaves \in Nat /\ MaxMoves \in Nat
  BY MoveBoundAssumption DEF Save, TypeOK
<1>3. last.save + 2 \in Contents \ {Absent}
  BY <1>2 DEF Contents, Absent
<1>4. OnlyFile(record.dir, e, last.save + 2)
  BY <1>1, <1>3, PutFacts DEF Save
<1>5. /\ memories' \in [Entries -> Contents] /\ memories'[e] = last.save + 2
      /\ \A d \in Entries \ {e} : memories'[d] = memories[d]
  BY <1>3 DEF Save, TypeOK
<1>6. /\ last' \in [move : 0..MaxMoves, save : 0..MaxSaves, trouble : 0..MaxTroubles]
      /\ last'.move = last.move
  BY <1>2 DEF Save, TypeOK
<1> QED
  BY <1>3, <1>4, <1>5, <1>6 DEF Save, Seen, KeeperAt, keeperUnchanged

LEMMA LeavesFacts ==
  ASSUME TypeOK, Places, NEW k \in Keepers, Leaves(k)
  PROVE  /\ keeper[k].pc = "serving" /\ keeper'[k].pc = "off" /\ keeper[k].dir \in Folders
         /\ lock'[keeper[k].dir] = Nobody
         /\ \A f \in Folders \ {keeper[k].dir} : lock'[f] = lock[f]
         /\ lock' \in [Folders -> Windows \cup Keepers \cup {Nobody}]
         /\ OtherKeepersStay(k) /\ keeper' \in [Keepers -> KeeperStates]
         /\ UNCHANGED <<record, files, dirs, out, marker, intent, k1, window, memories, last, left>>
<1>0. keeper[k].dir \in Folders
  BY DEF Leaves, KeeperAt, Places
<1>1. /\ lock'[keeper[k].dir] = Nobody
      /\ \A f \in Folders \ {keeper[k].dir} : lock'[f] = lock[f]
      /\ lock' \in [Folders -> Windows \cup Keepers \cup {Nobody}]
  BY <1>0 DEF Leaves, TypeOK
<1> QED
  BY <1>0, <1>1, KeeperOffFacts DEF Leaves, KeeperAt, keeperUnchanged
----------------------------------------------------------------------------
(* Every step keeps the invariant *)

\* The shapes stay.
LEMMA TypeStep ==
  ASSUME TypeOK, Places, Next
  PROVE  TypeOK'
<1> USE FolderAssumption, NameFacts DEF TypeOK, Over, Goes, OnlyFile
<1>0. UNCHANGED <<record, files, dirs, out, marker, intent, lock, k1, window, keeper, memories, last, left>> => TypeOK'
  OBVIOUS
<1>1. ASSUME NEW f \in Folders, RequestMove(f)
      PROVE  TypeOK'
  BY <1>1, RequestMoveFacts
<1>2. ASSUME NEW f \in Folders, TakeOut(f)
      PROVE  TypeOK'
  BY <1>2, TakeOutFacts
<1>3. ASSUME NEW f \in Folders, PutBack(f)
      PROVE  TypeOK'
  BY <1>3, PutBackFacts
<1>4. ASSUME NEW f \in Folders, OthersFile(f)
      PROVE  TypeOK'
  BY <1>4, OthersFileFacts
<1>5. ASSUME ForgetOldCopy
      PROVE  TypeOK'
  BY <1>5, ForgetOldCopyFacts DEF Places
<1>6. ASSUME NEW w \in Windows, EraseAsked(w)
      PROVE  TypeOK'
  BY <1>6, EraseAskedFacts
<1>7. ASSUME NEW w \in Windows, NEW kept \in SUBSET Entries, Erase(w, kept)
      PROVE  TypeOK'
  <2>1. memories' \in [Entries -> Contents]
    BY <1>7, EraseFacts
  <2>2. marker' = (kept # {}) => marker' \in BOOLEAN
    OBVIOUS
  <2>3. marker' \in BOOLEAN
    BY <1>7, <2>2, EraseFacts
  <2> HIDE DEF Over, Goes, OnlyFile
  <2> QED
    BY <1>7, <2>1, <2>3, EraseFacts
<1>8. ASSUME NEW w \in Windows, EraseRefused(w)
      PROVE  TypeOK'
  BY <1>8, EraseRefusedFacts
<1>9. ASSUME NEW w \in Windows, Start(w)
      PROVE  TypeOK'
  BY <1>9, StartFacts
<1>10. ASSUME NEW w \in Windows, TakesIntent(w)
      PROVE  TypeOK'
  BY <1>10, TakesIntentFacts
<1>11. ASSUME NEW w \in Windows, TakesLock(w)
      PROVE  TypeOK'
  BY <1>11, TakesLockFacts
<1>12. ASSUME NEW w \in Windows, CannotHave(w)
      PROVE  TypeOK'
  BY <1>12, CannotHaveFacts, OpenedFacts, TroubleFacts DEF CannotHave
<1>13. ASSUME NEW w \in Windows, NoAttempt(w)
      PROVE  TypeOK'
  BY <1>13, NoAttemptFacts, OpenedFacts, TroubleFacts DEF NoAttempt
<1>14. ASSUME NEW w \in Windows, Attempt(w)
      PROVE  TypeOK'
  BY <1>14, AttemptFacts
<1>15. ASSUME NEW w \in Windows, RemovesHalf(w)
      PROVE  TypeOK'
  BY <1>15, RemovesHalfFacts
<1>16. ASSUME NEW w \in Windows, HalfRemoved(w)
      PROVE  TypeOK'
  <2>1. window[w].pc = "half" /\ window[w].move.to \in Folders
    BY <1>16, HalfRemovedFacts DEF Places, Attempting
  <2>2. CASE Opened(w) /\ Over(w) /\ UNCHANGED <<record, left>>
    <3>1. /\ intent' \in [Folders -> Windows \cup {Nobody}]
          /\ lock' \in [Folders -> Windows \cup Keepers \cup {Nobody}]
      BY <2>2, OpenedFacts
    <3>2. k1' \in Windows \cup {Nobody} /\ window' \in [Windows -> WindowStates]
      BY <2>2 DEF TypeOK, Over
    <3>3. /\ UNCHANGED <<files, dirs, out, marker, keeper, memories>>
          /\ last' \in [move : 0..MaxMoves, save : 0..MaxSaves, trouble : 0..MaxTroubles]
      BY <1>16, HalfRemovedFacts DEF TypeOK
    <3> HIDE DEF Over, Goes
    <3> QED
      BY <2>2, <3>1, <3>2, <3>3 DEF TypeOK
  <2>3. CASE /\ Goes(w, "check") \/ Goes(w, "failed")
             /\ UNCHANGED <<record, left, intent, lock, k1>>
    BY <1>16, <2>3, HalfRemovedFacts
  <2>4. CASE /\ record' \in [dir : Folders, move : Moves,
                            cleanup : [from : Folders \cup {NoFolder}, id : 0..MaxMoves]]
             /\ left' = IF TRUE THEN left ELSE left \cup {window[w].move.to}
             /\ Opened(w) /\ Over(w)
    <3>1. left' \subseteq Folders
      BY <2>1, <2>4 DEF TypeOK
    <3>2. k1' \in Windows \cup {Nobody} /\ window' \in [Windows -> WindowStates]
      BY <2>4 DEF TypeOK, Over
    <3>3. /\ UNCHANGED <<files, dirs, out, marker, keeper, memories>>
          /\ last' \in [move : 0..MaxMoves, save : 0..MaxSaves, trouble : 0..MaxTroubles]
      BY <1>16, HalfRemovedFacts DEF TypeOK
    <3> QED
      BY <2>4, <3>1, <3>2, <3>3, OpenedFacts
  <2> QED
    BY <1>16, <2>2, <2>3, <2>4, HalfRemovedFacts, AfterHalfFacts
<1>17. ASSUME NEW w \in Windows, HalfNotRemoved(w)
      PROVE  TypeOK'
  <2>1. window[w].pc = "half" /\ window[w].move.to \in Folders
    BY <1>17, HalfNotRemovedFacts DEF Places, Attempting
  <2>2. CASE Opened(w) /\ Over(w) /\ UNCHANGED <<record, left>>
    <3>1. /\ intent' \in [Folders -> Windows \cup {Nobody}]
          /\ lock' \in [Folders -> Windows \cup Keepers \cup {Nobody}]
      BY <2>2, OpenedFacts
    <3>2. k1' \in Windows \cup {Nobody} /\ window' \in [Windows -> WindowStates]
      BY <2>2 DEF TypeOK, Over
    <3>3. /\ UNCHANGED <<files, dirs, out, marker, keeper, memories>>
          /\ last' \in [move : 0..MaxMoves, save : 0..MaxSaves, trouble : 0..MaxTroubles]
      BY <1>17, HalfNotRemovedFacts DEF TypeOK
    <3> HIDE DEF Over, Goes
    <3> QED
      BY <2>2, <3>1, <3>2, <3>3 DEF TypeOK
  <2>3. CASE /\ Goes(w, "check") \/ Goes(w, "failed")
             /\ UNCHANGED <<record, left, intent, lock, k1>>
    BY <1>17, <2>3, HalfNotRemovedFacts
  <2>4. CASE /\ record' \in [dir : Folders, move : Moves,
                            cleanup : [from : Folders \cup {NoFolder}, id : 0..MaxMoves]]
             /\ left' = IF FALSE THEN left ELSE left \cup {window[w].move.to}
             /\ Opened(w) /\ Over(w)
    <3>1. left' \subseteq Folders
      BY <2>1, <2>4 DEF TypeOK
    <3>2. k1' \in Windows \cup {Nobody} /\ window' \in [Windows -> WindowStates]
      BY <2>4 DEF TypeOK, Over
    <3>3. /\ UNCHANGED <<files, dirs, out, marker, keeper, memories>>
          /\ last' \in [move : 0..MaxMoves, save : 0..MaxSaves, trouble : 0..MaxTroubles]
      BY <1>17, HalfNotRemovedFacts DEF TypeOK
    <3> QED
      BY <2>4, <3>1, <3>2, <3>3, OpenedFacts
  <2> QED
    BY <1>17, <2>2, <2>3, <2>4, HalfNotRemovedFacts, AfterHalfFacts
<1>18. ASSUME NEW w \in Windows, AfterFailure(w)
      PROVE  TypeOK'
  <2>1. CASE Opened(w)
    BY <1>18, <2>1, AfterFailureFacts, OpenedFacts
  <2>2. CASE UNCHANGED <<intent, lock, k1>> /\ window' \in [Windows -> WindowStates]
    BY <1>18, <2>2, AfterFailureFacts
  <2> QED
    BY <1>18, <2>1, <2>2, AfterFailureFacts
<1>19. ASSUME NEW w \in Windows, MakesFolder(w)
      PROVE  TypeOK'
  BY <1>19, MakesFolderFacts
<1>20. ASSUME NEW w \in Windows, FolderNotUsable(w)
      PROVE  TypeOK'
  BY <1>20, FolderNotUsableFacts
<1>21. ASSUME NEW w \in Windows, MarksFolder(w)
      PROVE  TypeOK'
  BY <1>21, MarksFolderFacts
<1>22. ASSUME NEW w \in Windows, NEW n \in Moved, Copies(w, n)
      PROVE  TypeOK'
  BY <1>22, CopiesFacts
<1>23. ASSUME NEW w \in Windows, Verifies(w)
      PROVE  TypeOK'
  BY <1>23, VerifiesFacts
<1>24. ASSUME NEW w \in Windows, Unreachable(w)
      PROVE  TypeOK'
  BY <1>24, UnreachableFacts
<1>25. ASSUME NEW w \in Windows, Commits(w)
      PROVE  TypeOK'
  BY <1>25, CommitsFacts
<1>26. ASSUME NEW w \in Windows, CleansOld(w)
      PROVE  TypeOK'
  <2>1. CASE Opened(w)
    BY <1>26, <2>1, CleansOldFacts, OpenedFacts
  <2>2. CASE UNCHANGED <<intent, lock, k1>> /\ window' \in [Windows -> WindowStates]
    BY <1>26, <2>2, CleansOldFacts
  <2> QED
    BY <1>26, <2>1, <2>2, CleansOldFacts
<1>27. ASSUME NEW w \in Windows, Unmarks(w)
      PROVE  TypeOK'
  BY <1>27, UnmarksFacts
<1>28. ASSUME NEW w \in Windows, NEW n \in Moved, RemovesOld(w, n)
      PROVE  TypeOK'
  BY <1>28, RemovesOldFacts
<1>29. ASSUME NEW w \in Windows, OldNotRemoved(w)
      PROVE  TypeOK'
  <2>1. Opened(w) /\ Trouble
    BY <1>29 DEF OldNotRemoved
  <2> QED
    BY <1>29, <2>1, OldNotRemovedFacts, OpenedFacts, TroubleFacts
<1>30. ASSUME NEW w \in Windows, ClearsCleanup(w)
      PROVE  TypeOK'
  BY <1>30, ClearsCleanupFacts, OpenedFacts, TroubleFacts, SMTT(60) DEF ClearsCleanup
<1>31. ASSUME NEW w \in Windows, Stop(w)
      PROVE  TypeOK'
  BY <1>31, StopFacts, OpenedFacts DEF Stop
<1>32. ASSUME NEW k \in Keepers, Resolve(k)
      PROVE  TypeOK'
  BY <1>32, ResolveFacts
<1>33. ASSUME NEW k \in Keepers, ProbesIntent(k)
      PROVE  TypeOK'
  BY <1>33, ProbesIntentFacts
<1>34. ASSUME NEW k \in Keepers, TakesVault(k)
      PROVE  TypeOK'
  BY <1>34, TakesVaultFacts
<1>35. ASSUME NEW k \in Keepers, Opens(k)
      PROVE  TypeOK'
  BY <1>35, OpensFacts
<1>36. ASSUME NEW k \in Keepers, Leaves(k)
      PROVE  TypeOK'
  BY <1>36, LeavesFacts
<1>37. ASSUME NEW k \in Keepers, NEW e \in Entries, Save(k, e)
      PROVE  TypeOK'
  BY <1>37, SaveFacts
<1> HIDE DEF TypeOK, Over, Goes, OnlyFile
<1> QED
  BY <1>0, <1>1, <1>2, <1>3, <1>4, <1>5, <1>6, <1>7, <1>8, <1>9, <1>10, <1>11, <1>12,
     <1>13, <1>14, <1>15, <1>16, <1>17, <1>18, <1>19, <1>20, <1>21, <1>22, <1>23, <1>24,
     <1>25, <1>26, <1>27, <1>28, <1>29, <1>30, <1>31, <1>32, <1>33, <1>34, <1>35, <1>36,
     <1>37 DEF Next, StartSteps, KeeperSteps

\* Every process goes on working in some folder.
LEMMA PlacesStep ==
  ASSUME TypeOK, Places, Next
  PROVE  Places'
<1> USE FolderAssumption, IdleFacts DEF Places, Over, Goes, OthersStay, OtherKeepersStay, Attempting, NoMove, NoCleanup
<1>0. UNCHANGED <<record, window, keeper>> => Places'
  OBVIOUS
<1>1. ASSUME NEW f \in Folders, RequestMove(f)
      PROVE  Places'
  BY <1>1, RequestMoveFacts, WindowFacts
<1>2. ASSUME ForgetOldCopy
      PROVE  Places'
  BY <1>2, ForgetOldCopyFacts, WindowFacts
<1>3. ASSUME NEW w \in Windows, EraseAsked(w)
      PROVE  Places'
  BY <1>3, EraseAskedFacts, WindowFacts
<1>4. ASSUME NEW w \in Windows, NEW kept \in SUBSET Entries, Erase(w, kept)
      PROVE  Places'
  BY <1>4, EraseFacts, WindowFacts, ZenonT(60)
<1>5. ASSUME NEW w \in Windows, EraseRefused(w)
      PROVE  Places'
  BY <1>5, EraseRefusedFacts, WindowFacts
<1>6. ASSUME NEW w \in Windows, Start(w)
      PROVE  Places'
  BY <1>6, StartFacts, WindowFacts
<1>7. ASSUME NEW w \in Windows, TakesIntent(w)
      PROVE  Places'
  BY <1>7, TakesIntentFacts, WindowFacts
<1>8. ASSUME NEW w \in Windows, TakesLock(w)
      PROVE  Places'
  BY <1>8, TakesLockFacts, WindowFacts
<1>9. ASSUME NEW w \in Windows, CannotHave(w)
      PROVE  Places'
  BY <1>9, CannotHaveFacts, WindowFacts
<1>10. ASSUME NEW w \in Windows, NoAttempt(w)
      PROVE  Places'
  BY <1>10, NoAttemptFacts, WindowFacts
<1>11. ASSUME NEW w \in Windows, Attempt(w)
      PROVE  Places'
  BY <1>11, AttemptFacts, WindowFacts
<1>12. ASSUME NEW w \in Windows, HalfRemoved(w)
      PROVE  Places'
  BY <1>12, HalfRemovedFacts, AfterHalfFacts, WindowFacts
<1>13. ASSUME NEW w \in Windows, HalfNotRemoved(w)
      PROVE  Places'
  BY <1>13, HalfNotRemovedFacts, AfterHalfFacts, WindowFacts
<1>14. ASSUME NEW w \in Windows, AfterFailure(w)
      PROVE  Places'
  BY <1>14, AfterFailureFacts, WindowFacts
<1>15. ASSUME NEW w \in Windows, MakesFolder(w)
      PROVE  Places'
  BY <1>15, MakesFolderFacts, WindowFacts
<1>16. ASSUME NEW w \in Windows, FolderNotUsable(w)
      PROVE  Places'
  BY <1>16, FolderNotUsableFacts, WindowFacts
<1>17. ASSUME NEW w \in Windows, MarksFolder(w)
      PROVE  Places'
  BY <1>17, MarksFolderFacts, WindowFacts
<1>18. ASSUME NEW w \in Windows, NEW n \in Moved, Copies(w, n)
      PROVE  Places'
  BY <1>18, CopiesFacts, WindowFacts
<1>19. ASSUME NEW w \in Windows, Verifies(w)
      PROVE  Places'
  BY <1>19, VerifiesFacts, WindowFacts
<1>20. ASSUME NEW w \in Windows, Unreachable(w)
      PROVE  Places'
  BY <1>20, UnreachableFacts, WindowFacts
<1>21. ASSUME NEW w \in Windows, Commits(w)
      PROVE  Places'
  BY <1>21, CommitsFacts, WindowFacts
<1>22. ASSUME NEW w \in Windows, CleansOld(w)
      PROVE  Places'
  BY <1>22, CleansOldFacts, WindowFacts
<1>23. ASSUME NEW w \in Windows, Unmarks(w)
      PROVE  Places'
  BY <1>23, UnmarksFacts, WindowFacts
<1>24. ASSUME NEW w \in Windows, NEW n \in Moved, RemovesOld(w, n)
      PROVE  Places'
  BY <1>24, <1>0, RemovesOldFacts
<1>25. ASSUME NEW w \in Windows, OldNotRemoved(w)
      PROVE  Places'
  BY <1>25, OldNotRemovedFacts, WindowFacts
<1>26. ASSUME NEW w \in Windows, ClearsCleanup(w)
      PROVE  Places'
  BY <1>26, ClearsCleanupFacts, WindowFacts
<1>27. ASSUME NEW w \in Windows, Stop(w)
      PROVE  Places'
  BY <1>27, StopFacts, WindowFacts
<1>28. ASSUME NEW k \in Keepers, Resolve(k)
      PROVE  Places'
  <2>1. record.dir \in Folders /\ \A l \in Keepers \ {k} : keeper'[l] = keeper[l]
    BY <1>28, ResolveFacts DEF TypeOK
  <2> QED
    BY <1>28, <2>1, ResolveFacts
<1>29. ASSUME NEW k \in Keepers, ProbesIntent(k)
      PROVE  Places'
  BY <1>29, ProbesIntentFacts, WindowFacts
<1>30. ASSUME NEW k \in Keepers, TakesVault(k)
      PROVE  Places'
  BY <1>30, TakesVaultFacts, WindowFacts
<1>31. ASSUME NEW k \in Keepers, Opens(k)
      PROVE  Places'
  BY <1>31, OpensFacts, WindowFacts
<1>32. ASSUME NEW k \in Keepers, Leaves(k)
      PROVE  Places'
  BY <1>32, LeavesFacts, WindowFacts
<1>33. ASSUME NEW k \in Keepers, NEW e \in Entries, Save(k, e)
      PROVE  Places'
  BY <1>33, <1>0, SaveFacts
<1>34. ASSUME NEW f \in Folders,
             TakeOut(f) \/ PutBack(f) \/ OthersFile(f)
      PROVE  Places'
  BY <1>34, <1>0, TakeOutFacts, PutBackFacts, OthersFileFacts
<1>35. ASSUME NEW w \in Windows,
             RemovesHalf(w)
      PROVE  Places'
  BY <1>35, <1>0, RemovesHalfFacts
<1> HIDE DEF Places, Over, Goes, OthersStay, OtherKeepersStay, Attempting, NoMove, NoCleanup
<1> QED
  BY <1>0, <1>1, <1>2, <1>3, <1>4, <1>5, <1>6, <1>7, <1>8, <1>9, <1>10, <1>11, <1>12,
     <1>13, <1>14, <1>15, <1>16, <1>17, <1>18, <1>19, <1>20, <1>21, <1>22, <1>23, <1>24,
     <1>25, <1>26, <1>27, <1>28, <1>29, <1>30, <1>31, <1>32, <1>33, <1>34, <1>35
     DEF Next, StartSteps, KeeperSteps

\* What is written is written to a folder that is there.
LEMMA FoldersStep ==
  ASSUME TypeOK, Places, FoldersSound, Next
  PROVE  FoldersSound'
<1> USE NameFacts DEF FoldersSound, OnlyFile
<1>0. UNCHANGED <<dirs, files>> => FoldersSound'
  OBVIOUS
<1>1. ASSUME NEW f \in Folders, OthersFile(f)
      PROVE  FoldersSound'
  BY <1>1, OthersFileFacts
<1>2. ASSUME ForgetOldCopy
      PROVE  FoldersSound'
  BY <1>2, <1>0, ForgetOldCopyFacts
<1>3. ASSUME NEW w \in Windows, NEW kept \in SUBSET Entries, Erase(w, kept)
      PROVE  FoldersSound'
  BY <1>3, EraseFacts
<1>4. ASSUME NEW w \in Windows, RemovesHalf(w)
      PROVE  FoldersSound'
  BY <1>4, RemovesHalfFacts
<1>5. ASSUME NEW w \in Windows, MakesFolder(w)
      PROVE  FoldersSound'
  BY <1>5, MakesFolderFacts
<1>6. ASSUME NEW w \in Windows, MarksFolder(w)
      PROVE  FoldersSound'
  BY <1>6, MarksFolderFacts
<1>7. ASSUME NEW w \in Windows, NEW n \in Moved, Copies(w, n)
      PROVE  FoldersSound'
  BY <1>7, CopiesFacts
<1>8. ASSUME NEW w \in Windows, Unmarks(w)
      PROVE  FoldersSound'
  BY <1>8, UnmarksFacts
<1>9. ASSUME NEW w \in Windows, NEW n \in Moved, RemovesOld(w, n)
      PROVE  FoldersSound'
  BY <1>9, RemovesOldFacts
<1>10. ASSUME NEW w \in Windows, OldNotRemoved(w)
      PROVE  FoldersSound'
  BY <1>10, OldNotRemovedFacts
<1>11. ASSUME NEW k \in Keepers, Opens(k)
      PROVE  FoldersSound'
  BY <1>11, OpensFacts
<1>12. ASSUME NEW k \in Keepers, NEW e \in Entries, Save(k, e)
      PROVE  FoldersSound'
  BY <1>12, SaveFacts
<1>13. ASSUME NEW f \in Folders,
             RequestMove(f) \/ TakeOut(f) \/ PutBack(f)
      PROVE  FoldersSound'
  BY <1>13, <1>0, RequestMoveFacts, TakeOutFacts, PutBackFacts
<1>14. ASSUME NEW w \in Windows,
             EraseAsked(w) \/ EraseRefused(w) \/ Start(w) \/ TakesIntent(w) \/ TakesLock(w) \/
             CannotHave(w) \/ NoAttempt(w) \/ Attempt(w) \/ HalfRemoved(w) \/ HalfNotRemoved(w)
             \/ AfterFailure(w) \/ FolderNotUsable(w) \/ Verifies(w) \/ Unreachable(w) \/
             Commits(w) \/ CleansOld(w) \/ ClearsCleanup(w) \/ Stop(w)
      PROVE  FoldersSound'
  BY <1>14, <1>0, EraseAskedFacts, EraseRefusedFacts, StartFacts, TakesIntentFacts,
     TakesLockFacts, CannotHaveFacts, NoAttemptFacts, AttemptFacts, HalfRemovedFacts,
     AfterHalfFacts, HalfNotRemovedFacts, AfterFailureFacts, FolderNotUsableFacts,
     VerifiesFacts, UnreachableFacts, CommitsFacts, CleansOldFacts, ClearsCleanupFacts,
     StopFacts
<1>15. ASSUME NEW k \in Keepers,
             Resolve(k) \/ ProbesIntent(k) \/ TakesVault(k) \/ Leaves(k)
      PROVE  FoldersSound'
  BY <1>15, <1>0, ResolveFacts, ProbesIntentFacts, TakesVaultFacts, LeavesFacts
<1> HIDE DEF FoldersSound, OnlyFile
<1> QED
  BY <1>0, <1>1, <1>2, <1>3, <1>4, <1>5, <1>6, <1>7, <1>8, <1>9, <1>10, <1>11, <1>12,
     <1>13, <1>14, <1>15 DEF Next, StartSteps, KeeperSteps
\* A lock is freed only by who has it.
LEMMA WindowLocksStep ==
  ASSUME TypeOK, Places, MoveKnown, WindowLocks, KeeperLocks, Next
  PROVE  WindowLocks'
<1> USE FolderAssumption, IdleFacts DEF WindowLocks, Over, Goes, OthersStay, Attempting
<1>0. UNCHANGED <<window, lock>> => WindowLocks'
  OBVIOUS
<1>1. ASSUME ForgetOldCopy
      PROVE  WindowLocks'
  BY <1>1, <1>0, ForgetOldCopyFacts
<1>2. ASSUME NEW w \in Windows, EraseAsked(w)
      PROVE  WindowLocks'
  BY <1>2, EraseAskedFacts, WindowFacts
<1>3. ASSUME NEW w \in Windows, NEW kept \in SUBSET Entries, Erase(w, kept)
      PROVE  WindowLocks'
  <2>1. UNCHANGED lock /\ OthersStay(w) /\ window'[w].pc \in {"idle", "intent"}
        /\ window'[w].goal \in {"none", "clean"} /\ (window'[w].pc = "intent" => window'[w].goal # "none")
    BY <1>3, EraseFacts
  <2> QED
    BY <2>1
<1>4. ASSUME NEW w \in Windows, EraseRefused(w)
      PROVE  WindowLocks'
  BY <1>4, EraseRefusedFacts, WindowFacts
<1>5. ASSUME NEW w \in Windows, Start(w)
      PROVE  WindowLocks'
  BY <1>5, StartFacts, WindowFacts
<1>6. ASSUME NEW w \in Windows, TakesIntent(w)
      PROVE  WindowLocks'
  BY <1>6, TakesIntentFacts, WindowFacts
<1>7. ASSUME NEW w \in Windows, TakesLock(w)
      PROVE  WindowLocks'
  <2>1. ASSUME NEW v \in Windows \ {w} PROVE v # w
    OBVIOUS
  <2>2. /\ window[w].pc = "lock" /\ window[w].from \in Folders /\ lock[window[w].from] = Nobody
        /\ lock'[window[w].from] = w /\ \A f \in Folders \ {window[w].from} : lock'[f] = lock[f]
    BY <1>7, TakesLockFacts
  <2>3. CASE window[w].goal = "clean" /\ Goes(w, "clean")
    BY <2>2, <2>3
  <2>4. CASE window[w].goal # "clean" /\ Goes(w, "attempt")
    <3>1. window[w].goal = "move"
      BY <2>2, <2>4, WindowFacts DEF WindowStates
    <3> QED
      BY <2>2, <2>4, <3>1
  <2> QED
    BY <1>7, <2>3, <2>4, TakesLockFacts
<1>8. ASSUME NEW w \in Windows, CannotHave(w)
      PROVE  WindowLocks'
  BY <1>8, CannotHaveFacts, WindowFacts
<1>9. ASSUME NEW w \in Windows, NoAttempt(w)
      PROVE  WindowLocks'
  BY <1>9, NoAttemptFacts, WindowFacts
<1>10. ASSUME NEW w \in Windows, Attempt(w)
      PROVE  WindowLocks'
  BY <1>10, AttemptFacts, WindowFacts DEF MoveKnown
<1>11. ASSUME NEW w \in Windows, HalfRemoved(w)
      PROVE  WindowLocks'
  <2> HIDE DEF Over, Goes
  <2>1. window[w].pc = "half" /\ HalfOver(w)
        /\ UNCHANGED <<files, dirs, out, marker, keeper, memories>> /\ last'.move = last.move
    BY <1>11, HalfOverFacts
  <2>2. CASE /\ Over(w)
             /\ record'.dir = record.dir /\ record'.cleanup = record.cleanup
             /\ record'.move = NoMove /\ left \subseteq left'
             /\ Seen(window[w].move.to) => window[w].move.to \in left'
    BY <2>1, <2>2, WindowFacts DEF Over
  <2>3. CASE (Goes(w, "check") \/ Goes(w, "failed")) /\ UNCHANGED <<record, left, lock, k1>>
    BY <2>1, <2>3, WindowFacts DEF Goes
  <2>4. CASE Over(w) /\ UNCHANGED <<record, left>>
    BY <2>1, <2>4, WindowFacts DEF Over
  <2> QED
    BY <2>1, <2>2, <2>3, <2>4 DEF HalfOver
<1>12. ASSUME NEW w \in Windows, HalfNotRemoved(w)
      PROVE  WindowLocks'
  <2> HIDE DEF Over, Goes
  <2>1. window[w].pc = "half" /\ HalfOver(w)
        /\ UNCHANGED <<files, dirs, out, marker, keeper, memories>> /\ last'.move = last.move
    BY <1>12, HalfOverFacts
  <2>2. CASE /\ Over(w)
             /\ record'.dir = record.dir /\ record'.cleanup = record.cleanup
             /\ record'.move = NoMove /\ left \subseteq left'
             /\ Seen(window[w].move.to) => window[w].move.to \in left'
    BY <2>1, <2>2, WindowFacts DEF Over
  <2>3. CASE (Goes(w, "check") \/ Goes(w, "failed")) /\ UNCHANGED <<record, left, lock, k1>>
    BY <2>1, <2>3, WindowFacts DEF Goes
  <2>4. CASE Over(w) /\ UNCHANGED <<record, left>>
    BY <2>1, <2>4, WindowFacts DEF Over
  <2> QED
    BY <2>1, <2>2, <2>3, <2>4 DEF HalfOver
<1>13. ASSUME NEW w \in Windows, AfterFailure(w)
      PROVE  WindowLocks'
  BY <1>13, AfterFailureFacts, WindowFacts
<1>14. ASSUME NEW w \in Windows, MakesFolder(w)
      PROVE  WindowLocks'
  BY <1>14, MakesFolderFacts, WindowFacts
<1>15. ASSUME NEW w \in Windows, FolderNotUsable(w)
      PROVE  WindowLocks'
  BY <1>15, FolderNotUsableFacts, WindowFacts
<1>16. ASSUME NEW w \in Windows, MarksFolder(w)
      PROVE  WindowLocks'
  BY <1>16, MarksFolderFacts, WindowFacts
<1>17. ASSUME NEW w \in Windows, NEW n \in Moved, Copies(w, n)
      PROVE  WindowLocks'
  BY <1>17, CopiesFacts, WindowFacts
<1>18. ASSUME NEW w \in Windows, Verifies(w)
      PROVE  WindowLocks'
  BY <1>18, VerifiesFacts, WindowFacts
<1>19. ASSUME NEW w \in Windows, Unreachable(w)
      PROVE  WindowLocks'
  BY <1>19, UnreachableFacts, WindowFacts
<1>20. ASSUME NEW w \in Windows, Commits(w)
      PROVE  WindowLocks'
  BY <1>20, CommitsFacts, WindowFacts
<1>21. ASSUME NEW w \in Windows, CleansOld(w)
      PROVE  WindowLocks'
  BY <1>21, CleansOldFacts, WindowFacts
<1>22. ASSUME NEW w \in Windows, Unmarks(w)
      PROVE  WindowLocks'
  BY <1>22, UnmarksFacts, WindowFacts
<1>23. ASSUME NEW w \in Windows, NEW n \in Moved, RemovesOld(w, n)
      PROVE  WindowLocks'
  BY <1>23, <1>0, RemovesOldFacts
<1>24. ASSUME NEW w \in Windows, OldNotRemoved(w)
      PROVE  WindowLocks'
  BY <1>24, OldNotRemovedFacts, WindowFacts
<1>25. ASSUME NEW w \in Windows, ClearsCleanup(w)
      PROVE  WindowLocks'
  BY <1>25, ClearsCleanupFacts, WindowFacts
<1>26. ASSUME NEW w \in Windows, Stop(w)
      PROVE  WindowLocks'
  BY <1>26, StopFacts, WindowFacts
<1>27. ASSUME NEW k \in Keepers, TakesVault(k)
      PROVE  WindowLocks'
  BY <1>27, TakesVaultFacts, WindowFacts
<1>28. ASSUME NEW k \in Keepers, Opens(k)
      PROVE  WindowLocks'
  <2>1. CASE UNCHANGED lock
    BY <1>28, <2>1, <1>0, OpensFacts
  <2>2. CASE lock'[keeper[k].dir] = Nobody
        /\ \A f \in Folders \ {keeper[k].dir} : lock'[f] = lock[f]
    <3>1. lock[keeper[k].dir] = k /\ k \notin Windows
      BY <1>28, OpensFacts DEF KeeperLocks
    <3> QED
      BY <1>28, <2>2, <3>1, OpensFacts
  <2> QED
    BY <1>28, <2>1, <2>2, OpensFacts
<1>29. ASSUME NEW k \in Keepers, Leaves(k)
      PROVE  WindowLocks'
  BY <1>29, LeavesFacts, WindowFacts DEF KeeperLocks
<1>30. ASSUME NEW k \in Keepers, NEW e \in Entries, Save(k, e)
      PROVE  WindowLocks'
  BY <1>30, <1>0, SaveFacts
<1>31. ASSUME NEW f \in Folders,
             RequestMove(f) \/ TakeOut(f) \/ PutBack(f) \/ OthersFile(f)
      PROVE  WindowLocks'
  BY <1>31, <1>0, RequestMoveFacts, TakeOutFacts, PutBackFacts, OthersFileFacts
<1>32. ASSUME NEW w \in Windows,
             RemovesHalf(w)
      PROVE  WindowLocks'
  BY <1>32, <1>0, RemovesHalfFacts
<1>33. ASSUME NEW k \in Keepers,
             Resolve(k) \/ ProbesIntent(k)
      PROVE  WindowLocks'
  BY <1>33, <1>0, ResolveFacts, ProbesIntentFacts
<1> HIDE DEF WindowLocks, Over, Goes, OthersStay, Attempting
<1> QED
  BY <1>0, <1>1, <1>2, <1>3, <1>4, <1>5, <1>6, <1>7, <1>8, <1>9, <1>10, <1>11, <1>12,
     <1>13, <1>14, <1>15, <1>16, <1>17, <1>18, <1>19, <1>20, <1>21, <1>22, <1>23, <1>24,
     <1>25, <1>26, <1>27, <1>28, <1>29, <1>30, <1>31, <1>32, <1>33 DEF Next, StartSteps,
     KeeperSteps

\* ... and a keeper's too.
LEMMA KeeperLocksStep ==
  ASSUME TypeOK, Places, WindowLocks, KeeperLocks, Next
  PROVE  KeeperLocks'
<1> USE FolderAssumption DEF KeeperLocks, Over, OtherKeepersStay
<1>0. UNCHANGED <<keeper, lock>> => KeeperLocks'
  OBVIOUS
<1>a. \A k \in Keepers : keeper[k].pc \in {"locked", "serving"} => keeper[k].dir \in Folders
  BY DEF Places
<1>1. ASSUME ForgetOldCopy
      PROVE  KeeperLocks'
  BY <1>1, <1>0, ForgetOldCopyFacts
<1>2. ASSUME NEW w \in Windows, NEW kept \in SUBSET Entries, Erase(w, kept)
      PROVE  KeeperLocks'
  BY <1>2, <1>0, EraseFacts
<1>3. ASSUME NEW w \in Windows, TakesLock(w)
      PROVE  KeeperLocks'
  BY <1>3, TakesLockFacts, <1>a
<1>4. ASSUME NEW w \in Windows, CannotHave(w)
      PROVE  KeeperLocks'
  BY <1>4, CannotHaveFacts, <1>a
<1>5. ASSUME NEW w \in Windows, NoAttempt(w)
      PROVE  KeeperLocks'
  BY <1>5, NoAttemptFacts, <1>a
<1>6. ASSUME NEW w \in Windows, HalfRemoved(w)
      PROVE  KeeperLocks'
  <2> HIDE DEF Over, Goes
  <2>1. window[w].pc = "half" /\ HalfOver(w)
        /\ UNCHANGED <<files, dirs, out, marker, keeper, memories>> /\ last'.move = last.move
    BY <1>6, HalfOverFacts
  <2>2. CASE /\ Over(w)
             /\ record'.dir = record.dir /\ record'.cleanup = record.cleanup
             /\ record'.move = NoMove /\ left \subseteq left'
             /\ Seen(window[w].move.to) => window[w].move.to \in left'
    BY <2>1, <2>2, <1>a DEF Over
  <2>3. CASE (Goes(w, "check") \/ Goes(w, "failed")) /\ UNCHANGED <<record, left, lock, k1>>
    BY <2>1, <2>3, <1>a DEF Goes
  <2>4. CASE Over(w) /\ UNCHANGED <<record, left>>
    BY <2>1, <2>4, <1>a DEF Over
  <2> QED
    BY <2>1, <2>2, <2>3, <2>4 DEF HalfOver
<1>7. ASSUME NEW w \in Windows, HalfNotRemoved(w)
      PROVE  KeeperLocks'
  <2> HIDE DEF Over, Goes
  <2>1. window[w].pc = "half" /\ HalfOver(w)
        /\ UNCHANGED <<files, dirs, out, marker, keeper, memories>> /\ last'.move = last.move
    BY <1>7, HalfOverFacts
  <2>2. CASE /\ Over(w)
             /\ record'.dir = record.dir /\ record'.cleanup = record.cleanup
             /\ record'.move = NoMove /\ left \subseteq left'
             /\ Seen(window[w].move.to) => window[w].move.to \in left'
    BY <2>1, <2>2, <1>a DEF Over
  <2>3. CASE (Goes(w, "check") \/ Goes(w, "failed")) /\ UNCHANGED <<record, left, lock, k1>>
    BY <2>1, <2>3, <1>a DEF Goes
  <2>4. CASE Over(w) /\ UNCHANGED <<record, left>>
    BY <2>1, <2>4, <1>a DEF Over
  <2> QED
    BY <2>1, <2>2, <2>3, <2>4 DEF HalfOver
<1>8. ASSUME NEW w \in Windows, AfterFailure(w)
      PROVE  KeeperLocks'
  BY <1>8, AfterFailureFacts, <1>a
<1>9. ASSUME NEW w \in Windows, NEW n \in Moved, Copies(w, n)
      PROVE  KeeperLocks'
  BY <1>9, <1>0, CopiesFacts
<1>10. ASSUME NEW w \in Windows, CleansOld(w)
      PROVE  KeeperLocks'
  BY <1>10, CleansOldFacts, <1>a
<1>11. ASSUME NEW w \in Windows, NEW n \in Moved, RemovesOld(w, n)
      PROVE  KeeperLocks'
  BY <1>11, <1>0, RemovesOldFacts
<1>12. ASSUME NEW w \in Windows, OldNotRemoved(w)
      PROVE  KeeperLocks'
  BY <1>12, OldNotRemovedFacts, <1>a
<1>13. ASSUME NEW w \in Windows, ClearsCleanup(w)
      PROVE  KeeperLocks'
  BY <1>13, ClearsCleanupFacts, <1>a
<1>14. ASSUME NEW w \in Windows, Stop(w)
      PROVE  KeeperLocks'
  BY <1>14, StopFacts, <1>a
<1>15. ASSUME NEW k \in Keepers, Resolve(k)
      PROVE  KeeperLocks'
  BY <1>15, ResolveFacts, <1>a
<1>16. ASSUME NEW k \in Keepers, ProbesIntent(k)
      PROVE  KeeperLocks'
  BY <1>16, ProbesIntentFacts, <1>a
<1>17. ASSUME NEW k \in Keepers, TakesVault(k)
      PROVE  KeeperLocks'
  BY <1>17, TakesVaultFacts, <1>a
<1>18. ASSUME NEW k \in Keepers, Opens(k)
      PROVE  KeeperLocks'
  <2>1. keeper[k].pc = "locked" /\ OtherKeepersStay(k)
    BY <1>18, OpensFacts
  <2>2. CASE keeper'[k].pc = "serving" /\ keeper'[k].dir = keeper[k].dir /\ UNCHANGED lock
    BY <2>1, <2>2, <1>a
  <2>3. CASE keeper'[k].pc = "off" /\ \A f \in Folders \ {keeper[k].dir} : lock'[f] = lock[f]
    BY <2>1, <2>3, <1>a
  <2> QED
    BY <1>18, <2>2, <2>3, OpensFacts
<1>19. ASSUME NEW k \in Keepers, Leaves(k)
      PROVE  KeeperLocks'
  BY <1>19, LeavesFacts, <1>a
<1>20. ASSUME NEW k \in Keepers, NEW e \in Entries, Save(k, e)
      PROVE  KeeperLocks'
  BY <1>20, <1>0, SaveFacts
<1>21. ASSUME NEW f \in Folders,
             RequestMove(f) \/ TakeOut(f) \/ PutBack(f) \/ OthersFile(f)
      PROVE  KeeperLocks'
  BY <1>21, <1>0, RequestMoveFacts, TakeOutFacts, PutBackFacts, OthersFileFacts
<1>22. ASSUME NEW w \in Windows,
             EraseAsked(w) \/ EraseRefused(w) \/ Start(w) \/ TakesIntent(w) \/ Attempt(w) \/
             RemovesHalf(w) \/ MakesFolder(w) \/ FolderNotUsable(w) \/ MarksFolder(w) \/
             Verifies(w) \/ Unreachable(w) \/ Commits(w) \/ Unmarks(w)
      PROVE  KeeperLocks'
  BY <1>22, <1>0, EraseAskedFacts, EraseRefusedFacts, StartFacts, TakesIntentFacts,
     AttemptFacts, RemovesHalfFacts, MakesFolderFacts, FolderNotUsableFacts,
     MarksFolderFacts, VerifiesFacts, UnreachableFacts, CommitsFacts, UnmarksFacts
<1> HIDE DEF KeeperLocks, Over, OtherKeepersStay
<1> QED
  BY <1>0, <1>1, <1>2, <1>3, <1>4, <1>5, <1>6, <1>7, <1>8, <1>9, <1>10, <1>11, <1>12,
     <1>13, <1>14, <1>15, <1>16, <1>17, <1>18, <1>19, <1>20, <1>21, <1>22 DEF Next,
     StartSteps, KeeperSteps

\* K1 is taken when nobody has it, and given back at the switch or the end.
LEMMA KeyLockHeldStep ==
  ASSUME TypeOK, Places, KeyLockHeld, Next
  PROVE  KeyLockHeld'
<1> USE FolderAssumption, IdleFacts DEF KeyLockHeld, Over, Goes, OthersStay, Attempting
<1>0. UNCHANGED <<window, k1>> => KeyLockHeld'
  OBVIOUS
<1>1. ASSUME ForgetOldCopy
      PROVE  KeyLockHeld'
  BY <1>1, <1>0, ForgetOldCopyFacts
<1>2. ASSUME NEW w \in Windows, EraseAsked(w)
      PROVE  KeyLockHeld'
  BY <1>2, EraseAskedFacts
<1>3. ASSUME NEW w \in Windows, NEW kept \in SUBSET Entries, Erase(w, kept)
      PROVE  KeyLockHeld'
  BY <1>3, EraseFacts
<1>4. ASSUME NEW w \in Windows, EraseRefused(w)
      PROVE  KeyLockHeld'
  BY <1>4, EraseRefusedFacts
<1>5. ASSUME NEW w \in Windows, Start(w)
      PROVE  KeyLockHeld'
  BY <1>5, StartFacts
<1>6. ASSUME NEW w \in Windows, TakesIntent(w)
      PROVE  KeyLockHeld'
  BY <1>6, TakesIntentFacts
<1>7. ASSUME NEW w \in Windows, TakesLock(w)
      PROVE  KeyLockHeld'
  BY <1>7, TakesLockFacts
<1>8. ASSUME NEW w \in Windows, CannotHave(w)
      PROVE  KeyLockHeld'
  BY <1>8, CannotHaveFacts
<1>9. ASSUME NEW w \in Windows, NoAttempt(w)
      PROVE  KeyLockHeld'
  BY <1>9, NoAttemptFacts
<1>10. ASSUME NEW w \in Windows, Attempt(w)
      PROVE  KeyLockHeld'
  BY <1>10, AttemptFacts
<1>11. ASSUME NEW w \in Windows, HalfRemoved(w)
      PROVE  KeyLockHeld'
  <2> HIDE DEF Over, Goes
  <2>1. window[w].pc = "half" /\ HalfOver(w)
        /\ UNCHANGED <<files, dirs, out, marker, keeper, memories>> /\ last'.move = last.move
    BY <1>11, HalfOverFacts
  <2>2. CASE /\ Over(w)
             /\ record'.dir = record.dir /\ record'.cleanup = record.cleanup
             /\ record'.move = NoMove /\ left \subseteq left'
             /\ Seen(window[w].move.to) => window[w].move.to \in left'
    BY <2>1, <2>2 DEF Over
  <2>3. CASE (Goes(w, "check") \/ Goes(w, "failed")) /\ UNCHANGED <<record, left, lock, k1>>
    BY <2>1, <2>3 DEF Goes
  <2>4. CASE Over(w) /\ UNCHANGED <<record, left>>
    BY <2>1, <2>4 DEF Over
  <2> QED
    BY <2>1, <2>2, <2>3, <2>4 DEF HalfOver
<1>12. ASSUME NEW w \in Windows, HalfNotRemoved(w)
      PROVE  KeyLockHeld'
  <2> HIDE DEF Over, Goes
  <2>1. window[w].pc = "half" /\ HalfOver(w)
        /\ UNCHANGED <<files, dirs, out, marker, keeper, memories>> /\ last'.move = last.move
    BY <1>12, HalfOverFacts
  <2>2. CASE /\ Over(w)
             /\ record'.dir = record.dir /\ record'.cleanup = record.cleanup
             /\ record'.move = NoMove /\ left \subseteq left'
             /\ Seen(window[w].move.to) => window[w].move.to \in left'
    BY <2>1, <2>2 DEF Over
  <2>3. CASE (Goes(w, "check") \/ Goes(w, "failed")) /\ UNCHANGED <<record, left, lock, k1>>
    BY <2>1, <2>3 DEF Goes
  <2>4. CASE Over(w) /\ UNCHANGED <<record, left>>
    BY <2>1, <2>4 DEF Over
  <2> QED
    BY <2>1, <2>2, <2>3, <2>4 DEF HalfOver
<1>13. ASSUME NEW w \in Windows, AfterFailure(w)
      PROVE  KeyLockHeld'
  BY <1>13, AfterFailureFacts
<1>14. ASSUME NEW w \in Windows, MakesFolder(w)
      PROVE  KeyLockHeld'
  BY <1>14, MakesFolderFacts
<1>15. ASSUME NEW w \in Windows, FolderNotUsable(w)
      PROVE  KeyLockHeld'
  BY <1>15, FolderNotUsableFacts
<1>16. ASSUME NEW w \in Windows, MarksFolder(w)
      PROVE  KeyLockHeld'
  BY <1>16, MarksFolderFacts
<1>17. ASSUME NEW w \in Windows, NEW n \in Moved, Copies(w, n)
      PROVE  KeyLockHeld'
  BY <1>17, CopiesFacts
<1>18. ASSUME NEW w \in Windows, Verifies(w)
      PROVE  KeyLockHeld'
  BY <1>18, VerifiesFacts
<1>19. ASSUME NEW w \in Windows, Unreachable(w)
      PROVE  KeyLockHeld'
  BY <1>19, UnreachableFacts
<1>20. ASSUME NEW w \in Windows, Commits(w)
      PROVE  KeyLockHeld'
  BY <1>20, CommitsFacts
<1>21. ASSUME NEW w \in Windows, CleansOld(w)
      PROVE  KeyLockHeld'
  BY <1>21, CleansOldFacts
<1>22. ASSUME NEW w \in Windows, Unmarks(w)
      PROVE  KeyLockHeld'
  BY <1>22, UnmarksFacts
<1>23. ASSUME NEW w \in Windows, NEW n \in Moved, RemovesOld(w, n)
      PROVE  KeyLockHeld'
  BY <1>23, <1>0, RemovesOldFacts
<1>24. ASSUME NEW w \in Windows, OldNotRemoved(w)
      PROVE  KeyLockHeld'
  BY <1>24, OldNotRemovedFacts
<1>25. ASSUME NEW w \in Windows, ClearsCleanup(w)
      PROVE  KeyLockHeld'
  BY <1>25, ClearsCleanupFacts
<1>26. ASSUME NEW w \in Windows, Stop(w)
      PROVE  KeyLockHeld'
  BY <1>26, StopFacts
<1>27. ASSUME NEW k \in Keepers, NEW e \in Entries, Save(k, e)
      PROVE  KeyLockHeld'
  BY <1>27, <1>0, SaveFacts
<1>28. ASSUME NEW f \in Folders,
             RequestMove(f) \/ TakeOut(f) \/ PutBack(f) \/ OthersFile(f)
      PROVE  KeyLockHeld'
  BY <1>28, <1>0, RequestMoveFacts, TakeOutFacts, PutBackFacts, OthersFileFacts
<1>29. ASSUME NEW w \in Windows,
             RemovesHalf(w)
      PROVE  KeyLockHeld'
  BY <1>29, <1>0, RemovesHalfFacts
<1>30. ASSUME NEW k \in Keepers,
             Resolve(k) \/ ProbesIntent(k) \/ TakesVault(k) \/ Opens(k) \/ Leaves(k)
      PROVE  KeyLockHeld'
  BY <1>30, <1>0, ResolveFacts, ProbesIntentFacts, TakesVaultFacts, OpensFacts, LeavesFacts
<1> HIDE DEF KeyLockHeld, Over, Goes, OthersStay, Attempting
<1> QED
  BY <1>0, <1>1, <1>2, <1>3, <1>4, <1>5, <1>6, <1>7, <1>8, <1>9, <1>10, <1>11, <1>12,
     <1>13, <1>14, <1>15, <1>16, <1>17, <1>18, <1>19, <1>20, <1>21, <1>22, <1>23, <1>24,
     <1>25, <1>26, <1>27, <1>28, <1>29, <1>30 DEF Next, StartSteps, KeeperSteps

\* The record changes under the key lock, so the window at work knows the change.
LEMMA MoveKnownStep ==
  ASSUME TypeOK, Places, KeyLockHeld, MoveKnown, PatientPerson, Next
  PROVE  MoveKnown'
<1> USE FolderAssumption, IdleFacts DEF MoveKnown, KeyLockHeld, Over, Goes, OthersStay, Attempting, NoMove
<1>0. UNCHANGED <<window, record>> => MoveKnown'
  OBVIOUS
<1>1. ASSUME NEW f \in Folders, RequestMove(f)
      PROVE  MoveKnown'
  BY <1>1, RequestMoveFacts
<1>2. ASSUME ForgetOldCopy
      PROVE  MoveKnown'
  BY <1>2, ForgetOldCopyFacts
<1>3. ASSUME NEW w \in Windows, EraseAsked(w)
      PROVE  MoveKnown'
  BY <1>3, EraseAskedFacts
<1>4. ASSUME NEW w \in Windows, NEW kept \in SUBSET Entries, Erase(w, kept)
      PROVE  MoveKnown'
  BY <1>4, EraseFacts, SMTT(60)
<1>5. ASSUME NEW w \in Windows, EraseRefused(w)
      PROVE  MoveKnown'
  BY <1>5, EraseRefusedFacts
<1>6. ASSUME NEW w \in Windows, Start(w)
      PROVE  MoveKnown'
  BY <1>6, StartFacts
<1>7. ASSUME NEW w \in Windows, TakesIntent(w)
      PROVE  MoveKnown'
  BY <1>7, TakesIntentFacts
<1>8. ASSUME NEW w \in Windows, TakesLock(w)
      PROVE  MoveKnown'
  BY <1>8, TakesLockFacts
<1>9. ASSUME NEW w \in Windows, CannotHave(w)
      PROVE  MoveKnown'
  BY <1>9, CannotHaveFacts
<1>10. ASSUME NEW w \in Windows, NoAttempt(w)
      PROVE  MoveKnown'
  BY <1>10, NoAttemptFacts
<1>11. ASSUME NEW w \in Windows, Attempt(w)
      PROVE  MoveKnown'
  BY <1>11, AttemptFacts DEF Places
<1>12. ASSUME NEW w \in Windows, HalfRemoved(w)
      PROVE  MoveKnown'
  <2> HIDE DEF Over, Goes
  <2>1. window[w].pc = "half" /\ HalfOver(w)
        /\ UNCHANGED <<files, dirs, out, marker, keeper, memories>> /\ last'.move = last.move
    BY <1>12, HalfOverFacts
  <2>2. CASE /\ Over(w)
             /\ record'.dir = record.dir /\ record'.cleanup = record.cleanup
             /\ record'.move = NoMove /\ left \subseteq left'
             /\ Seen(window[w].move.to) => window[w].move.to \in left'
    BY <2>1, <2>2 DEF Over
  <2>3. CASE (Goes(w, "check") \/ Goes(w, "failed")) /\ UNCHANGED <<record, left, lock, k1>>
    BY <2>1, <2>3 DEF Goes
  <2>4. CASE Over(w) /\ UNCHANGED <<record, left>>
    BY <2>1, <2>4 DEF Over
  <2> QED
    BY <2>1, <2>2, <2>3, <2>4 DEF HalfOver
<1>13. ASSUME NEW w \in Windows, HalfNotRemoved(w)
      PROVE  MoveKnown'
  <2> HIDE DEF Over, Goes
  <2>1. window[w].pc = "half" /\ HalfOver(w)
        /\ UNCHANGED <<files, dirs, out, marker, keeper, memories>> /\ last'.move = last.move
    BY <1>13, HalfOverFacts
  <2>2. CASE /\ Over(w)
             /\ record'.dir = record.dir /\ record'.cleanup = record.cleanup
             /\ record'.move = NoMove /\ left \subseteq left'
             /\ Seen(window[w].move.to) => window[w].move.to \in left'
    BY <2>1, <2>2 DEF Over
  <2>3. CASE (Goes(w, "check") \/ Goes(w, "failed")) /\ UNCHANGED <<record, left, lock, k1>>
    BY <2>1, <2>3 DEF Goes
  <2>4. CASE Over(w) /\ UNCHANGED <<record, left>>
    BY <2>1, <2>4 DEF Over
  <2> QED
    BY <2>1, <2>2, <2>3, <2>4 DEF HalfOver
<1>14. ASSUME NEW w \in Windows, AfterFailure(w)
      PROVE  MoveKnown'
  BY <1>14, AfterFailureFacts
<1>15. ASSUME NEW w \in Windows, MakesFolder(w)
      PROVE  MoveKnown'
  BY <1>15, MakesFolderFacts
<1>16. ASSUME NEW w \in Windows, FolderNotUsable(w)
      PROVE  MoveKnown'
  BY <1>16, FolderNotUsableFacts
<1>17. ASSUME NEW w \in Windows, MarksFolder(w)
      PROVE  MoveKnown'
  BY <1>17, MarksFolderFacts
<1>18. ASSUME NEW w \in Windows, NEW n \in Moved, Copies(w, n)
      PROVE  MoveKnown'
  BY <1>18, CopiesFacts
<1>19. ASSUME NEW w \in Windows, Verifies(w)
      PROVE  MoveKnown'
  BY <1>19, VerifiesFacts
<1>20. ASSUME NEW w \in Windows, Unreachable(w)
      PROVE  MoveKnown'
  BY <1>20, UnreachableFacts
<1>21. ASSUME NEW w \in Windows, Commits(w)
      PROVE  MoveKnown'
  BY <1>21, CommitsFacts
<1>22. ASSUME NEW w \in Windows, CleansOld(w)
      PROVE  MoveKnown'
  BY <1>22, CleansOldFacts
<1>23. ASSUME NEW w \in Windows, Unmarks(w)
      PROVE  MoveKnown'
  BY <1>23, UnmarksFacts
<1>24. ASSUME NEW w \in Windows, NEW n \in Moved, RemovesOld(w, n)
      PROVE  MoveKnown'
  BY <1>24, <1>0, RemovesOldFacts
<1>25. ASSUME NEW w \in Windows, OldNotRemoved(w)
      PROVE  MoveKnown'
  <2>1. Over(w) /\ UNCHANGED record
    BY <1>25, OldNotRemovedFacts
  <2> QED
    BY <2>1
<1>26. ASSUME NEW w \in Windows, ClearsCleanup(w)
      PROVE  MoveKnown'
  BY <1>26, ClearsCleanupFacts
<1>27. ASSUME NEW w \in Windows, Stop(w)
      PROVE  MoveKnown'
  BY <1>27, StopFacts
<1>28. ASSUME NEW k \in Keepers, NEW e \in Entries, Save(k, e)
      PROVE  MoveKnown'
  BY <1>28, <1>0, SaveFacts
<1>29. ASSUME NEW f \in Folders,
             TakeOut(f) \/ PutBack(f) \/ OthersFile(f)
      PROVE  MoveKnown'
  BY <1>29, <1>0, TakeOutFacts, PutBackFacts, OthersFileFacts
<1>30. ASSUME NEW w \in Windows,
             RemovesHalf(w)
      PROVE  MoveKnown'
  BY <1>30, <1>0, RemovesHalfFacts
<1>31. ASSUME NEW k \in Keepers,
             Resolve(k) \/ ProbesIntent(k) \/ TakesVault(k) \/ Opens(k) \/ Leaves(k)
      PROVE  MoveKnown'
  BY <1>31, <1>0, ResolveFacts, ProbesIntentFacts, TakesVaultFacts, OpensFacts, LeavesFacts
<1> HIDE DEF MoveKnown, KeyLockHeld, Over, Goes, OthersStay, Attempting, NoMove
<1> QED
  BY <1>0, <1>1, <1>2, <1>3, <1>4, <1>5, <1>6, <1>7, <1>8, <1>9, <1>10, <1>11, <1>12,
     <1>13, <1>14, <1>15, <1>16, <1>17, <1>18, <1>19, <1>20, <1>21, <1>22, <1>23, <1>24,
     <1>25, <1>26, <1>27, <1>28, <1>29, <1>30, <1>31 DEF Next, StartSteps, KeeperSteps
\* What a window works at while it has the key lock.
LEMMA MoveFacts ==
  ASSUME TypeOK, Places, MoveKnown, RecordSound, NEW w \in Windows,
    window[w].pc \in Attempting
  PROVE  /\ window[w].from = record.dir /\ window[w].move.to = record.move.to
         /\ record.dir \in Folders /\ record.move.to \in Folders /\ record.move.to # record.dir
         /\ record.move # NoMove /\ record.cleanup = NoCleanup
         /\ window[w].move.id = last.move /\ last.move > 0
BY DEF TypeOK, Places, MoveKnown, RecordSound

\* Moves are counted.
LEMMA LastFacts ==
  ASSUME TypeOK PROVE last.move \in Nat /\ record.move.id \in Nat /\ record.cleanup.id \in Nat
BY MoveBoundAssumption DEF TypeOK, Moves

\* The record changes to what the switch makes it.
LEMMA RecordSoundStep ==
  ASSUME TypeOK, Places, KeyLockHeld, MoveKnown, RecordSound, CopyStarts, Next
  PROVE  RecordSound'
<1> USE FolderAssumption, LastFacts DEF RecordSound, NoMove, NoCleanup, Attempting
<1>0. UNCHANGED <<record, dirs, last>> => RecordSound'
  OBVIOUS
<1>1. ASSUME NEW f \in Folders, RequestMove(f)
      PROVE  RecordSound'
  BY <1>1, RequestMoveFacts
<1>2. ASSUME NEW f \in Folders, TakeOut(f)
      PROVE  RecordSound'
  BY <1>2, TakeOutFacts
<1>3. ASSUME NEW f \in Folders, OthersFile(f)
      PROVE  RecordSound'
  BY <1>3, OthersFileFacts
<1>4. ASSUME ForgetOldCopy
      PROVE  RecordSound'
  BY <1>4, ForgetOldCopyFacts
<1>5. ASSUME NEW w \in Windows, NEW kept \in SUBSET Entries, Erase(w, kept)
      PROVE  RecordSound'
  BY <1>5, EraseFacts
<1>6. ASSUME NEW w \in Windows, CannotHave(w)
      PROVE  RecordSound'
  <2>1. Over(w) /\ UNCHANGED <<record, dirs, keeper>> /\ last'.move = last.move
    BY <1>6, CannotHaveFacts, TroubleFacts DEF CannotHave
  <2> QED
    BY <2>1
<1>7. ASSUME NEW w \in Windows, NoAttempt(w)
      PROVE  RecordSound'
  <2>1. Over(w) /\ UNCHANGED <<record, dirs, keeper>> /\ last'.move = last.move
    BY <1>7, NoAttemptFacts, TroubleFacts DEF NoAttempt
  <2> QED
    BY <2>1
<1>8. ASSUME NEW w \in Windows, Attempt(w)
      PROVE  RecordSound'
  BY <1>8, AttemptFacts DEF Places
<1>9. ASSUME NEW w \in Windows, RemovesHalf(w)
      PROVE  RecordSound'
  <2>1. dirs' = dirs \/ dirs' = dirs \ {record.move.to}
    BY <1>9, RemovesHalfFacts, MoveFacts
  <2>2. window[w].pc = "half" /\ record' = record /\ last' = last
    BY <1>9, RemovesHalfFacts
  <2>3. record.move # NoMove
    BY <2>2, MoveFacts
  <2> QED
    BY <2>1, <2>2, <2>3
<1>10. ASSUME NEW w \in Windows, HalfRemoved(w)
      PROVE  RecordSound'
  <2> HIDE DEF Over, Goes
  <2>1. window[w].pc = "half" /\ HalfOver(w)
        /\ UNCHANGED <<files, dirs, out, marker, keeper, memories>> /\ last'.move = last.move
    BY <1>10, HalfOverFacts
  <2>2. CASE /\ Over(w)
             /\ record'.dir = record.dir /\ record'.cleanup = record.cleanup
             /\ record'.move = NoMove /\ left \subseteq left'
             /\ Seen(window[w].move.to) => window[w].move.to \in left'
    BY <2>1, <2>2 DEF Over
  <2>3. CASE (Goes(w, "check") \/ Goes(w, "failed")) /\ UNCHANGED <<record, left, lock, k1>>
    BY <2>1, <2>3 DEF Goes
  <2>4. CASE Over(w) /\ UNCHANGED <<record, left>>
    BY <2>1, <2>4 DEF Over
  <2> QED
    BY <2>1, <2>2, <2>3, <2>4 DEF HalfOver
<1>11. ASSUME NEW w \in Windows, HalfNotRemoved(w)
      PROVE  RecordSound'
  <2> HIDE DEF Over, Goes
  <2>1. window[w].pc = "half" /\ HalfOver(w)
        /\ UNCHANGED <<files, dirs, out, marker, keeper, memories>> /\ last'.move = last.move
    BY <1>11, HalfOverFacts
  <2>2. CASE /\ Over(w)
             /\ record'.dir = record.dir /\ record'.cleanup = record.cleanup
             /\ record'.move = NoMove /\ left \subseteq left'
             /\ Seen(window[w].move.to) => window[w].move.to \in left'
    BY <2>1, <2>2 DEF Over
  <2>3. CASE (Goes(w, "check") \/ Goes(w, "failed")) /\ UNCHANGED <<record, left, lock, k1>>
    BY <2>1, <2>3 DEF Goes
  <2>4. CASE Over(w) /\ UNCHANGED <<record, left>>
    BY <2>1, <2>4 DEF Over
  <2> QED
    BY <2>1, <2>2, <2>3, <2>4 DEF HalfOver
<1>12. ASSUME NEW w \in Windows, MakesFolder(w)
      PROVE  RecordSound'
  BY <1>12, MakesFolderFacts
<1>13. ASSUME NEW w \in Windows, FolderNotUsable(w)
      PROVE  RecordSound'
  BY <1>13, FolderNotUsableFacts
<1>14. ASSUME NEW w \in Windows, MarksFolder(w)
      PROVE  RecordSound'
  BY <1>14, MarksFolderFacts
<1>15. ASSUME NEW w \in Windows, NEW n \in Moved, Copies(w, n)
      PROVE  RecordSound'
  BY <1>15, CopiesFacts
<1>16. ASSUME NEW w \in Windows, Commits(w)
      PROVE  RecordSound'
  <2>1. window[w].pc = "commit" /\ UNCHANGED dirs /\ last'.move = last.move
    BY <1>16, CommitsFacts
  <2>2. CASE UNCHANGED record
    BY <2>1, <2>2
  <2>3. CASE /\ record'.dir = window[w].move.to /\ record'.move = NoMove
             /\ record'.cleanup.from = window[w].from /\ record'.cleanup.id = window[w].move.id
    BY <2>1, <2>3, MoveFacts DEF CopyStarts
  <2> QED
    BY <1>16, <2>2, <2>3, CommitsFacts
<1>17. ASSUME NEW w \in Windows, Unmarks(w)
      PROVE  RecordSound'
  BY <1>17, UnmarksFacts
<1>18. ASSUME NEW w \in Windows, NEW n \in Moved, RemovesOld(w, n)
      PROVE  RecordSound'
  BY <1>18, <1>0, RemovesOldFacts
<1>19. ASSUME NEW w \in Windows, OldNotRemoved(w)
      PROVE  RecordSound'
  <2>1. Over(w) /\ UNCHANGED <<record, dirs, keeper>> /\ last'.move = last.move
    BY <1>19, OldNotRemovedFacts, TroubleFacts DEF OldNotRemoved
  <2> QED
    BY <2>1
<1>20. ASSUME NEW w \in Windows, ClearsCleanup(w)
      PROVE  RecordSound'
  BY <1>20, ClearsCleanupFacts
<1>21. ASSUME NEW w \in Windows, Stop(w)
      PROVE  RecordSound'
  BY <1>21, StopFacts
<1>22. ASSUME NEW k \in Keepers, NEW e \in Entries, Save(k, e)
      PROVE  RecordSound'
  BY <1>22, SaveFacts
<1>23. ASSUME NEW f \in Folders,
             PutBack(f)
      PROVE  RecordSound'
  BY <1>23, <1>0, PutBackFacts
<1>24. ASSUME NEW w \in Windows,
             EraseAsked(w) \/ EraseRefused(w) \/ Start(w) \/ TakesIntent(w) \/ TakesLock(w) \/
             AfterFailure(w) \/ Verifies(w) \/ Unreachable(w) \/ CleansOld(w)
      PROVE  RecordSound'
  BY <1>24, <1>0, EraseAskedFacts, EraseRefusedFacts, StartFacts, TakesIntentFacts,
     TakesLockFacts, AfterFailureFacts, VerifiesFacts, UnreachableFacts, CleansOldFacts
<1>25. ASSUME NEW k \in Keepers,
             Resolve(k) \/ ProbesIntent(k) \/ TakesVault(k) \/ Opens(k) \/ Leaves(k)
      PROVE  RecordSound'
  BY <1>25, <1>0, ResolveFacts, ProbesIntentFacts, TakesVaultFacts, OpensFacts, LeavesFacts
<1> HIDE DEF RecordSound, NoMove, NoCleanup, Attempting
<1> QED
  BY <1>0, <1>1, <1>2, <1>3, <1>4, <1>5, <1>6, <1>7, <1>8, <1>9, <1>10, <1>11, <1>12,
     <1>13, <1>14, <1>15, <1>16, <1>17, <1>18, <1>19, <1>20, <1>21, <1>22, <1>23, <1>24,
     <1>25 DEF Next, StartSteps, KeeperSteps

\* What is cleaned stays apart from where the vault is and goes.
LEMMA OldFoldersStep ==
  ASSUME TypeOK, Places, KeyLockHeld, MoveKnown, RecordSound, OldFolders, Next
  PROVE  OldFolders'
<1> USE FolderAssumption, LastFacts, IdleFacts, WindowFacts DEF OldFolders, Over, Goes, OthersStay, Attempting
<1>0. UNCHANGED <<window, record, dirs, last>> => OldFolders'
  OBVIOUS
<1>a. NoMove.to \notin Folders /\ dirs \subseteq Folders
  BY FolderAssumption DEF NoMove, TypeOK
<1>1. ASSUME NEW f \in Folders, RequestMove(f)
      PROVE  OldFolders'
  BY <1>1, RequestMoveFacts, <1>a DEF RecordSound
<1>2. ASSUME NEW f \in Folders, TakeOut(f)
      PROVE  OldFolders'
  BY <1>2, TakeOutFacts, <1>a
<1>3. ASSUME NEW f \in Folders, OthersFile(f)
      PROVE  OldFolders'
  BY <1>3, OthersFileFacts, <1>a
<1>4. ASSUME ForgetOldCopy
      PROVE  OldFolders'
  BY <1>4, ForgetOldCopyFacts, <1>a
<1>5. ASSUME NEW w \in Windows, EraseAsked(w)
      PROVE  OldFolders'
  BY <1>5, EraseAskedFacts, <1>a
<1>6. ASSUME NEW w \in Windows, NEW kept \in SUBSET Entries, Erase(w, kept)
      PROVE  OldFolders'
  BY <1>6, EraseFacts, <1>a
<1>7. ASSUME NEW w \in Windows, EraseRefused(w)
      PROVE  OldFolders'
  BY <1>7, EraseRefusedFacts, <1>a
<1>8. ASSUME NEW w \in Windows, Start(w)
      PROVE  OldFolders'
  BY <1>8, StartFacts, <1>a
<1>9. ASSUME NEW w \in Windows, TakesIntent(w)
      PROVE  OldFolders'
  BY <1>9, TakesIntentFacts, <1>a
<1>10. ASSUME NEW w \in Windows, TakesLock(w)
      PROVE  OldFolders'
  BY <1>10, TakesLockFacts, <1>a
<1>11. ASSUME NEW w \in Windows, CannotHave(w)
      PROVE  OldFolders'
  <2>1. Over(w) /\ UNCHANGED <<record, dirs, keeper>> /\ last'.move = last.move
    BY <1>11, CannotHaveFacts, TroubleFacts DEF CannotHave
  <2> QED
    BY <2>1
<1>12. ASSUME NEW w \in Windows, NoAttempt(w)
      PROVE  OldFolders'
  <2>1. Over(w) /\ UNCHANGED <<record, dirs, keeper>> /\ last'.move = last.move
    BY <1>12, NoAttemptFacts, TroubleFacts DEF NoAttempt
  <2> QED
    BY <2>1
<1>13. ASSUME NEW w \in Windows, Attempt(w)
      PROVE  OldFolders'
  BY <1>13, AttemptFacts, <1>a DEF Places
<1>14. ASSUME NEW w \in Windows, RemovesHalf(w)
      PROVE  OldFolders'
  <2>a. window[w].pc = "half" /\ record' = record /\ last' = last /\ window' = window
    BY <1>14, RemovesHalfFacts
  <2>b. dirs' = dirs \/ dirs' = dirs \ {record.move.to}
    BY <1>14, <2>a, RemovesHalfFacts, MoveFacts
  <2> QED
    BY <2>a, <2>b
<1>15. ASSUME NEW w \in Windows, HalfRemoved(w)
      PROVE  OldFolders'
  <2> HIDE DEF Over, Goes
  <2>1. window[w].pc = "half" /\ HalfOver(w)
        /\ UNCHANGED <<files, dirs, out, marker, keeper, memories>> /\ last'.move = last.move
    BY <1>15, HalfOverFacts
  <2>2. CASE /\ Over(w)
             /\ record'.dir = record.dir /\ record'.cleanup = record.cleanup
             /\ record'.move = NoMove /\ left \subseteq left'
             /\ Seen(window[w].move.to) => window[w].move.to \in left'
    BY <2>1, <2>2, <1>a DEF Over
  <2>3. CASE (Goes(w, "check") \/ Goes(w, "failed")) /\ UNCHANGED <<record, left, lock, k1>>
    BY <2>1, <2>3 DEF Goes
  <2>4. CASE Over(w) /\ UNCHANGED <<record, left>>
    BY <2>1, <2>4 DEF Over
  <2> QED
    BY <2>1, <2>2, <2>3, <2>4 DEF HalfOver
<1>16. ASSUME NEW w \in Windows, HalfNotRemoved(w)
      PROVE  OldFolders'
  <2> HIDE DEF Over, Goes
  <2>1. window[w].pc = "half" /\ HalfOver(w)
        /\ UNCHANGED <<files, dirs, out, marker, keeper, memories>> /\ last'.move = last.move
    BY <1>16, HalfOverFacts
  <2>2. CASE /\ Over(w)
             /\ record'.dir = record.dir /\ record'.cleanup = record.cleanup
             /\ record'.move = NoMove /\ left \subseteq left'
             /\ Seen(window[w].move.to) => window[w].move.to \in left'
    BY <2>1, <2>2, <1>a DEF Over
  <2>3. CASE (Goes(w, "check") \/ Goes(w, "failed")) /\ UNCHANGED <<record, left, lock, k1>>
    BY <2>1, <2>3 DEF Goes
  <2>4. CASE Over(w) /\ UNCHANGED <<record, left>>
    BY <2>1, <2>4 DEF Over
  <2> QED
    BY <2>1, <2>2, <2>3, <2>4 DEF HalfOver
<1>17. ASSUME NEW w \in Windows, AfterFailure(w)
      PROVE  OldFolders'
  BY <1>17, AfterFailureFacts, <1>a
<1>18. ASSUME NEW w \in Windows, MakesFolder(w)
      PROVE  OldFolders'
  BY <1>18, MakesFolderFacts, <1>a
<1>19. ASSUME NEW w \in Windows, FolderNotUsable(w)
      PROVE  OldFolders'
  BY <1>19, FolderNotUsableFacts, <1>a
<1>20. ASSUME NEW w \in Windows, MarksFolder(w)
      PROVE  OldFolders'
  BY <1>20, MarksFolderFacts, <1>a
<1>21. ASSUME NEW w \in Windows, NEW n \in Moved, Copies(w, n)
      PROVE  OldFolders'
  BY <1>21, CopiesFacts, <1>a
<1>22. ASSUME NEW w \in Windows, Verifies(w)
      PROVE  OldFolders'
  BY <1>22, VerifiesFacts, <1>a
<1>23. ASSUME NEW w \in Windows, Unreachable(w)
      PROVE  OldFolders'
  BY <1>23, UnreachableFacts, <1>a
<1>24. ASSUME NEW w \in Windows, Commits(w)
      PROVE  OldFolders'
  <2>1. window[w].pc = "commit" /\ UNCHANGED dirs /\ last'.move = last.move /\ OthersStay(w)
    BY <1>24, CommitsFacts
  <2>2. CASE Goes(w, "failed") /\ UNCHANGED record
    BY <2>1, <2>2
  <2>3. CASE /\ record'.dir = window[w].move.to /\ record'.move = NoMove
             /\ record'.cleanup.from = window[w].from /\ record'.cleanup.id = window[w].move.id
             /\ window'[w].from = window[w].from /\ window'[w].move = window[w].move
    <3>1. /\ record'.dir = record.move.to /\ record.move # NoMove /\ record.move.to # record.dir
          /\ record'.cleanup.from = record.dir /\ record'.cleanup.id = last.move
          /\ window'[w].from = record.dir /\ window'[w].move.id = last.move /\ last.move > 0
          /\ record.dir \in dirs
      BY <2>1, <2>3, MoveFacts DEF RecordSound
    <3>2. ASSUME NEW v \in Windows \ {w}, window[v].pc \in {"unmark", "old"}
          PROVE  /\ window[v].from \in dirs /\ window[v].from # record'.dir
                 /\ window[v].from # record'.move.to /\ window[v].move.id \in 1..last.move
                 /\ window[v].move.id # record'.cleanup.id
      BY <1>a, <2>3, <3>1, <3>2
    <3> QED
      BY <1>a, <2>1, <2>3, <3>1, <3>2
  <2> QED
    BY <1>24, <2>2, <2>3, CommitsFacts
<1>25. ASSUME NEW w \in Windows, CleansOld(w)
      PROVE  OldFolders'
  <2>1. CASE Over(w) /\ UNCHANGED record
    BY <1>25, <2>1, CleansOldFacts
  <2>2. CASE /\ record.cleanup # NoCleanup /\ window'[w].pc = "unmark"
             /\ window'[w].from = record.cleanup.from /\ window'[w].move.id = record.cleanup.id
             /\ OthersStay(w)
    <3>1. record.move = NoMove /\ window'[w].from \in dirs /\ window'[w].from # record.dir
          /\ window'[w].move.id \in 1..last.move
      BY <2>2 DEF RecordSound
    <3> QED
      BY <1>25, <1>a, <2>2, <3>1, CleansOldFacts
  <2> QED
    BY <1>25, <2>1, <2>2, CleansOldFacts
<1>26. ASSUME NEW w \in Windows, Unmarks(w)
      PROVE  OldFolders'
  BY <1>26, UnmarksFacts, <1>a
<1>27. ASSUME NEW w \in Windows, NEW n \in Moved, RemovesOld(w, n)
      PROVE  OldFolders'
  BY <1>27, <1>0, RemovesOldFacts
<1>28. ASSUME NEW w \in Windows, OldNotRemoved(w)
      PROVE  OldFolders'
  <2>1. Over(w) /\ UNCHANGED <<record, dirs, keeper>> /\ last'.move = last.move
    BY <1>28, OldNotRemovedFacts, TroubleFacts DEF OldNotRemoved
  <2> QED
    BY <2>1
<1>29. ASSUME NEW w \in Windows, ClearsCleanup(w)
      PROVE  OldFolders'
  BY <1>29, ClearsCleanupFacts, <1>a DEF RecordSound
<1>30. ASSUME NEW w \in Windows, Stop(w)
      PROVE  OldFolders'
  BY <1>30, StopFacts, <1>a
<1>31. ASSUME NEW k \in Keepers, NEW e \in Entries, Save(k, e)
      PROVE  OldFolders'
  BY <1>31, SaveFacts, <1>a
<1>32. ASSUME NEW f \in Folders,
             PutBack(f)
      PROVE  OldFolders'
  BY <1>32, <1>0, PutBackFacts
<1>33. ASSUME NEW k \in Keepers,
             Resolve(k) \/ ProbesIntent(k) \/ TakesVault(k) \/ Opens(k) \/ Leaves(k)
      PROVE  OldFolders'
  BY <1>33, <1>0, ResolveFacts, ProbesIntentFacts, TakesVaultFacts, OpensFacts, LeavesFacts
<1> HIDE DEF OldFolders, Over, Goes, OthersStay, Attempting
<1> QED
  BY <1>0, <1>1, <1>2, <1>3, <1>4, <1>5, <1>6, <1>7, <1>8, <1>9, <1>10, <1>11, <1>12,
     <1>13, <1>14, <1>15, <1>16, <1>17, <1>18, <1>19, <1>20, <1>21, <1>22, <1>23, <1>24,
     <1>25, <1>26, <1>27, <1>28, <1>29, <1>30, <1>31, <1>32, <1>33 DEF Next, StartSteps,
     KeeperSteps

\* ... and where the keepers are.
LEMMA KeeperFoldersStep ==
  ASSUME TypeOK, Places, KeyLockHeld, MoveKnown, RecordSound, KeeperFolders, Next
  PROVE  KeeperFolders'
<1> USE FolderAssumption DEF KeeperFolders, OtherKeepersStay, Attempting
<1>0. UNCHANGED <<keeper, record, dirs>> => KeeperFolders'
  OBVIOUS
<1>a. NoMove.to \notin Folders /\ dirs \subseteq Folders
  BY FolderAssumption DEF NoMove, TypeOK
<1>1. ASSUME NEW f \in Folders, RequestMove(f)
      PROVE  KeeperFolders'
  BY <1>1, RequestMoveFacts, <1>a
<1>2. ASSUME NEW f \in Folders, OthersFile(f)
      PROVE  KeeperFolders'
  BY <1>2, OthersFileFacts, <1>a
<1>3. ASSUME ForgetOldCopy
      PROVE  KeeperFolders'
  BY <1>3, ForgetOldCopyFacts, <1>a
<1>4. ASSUME NEW w \in Windows, NEW kept \in SUBSET Entries, Erase(w, kept)
      PROVE  KeeperFolders'
  BY <1>4, <1>0, EraseFacts
<1>5. ASSUME NEW w \in Windows, Attempt(w)
      PROVE  KeeperFolders'
  BY <1>5, AttemptFacts, <1>a
<1>6. ASSUME NEW w \in Windows, RemovesHalf(w)
      PROVE  KeeperFolders'
  <2>a. window[w].pc = "half" /\ record' = record /\ keeper' = keeper
    BY <1>6, RemovesHalfFacts
  <2>b. dirs' = dirs \/ dirs' = dirs \ {record.move.to}
    BY <1>6, <2>a, RemovesHalfFacts, MoveFacts
  <2> QED
    BY <2>a, <2>b
<1>7. ASSUME NEW w \in Windows, HalfRemoved(w)
      PROVE  KeeperFolders'
  <2> HIDE DEF Over, Goes
  <2>1. window[w].pc = "half" /\ HalfOver(w)
        /\ UNCHANGED <<files, dirs, out, marker, keeper, memories>> /\ last'.move = last.move
    BY <1>7, HalfOverFacts
  <2>2. CASE /\ Over(w)
             /\ record'.dir = record.dir /\ record'.cleanup = record.cleanup
             /\ record'.move = NoMove /\ left \subseteq left'
             /\ Seen(window[w].move.to) => window[w].move.to \in left'
    BY <2>1, <2>2, <1>a DEF Over
  <2>3. CASE (Goes(w, "check") \/ Goes(w, "failed")) /\ UNCHANGED <<record, left, lock, k1>>
    BY <2>1, <2>3 DEF Goes
  <2>4. CASE Over(w) /\ UNCHANGED <<record, left>>
    BY <2>1, <2>4 DEF Over
  <2> QED
    BY <2>1, <2>2, <2>3, <2>4 DEF HalfOver
<1>8. ASSUME NEW w \in Windows, HalfNotRemoved(w)
      PROVE  KeeperFolders'
  <2> HIDE DEF Over, Goes
  <2>1. window[w].pc = "half" /\ HalfOver(w)
        /\ UNCHANGED <<files, dirs, out, marker, keeper, memories>> /\ last'.move = last.move
    BY <1>8, HalfOverFacts
  <2>2. CASE /\ Over(w)
             /\ record'.dir = record.dir /\ record'.cleanup = record.cleanup
             /\ record'.move = NoMove /\ left \subseteq left'
             /\ Seen(window[w].move.to) => window[w].move.to \in left'
    BY <2>1, <2>2, <1>a DEF Over
  <2>3. CASE (Goes(w, "check") \/ Goes(w, "failed")) /\ UNCHANGED <<record, left, lock, k1>>
    BY <2>1, <2>3 DEF Goes
  <2>4. CASE Over(w) /\ UNCHANGED <<record, left>>
    BY <2>1, <2>4 DEF Over
  <2> QED
    BY <2>1, <2>2, <2>3, <2>4 DEF HalfOver
<1>9. ASSUME NEW w \in Windows, MakesFolder(w)
      PROVE  KeeperFolders'
  BY <1>9, MakesFolderFacts, <1>a
<1>10. ASSUME NEW w \in Windows, NEW n \in Moved, Copies(w, n)
      PROVE  KeeperFolders'
  BY <1>10, <1>0, CopiesFacts
<1>11. ASSUME NEW w \in Windows, Commits(w)
      PROVE  KeeperFolders'
  <2>1. window[w].pc = "commit" /\ UNCHANGED <<dirs, keeper>>
        /\ (record'.move = NoMove \/ UNCHANGED record)
    BY <1>11, CommitsFacts
  <2> QED
    BY <2>1, <1>a
<1>12. ASSUME NEW w \in Windows, NEW n \in Moved, RemovesOld(w, n)
      PROVE  KeeperFolders'
  BY <1>12, <1>0, RemovesOldFacts
<1>13. ASSUME NEW w \in Windows, ClearsCleanup(w)
      PROVE  KeeperFolders'
  BY <1>13, ClearsCleanupFacts, <1>a
<1>14. ASSUME NEW k \in Keepers, Resolve(k)
      PROVE  KeeperFolders'
  BY <1>14, ResolveFacts, <1>a DEF RecordSound, TypeOK
<1>15. ASSUME NEW k \in Keepers, ProbesIntent(k)
      PROVE  KeeperFolders'
  BY <1>15, ProbesIntentFacts, <1>a
<1>16. ASSUME NEW k \in Keepers, TakesVault(k)
      PROVE  KeeperFolders'
  BY <1>16, TakesVaultFacts, <1>a
<1>17. ASSUME NEW k \in Keepers, Opens(k)
      PROVE  KeeperFolders'
  BY <1>17, OpensFacts, <1>a
<1>18. ASSUME NEW k \in Keepers, Leaves(k)
      PROVE  KeeperFolders'
  BY <1>18, LeavesFacts, <1>a
<1>19. ASSUME NEW k \in Keepers, NEW e \in Entries, Save(k, e)
      PROVE  KeeperFolders'
  BY <1>19, <1>0, SaveFacts
<1>20. ASSUME NEW f \in Folders,
             TakeOut(f) \/ PutBack(f)
      PROVE  KeeperFolders'
  BY <1>20, <1>0, TakeOutFacts, PutBackFacts
<1>21. ASSUME NEW w \in Windows,
             EraseAsked(w) \/ EraseRefused(w) \/ Start(w) \/ TakesIntent(w) \/ TakesLock(w) \/
             CannotHave(w) \/ NoAttempt(w) \/ AfterFailure(w) \/ FolderNotUsable(w) \/
             MarksFolder(w) \/ Verifies(w) \/ Unreachable(w) \/ CleansOld(w) \/ Unmarks(w) \/
             OldNotRemoved(w) \/ Stop(w)
      PROVE  KeeperFolders'
  BY <1>21, <1>0, EraseAskedFacts, EraseRefusedFacts, StartFacts, TakesIntentFacts,
     TakesLockFacts, CannotHaveFacts, NoAttemptFacts, AfterFailureFacts,
     FolderNotUsableFacts, MarksFolderFacts, VerifiesFacts, UnreachableFacts,
     CleansOldFacts, UnmarksFacts, OldNotRemovedFacts, StopFacts
<1> HIDE DEF KeeperFolders, OtherKeepersStay, Attempting
<1> QED
  BY <1>0, <1>1, <1>2, <1>3, <1>4, <1>5, <1>6, <1>7, <1>8, <1>9, <1>10, <1>11, <1>12,
     <1>13, <1>14, <1>15, <1>16, <1>17, <1>18, <1>19, <1>20, <1>21 DEF Next, StartSteps,
     KeeperSteps
\* A drive is told of when it is taken out.
LEMMA OutRememberedStep ==
  ASSUME TypeOK, Places, OutRemembered, Next
  PROVE  OutRemembered'
<1> USE FolderAssumption DEF OutRemembered
<1>0. UNCHANGED <<out, left>> => OutRemembered'
  OBVIOUS
<1>1. ASSUME NEW f \in Folders, TakeOut(f)
      PROVE  OutRemembered'
  BY <1>1, TakeOutFacts
<1>2. ASSUME NEW f \in Folders, PutBack(f)
      PROVE  OutRemembered'
  BY <1>2, PutBackFacts
<1>3. ASSUME ForgetOldCopy
      PROVE  OutRemembered'
  BY <1>3, ForgetOldCopyFacts
<1>4. ASSUME NEW w \in Windows, NEW kept \in SUBSET Entries, Erase(w, kept)
      PROVE  OutRemembered'
  BY <1>4, <1>0, EraseFacts
<1>5. ASSUME NEW w \in Windows, HalfRemoved(w)
      PROVE  OutRemembered'
  <2> HIDE DEF Over, Goes
  <2>1. window[w].pc = "half" /\ HalfOver(w)
        /\ UNCHANGED <<files, dirs, out, marker, keeper, memories>> /\ last'.move = last.move
    BY <1>5, HalfOverFacts
  <2>2. CASE /\ Over(w)
             /\ record'.dir = record.dir /\ record'.cleanup = record.cleanup
             /\ record'.move = NoMove /\ left \subseteq left'
             /\ Seen(window[w].move.to) => window[w].move.to \in left'
    BY <2>1, <2>2 DEF Over
  <2>3. CASE (Goes(w, "check") \/ Goes(w, "failed")) /\ UNCHANGED <<record, left, lock, k1>>
    BY <2>1, <2>3 DEF Goes
  <2>4. CASE Over(w) /\ UNCHANGED <<record, left>>
    BY <2>1, <2>4 DEF Over
  <2> QED
    BY <2>1, <2>2, <2>3, <2>4 DEF HalfOver
<1>6. ASSUME NEW w \in Windows, HalfNotRemoved(w)
      PROVE  OutRemembered'
  <2> HIDE DEF Over, Goes
  <2>1. window[w].pc = "half" /\ HalfOver(w)
        /\ UNCHANGED <<files, dirs, out, marker, keeper, memories>> /\ last'.move = last.move
    BY <1>6, HalfOverFacts
  <2>2. CASE /\ Over(w)
             /\ record'.dir = record.dir /\ record'.cleanup = record.cleanup
             /\ record'.move = NoMove /\ left \subseteq left'
             /\ Seen(window[w].move.to) => window[w].move.to \in left'
    BY <2>1, <2>2 DEF Over
  <2>3. CASE (Goes(w, "check") \/ Goes(w, "failed")) /\ UNCHANGED <<record, left, lock, k1>>
    BY <2>1, <2>3 DEF Goes
  <2>4. CASE Over(w) /\ UNCHANGED <<record, left>>
    BY <2>1, <2>4 DEF Over
  <2> QED
    BY <2>1, <2>2, <2>3, <2>4 DEF HalfOver
<1>7. ASSUME NEW w \in Windows, NEW n \in Moved, Copies(w, n)
      PROVE  OutRemembered'
  BY <1>7, <1>0, CopiesFacts
<1>8. ASSUME NEW w \in Windows, NEW n \in Moved, RemovesOld(w, n)
      PROVE  OutRemembered'
  BY <1>8, <1>0, RemovesOldFacts
<1>9. ASSUME NEW k \in Keepers, NEW e \in Entries, Save(k, e)
      PROVE  OutRemembered'
  BY <1>9, <1>0, SaveFacts
<1>10. ASSUME NEW f \in Folders,
             RequestMove(f) \/ OthersFile(f)
      PROVE  OutRemembered'
  BY <1>10, <1>0, RequestMoveFacts, OthersFileFacts
<1>11. ASSUME NEW w \in Windows,
             EraseAsked(w) \/ EraseRefused(w) \/ Start(w) \/ TakesIntent(w) \/ TakesLock(w) \/
             CannotHave(w) \/ NoAttempt(w) \/ Attempt(w) \/ RemovesHalf(w) \/ AfterFailure(w) \/
             MakesFolder(w) \/ FolderNotUsable(w) \/ MarksFolder(w) \/ Verifies(w) \/
             Unreachable(w) \/ Commits(w) \/ CleansOld(w) \/ Unmarks(w) \/ OldNotRemoved(w) \/
             ClearsCleanup(w) \/ Stop(w)
      PROVE  OutRemembered'
  BY <1>11, <1>0, EraseAskedFacts, EraseRefusedFacts, StartFacts, TakesIntentFacts,
     TakesLockFacts, CannotHaveFacts, NoAttemptFacts, AttemptFacts, RemovesHalfFacts,
     AfterFailureFacts, MakesFolderFacts, FolderNotUsableFacts, MarksFolderFacts,
     VerifiesFacts, UnreachableFacts, CommitsFacts, CleansOldFacts, UnmarksFacts,
     OldNotRemovedFacts, ClearsCleanupFacts, StopFacts
<1>12. ASSUME NEW k \in Keepers,
             Resolve(k) \/ ProbesIntent(k) \/ TakesVault(k) \/ Opens(k) \/ Leaves(k)
      PROVE  OutRemembered'
  BY <1>12, <1>0, ResolveFacts, ProbesIntentFacts, TakesVaultFacts, OpensFacts, LeavesFacts
<1> HIDE DEF OutRemembered
<1> QED
  BY <1>0, <1>1, <1>2, <1>3, <1>4, <1>5, <1>6, <1>7, <1>8, <1>9, <1>10, <1>11, <1>12
     DEF Next, StartSteps, KeeperSteps

\* Only the window at work makes its folder, and only it removes it.
LEMMA CopyStartsStep ==
  ASSUME TypeOK, Places, KeyLockHeld, MoveKnown, RecordSound, CopyStarts, Next
  PROVE  CopyStarts'
<1> USE FolderAssumption, IdleFacts, NameFacts DEF CopyStarts, Over, Goes, OthersStay, Attempting
<1>0. UNCHANGED <<window, dirs>> => CopyStarts'
  OBVIOUS
<1>1. ASSUME NEW f \in Folders, OthersFile(f)
      PROVE  CopyStarts'
  BY <1>1, OthersFileFacts
<1>2. ASSUME ForgetOldCopy
      PROVE  CopyStarts'
  BY <1>2, <1>0, ForgetOldCopyFacts
<1>3. ASSUME NEW w \in Windows, EraseAsked(w)
      PROVE  CopyStarts'
  BY <1>3, EraseAskedFacts
<1>4. ASSUME NEW w \in Windows, NEW kept \in SUBSET Entries, Erase(w, kept)
      PROVE  CopyStarts'
  BY <1>4, EraseFacts
<1>5. ASSUME NEW w \in Windows, EraseRefused(w)
      PROVE  CopyStarts'
  BY <1>5, EraseRefusedFacts
<1>6. ASSUME NEW w \in Windows, Start(w)
      PROVE  CopyStarts'
  BY <1>6, StartFacts
<1>7. ASSUME NEW w \in Windows, TakesIntent(w)
      PROVE  CopyStarts'
  BY <1>7, TakesIntentFacts
<1>8. ASSUME NEW w \in Windows, TakesLock(w)
      PROVE  CopyStarts'
  BY <1>8, TakesLockFacts
<1>9. ASSUME NEW w \in Windows, CannotHave(w)
      PROVE  CopyStarts'
  <2>1. Over(w) /\ UNCHANGED <<files, record, dirs, keeper, memories, marker, left, out>>
    BY <1>9, CannotHaveFacts
  <2> QED
    BY <2>1
<1>10. ASSUME NEW w \in Windows, NoAttempt(w)
      PROVE  CopyStarts'
  <2>1. Over(w) /\ UNCHANGED <<files, record, dirs, keeper, memories, marker, left, out>>
    BY <1>10, NoAttemptFacts
  <2> QED
    BY <2>1
<1>11. ASSUME NEW w \in Windows, Attempt(w)
      PROVE  CopyStarts'
  BY <1>11, AttemptFacts
<1>12. ASSUME NEW w \in Windows, RemovesHalf(w)
      PROVE  CopyStarts'
  <2>1. window[w].pc = "half" /\ window' = window
    BY <1>12, RemovesHalfFacts
  <2>2. \A v \in Windows : window[v].pc \notin {"mark", "copy", "commit"}
    BY <2>1 DEF KeyLockHeld, Attempting
  <2> QED
    BY <2>1, <2>2
<1>13. ASSUME NEW w \in Windows, HalfRemoved(w)
      PROVE  CopyStarts'
  <2> HIDE DEF Over, Goes
  <2>1. window[w].pc = "half" /\ HalfOver(w)
        /\ UNCHANGED <<files, dirs, out, marker, keeper, memories>> /\ last'.move = last.move
    BY <1>13, HalfOverFacts
  <2>2. CASE /\ Over(w)
             /\ record'.dir = record.dir /\ record'.cleanup = record.cleanup
             /\ record'.move = NoMove /\ left \subseteq left'
             /\ Seen(window[w].move.to) => window[w].move.to \in left'
    BY <2>1, <2>2 DEF Over
  <2>3. CASE (Goes(w, "check") \/ Goes(w, "failed")) /\ UNCHANGED <<record, left, lock, k1>>
    BY <2>1, <2>3 DEF Goes
  <2>4. CASE Over(w) /\ UNCHANGED <<record, left>>
    BY <2>1, <2>4 DEF Over
  <2> QED
    BY <2>1, <2>2, <2>3, <2>4 DEF HalfOver
<1>14. ASSUME NEW w \in Windows, HalfNotRemoved(w)
      PROVE  CopyStarts'
  <2> HIDE DEF Over, Goes
  <2>1. window[w].pc = "half" /\ HalfOver(w)
        /\ UNCHANGED <<files, dirs, out, marker, keeper, memories>> /\ last'.move = last.move
    BY <1>14, HalfOverFacts
  <2>2. CASE /\ Over(w)
             /\ record'.dir = record.dir /\ record'.cleanup = record.cleanup
             /\ record'.move = NoMove /\ left \subseteq left'
             /\ Seen(window[w].move.to) => window[w].move.to \in left'
    BY <2>1, <2>2 DEF Over
  <2>3. CASE (Goes(w, "check") \/ Goes(w, "failed")) /\ UNCHANGED <<record, left, lock, k1>>
    BY <2>1, <2>3 DEF Goes
  <2>4. CASE Over(w) /\ UNCHANGED <<record, left>>
    BY <2>1, <2>4 DEF Over
  <2> QED
    BY <2>1, <2>2, <2>3, <2>4 DEF HalfOver
<1>15. ASSUME NEW w \in Windows, AfterFailure(w)
      PROVE  CopyStarts'
  BY <1>15, AfterFailureFacts
<1>16. ASSUME NEW w \in Windows, MakesFolder(w)
      PROVE  CopyStarts'
  BY <1>16, MakesFolderFacts
<1>17. ASSUME NEW w \in Windows, FolderNotUsable(w)
      PROVE  CopyStarts'
  BY <1>17, FolderNotUsableFacts
<1>18. ASSUME NEW w \in Windows, MarksFolder(w)
      PROVE  CopyStarts'
  BY <1>18, MarksFolderFacts
<1>19. ASSUME NEW w \in Windows, NEW n \in Moved, Copies(w, n)
      PROVE  CopyStarts'
  BY <1>19, CopiesFacts
<1>20. ASSUME NEW w \in Windows, Verifies(w)
      PROVE  CopyStarts'
  BY <1>20, VerifiesFacts
<1>21. ASSUME NEW w \in Windows, Unreachable(w)
      PROVE  CopyStarts'
  BY <1>21, UnreachableFacts
<1>22. ASSUME NEW w \in Windows, Commits(w)
      PROVE  CopyStarts'
  BY <1>22, CommitsFacts
<1>23. ASSUME NEW w \in Windows, CleansOld(w)
      PROVE  CopyStarts'
  BY <1>23, CleansOldFacts
<1>24. ASSUME NEW w \in Windows, Unmarks(w)
      PROVE  CopyStarts'
  BY <1>24, UnmarksFacts
<1>25. ASSUME NEW w \in Windows, NEW n \in Moved, RemovesOld(w, n)
      PROVE  CopyStarts'
  BY <1>25, <1>0, RemovesOldFacts
<1>26. ASSUME NEW w \in Windows, OldNotRemoved(w)
      PROVE  CopyStarts'
  BY <1>26, OldNotRemovedFacts
<1>27. ASSUME NEW w \in Windows, ClearsCleanup(w)
      PROVE  CopyStarts'
  BY <1>27, ClearsCleanupFacts
<1>28. ASSUME NEW w \in Windows, Stop(w)
      PROVE  CopyStarts'
  <2>1. Over(w) /\ UNCHANGED <<files, record, dirs, keeper, memories, marker, left, out>>
    BY <1>28, StopFacts
  <2> QED
    BY <2>1
<1>29. ASSUME NEW k \in Keepers, NEW e \in Entries, Save(k, e)
      PROVE  CopyStarts'
  BY <1>29, <1>0, SaveFacts
<1>30. ASSUME NEW f \in Folders,
             RequestMove(f) \/ TakeOut(f) \/ PutBack(f)
      PROVE  CopyStarts'
  BY <1>30, <1>0, RequestMoveFacts, TakeOutFacts, PutBackFacts
<1>31. ASSUME NEW k \in Keepers,
             Resolve(k) \/ ProbesIntent(k) \/ TakesVault(k) \/ Opens(k) \/ Leaves(k)
      PROVE  CopyStarts'
  BY <1>31, <1>0, ResolveFacts, ProbesIntentFacts, TakesVaultFacts, OpensFacts, LeavesFacts
<1> HIDE DEF CopyStarts, Over, Goes, OthersStay, Attempting
<1> QED
  BY <1>0, <1>1, <1>2, <1>3, <1>4, <1>5, <1>6, <1>7, <1>8, <1>9, <1>10, <1>11, <1>12,
     <1>13, <1>14, <1>15, <1>16, <1>17, <1>18, <1>19, <1>20, <1>21, <1>22, <1>23, <1>24,
     <1>25, <1>26, <1>27, <1>28, <1>29, <1>30, <1>31 DEF Next, StartSteps, KeeperSteps

\* Nothing is written where the copy is read, and only the copy where it is written.
LEMMA CopySoundStep ==
  ASSUME TypeOK, Places, KeyLockHeld, MoveKnown, RecordSound, WindowLocks, KeeperLocks,
    OldFolders, KeeperFolders,
         FoldersSound, CopyStarts, CopySound, Next
  PROVE  CopySound'
<1> USE FolderAssumption, IdleFacts, NameFacts DEF CopySound, Over, Goes, OthersStay, OnlyFile
<1>0. UNCHANGED <<window, files>> => CopySound'
  OBVIOUS
<1>a. \A v \in Windows : window[v].pc \in {"mark", "copy", "commit"} =>
        /\ k1 = v /\ k1 # Nobody /\ lock[record.dir] = v /\ lock[record.dir] # Nobody
        /\ window[v].from = record.dir /\ window[v].move.to = record.move.to
        /\ record.dir \in Folders /\ record.move.to \in Folders /\ record.move.to # record.dir
  BY MoveFacts DEF KeyLockHeld, WindowLocks, Attempting
<1>1. ASSUME NEW f \in Folders, OthersFile(f)
      PROVE  CopySound'
  <2>1. \A v \in Windows, m \in Moved : window[v].pc \in {"mark", "copy", "commit"} =>
           /\ files'[window[v].from][m] = files[window[v].from][m]
           /\ files'[window[v].move.to][m] = files[window[v].move.to][m]
    BY <1>1, <1>a, OthersFileFacts
  <2>2. UNCHANGED window
    BY <1>1, OthersFileFacts
  <2> QED
    BY <2>1, <2>2
<1>2. ASSUME ForgetOldCopy
      PROVE  CopySound'
  BY <1>2, <1>0, ForgetOldCopyFacts
<1>3. ASSUME NEW w \in Windows, EraseAsked(w)
      PROVE  CopySound'
  BY <1>3, EraseAskedFacts
<1>4. ASSUME NEW w \in Windows, NEW kept \in SUBSET Entries, Erase(w, kept)
      PROVE  CopySound'
  <2>1. k1 = Nobody /\ OthersStay(w) /\ window'[w].pc \in {"idle", "intent"}
    BY <1>4, EraseFacts
  <2>2. \A v \in Windows : window'[v].pc \notin {"mark", "copy", "commit"}
    BY <1>a, <2>1
  <2> QED
    BY <2>2
<1>5. ASSUME NEW w \in Windows, EraseRefused(w)
      PROVE  CopySound'
  BY <1>5, EraseRefusedFacts
<1>6. ASSUME NEW w \in Windows, Start(w)
      PROVE  CopySound'
  BY <1>6, StartFacts
<1>7. ASSUME NEW w \in Windows, TakesIntent(w)
      PROVE  CopySound'
  BY <1>7, TakesIntentFacts
<1>8. ASSUME NEW w \in Windows, TakesLock(w)
      PROVE  CopySound'
  BY <1>8, TakesLockFacts
<1>9. ASSUME NEW w \in Windows, CannotHave(w)
      PROVE  CopySound'
  <2>1. Over(w) /\ UNCHANGED <<files, record, dirs, keeper, memories, marker, left, out>>
    BY <1>9, CannotHaveFacts
  <2> QED
    BY <2>1
<1>10. ASSUME NEW w \in Windows, NoAttempt(w)
      PROVE  CopySound'
  <2>1. Over(w) /\ UNCHANGED <<files, record, dirs, keeper, memories, marker, left, out>>
    BY <1>10, NoAttemptFacts
  <2> QED
    BY <2>1
<1>11. ASSUME NEW w \in Windows, Attempt(w)
      PROVE  CopySound'
  BY <1>11, AttemptFacts
<1>12. ASSUME NEW w \in Windows, RemovesHalf(w)
      PROVE  CopySound'
  <2>1. window[w].pc = "half" /\ window' = window
    BY <1>12, RemovesHalfFacts
  <2>2. \A v \in Windows : window[v].pc \notin {"mark", "copy", "commit"}
    BY <2>1 DEF KeyLockHeld, Attempting
  <2> QED
    BY <2>1, <2>2
<1>13. ASSUME NEW w \in Windows, HalfRemoved(w)
      PROVE  CopySound'
  <2> HIDE DEF Over, Goes
  <2>1. window[w].pc = "half" /\ HalfOver(w)
        /\ UNCHANGED <<files, dirs, out, marker, keeper, memories>> /\ last'.move = last.move
    BY <1>13, HalfOverFacts
  <2>2. CASE /\ Over(w)
             /\ record'.dir = record.dir /\ record'.cleanup = record.cleanup
             /\ record'.move = NoMove /\ left \subseteq left'
             /\ Seen(window[w].move.to) => window[w].move.to \in left'
    BY <2>1, <2>2 DEF Over
  <2>3. CASE (Goes(w, "check") \/ Goes(w, "failed")) /\ UNCHANGED <<record, left, lock, k1>>
    BY <2>1, <2>3 DEF Goes
  <2>4. CASE Over(w) /\ UNCHANGED <<record, left>>
    BY <2>1, <2>4 DEF Over
  <2> QED
    BY <2>1, <2>2, <2>3, <2>4 DEF HalfOver
<1>14. ASSUME NEW w \in Windows, HalfNotRemoved(w)
      PROVE  CopySound'
  <2> HIDE DEF Over, Goes
  <2>1. window[w].pc = "half" /\ HalfOver(w)
        /\ UNCHANGED <<files, dirs, out, marker, keeper, memories>> /\ last'.move = last.move
    BY <1>14, HalfOverFacts
  <2>2. CASE /\ Over(w)
             /\ record'.dir = record.dir /\ record'.cleanup = record.cleanup
             /\ record'.move = NoMove /\ left \subseteq left'
             /\ Seen(window[w].move.to) => window[w].move.to \in left'
    BY <2>1, <2>2 DEF Over
  <2>3. CASE (Goes(w, "check") \/ Goes(w, "failed")) /\ UNCHANGED <<record, left, lock, k1>>
    BY <2>1, <2>3 DEF Goes
  <2>4. CASE Over(w) /\ UNCHANGED <<record, left>>
    BY <2>1, <2>4 DEF Over
  <2> QED
    BY <2>1, <2>2, <2>3, <2>4 DEF HalfOver
<1>15. ASSUME NEW w \in Windows, AfterFailure(w)
      PROVE  CopySound'
  BY <1>15, AfterFailureFacts
<1>16. ASSUME NEW w \in Windows, MakesFolder(w)
      PROVE  CopySound'
  <2>1. /\ window[w].pc = "check" /\ window[w].move.to \in Folders \ dirs
        /\ Goes(w, "mark") /\ files' = files
    BY <1>16, MakesFolderFacts
  <2>2. \A n \in Moved : window[w].copied[n] = Absent /\ files[window[w].move.to][n] = Absent
    BY <2>1 DEF CopyStarts, FoldersSound
  <2> QED
    BY <2>1, <2>2
<1>17. ASSUME NEW w \in Windows, FolderNotUsable(w)
      PROVE  CopySound'
  BY <1>17, FolderNotUsableFacts
<1>18. ASSUME NEW w \in Windows, MarksFolder(w)
      PROVE  CopySound'
  <2>1. /\ window[w].pc = "mark" /\ OthersStay(w) /\ window'[w].move = window[w].move
        /\ window'[w].from = window[w].from /\ window'[w].copied = window[w].copied
        /\ window'[w].pc \in {"copy", "failed"}
    BY <1>18, MarksFolderFacts
  <2>2. \A f \in Folders, m \in Moved : files'[f][m] = files[f][m]
    BY <1>18, MarksFolderFacts
  <2>3. \A v \in Windows \ {w} : window[v].pc \notin {"mark", "copy", "commit"}
    BY <1>a, <2>1
  <2> QED
    BY <1>a, <2>1, <2>2, <2>3
<1>19. ASSUME NEW w \in Windows, NEW n \in Moved, Copies(w, n)
      PROVE  CopySound'
  <2>1. window[w].pc = "copy"
        /\ \A v \in Windows \ {w} : window[v].pc \notin {"mark", "copy", "commit"}
    BY <1>19, <1>a, CopiesFacts
  <2>2. window[w].from = record.dir /\ window[w].move.to # record.dir
        /\ record.dir \in Folders /\ window[w].move.to \in Folders
    BY <1>a, <2>1
  <2>3. OthersStay(w) /\ (window'[w].pc = "failed" \/ window'[w].pc = "copy")
    BY <1>19, CopiesFacts
  <2>4. CASE window'[w].pc = "failed"
    BY <2>1, <2>3, <2>4
  <2>5. CASE window'[w].pc = "copy"
    <3>1. /\ OnlyFile(window[w].move.to, n, files[window[w].from][n])
             \/ OnlyFile(window[w].move.to, n, Torn)
          /\ window'[w].from = window[w].from /\ window'[w].move = window[w].move
          /\ window'[w].copied[n] = files[window[w].from][n] /\ files[window[w].from][n] # Absent
          /\ \A m \in Moved \ {n} : window'[w].copied[m] = window[w].copied[m]
      BY <1>19, <2>5, CopiesFacts
    <3>2. /\ \A m \in Moved : files'[window[w].from][m] = files[window[w].from][m]
          /\ \A m \in Moved \ {n} :
               files'[window[w].move.to][m] = files[window[w].move.to][m]
      BY <2>2, <3>1 DEF OnlyFile
    <3> QED
      BY <2>1, <2>3, <2>5, <3>1, <3>2, SMTT(60)
  <2> QED
    BY <2>3, <2>4, <2>5
<1>20. ASSUME NEW w \in Windows, Verifies(w)
      PROVE  CopySound'
  <2>1. window[w].pc = "copy" /\ UNCHANGED files
    BY <1>20, VerifiesFacts
  <2>2. CASE Goes(w, "failed")
    BY <2>1, <2>2
  <2>3. CASE /\ Goes(w, "commit")
             /\ \A n \in Moved :
                  IF window[w].copied[n] = Absent THEN files[window[w].from][n] = Absent
                  ELSE files[window[w].move.to][n] = window[w].copied[n]
    <3>1. \A n \in Moved : files[window[w].move.to][n] = files[window[w].from][n]
      BY <2>1, <2>3
    <3> QED
      BY <2>1, <2>3, <3>1
  <2> QED
    BY <1>20, <2>2, <2>3, VerifiesFacts
<1>21. ASSUME NEW w \in Windows, Unreachable(w)
      PROVE  CopySound'
  BY <1>21, UnreachableFacts
<1>22. ASSUME NEW w \in Windows, Commits(w)
      PROVE  CopySound'
  BY <1>22, CommitsFacts
<1>23. ASSUME NEW w \in Windows, CleansOld(w)
      PROVE  CopySound'
  BY <1>23, CleansOldFacts
<1>24. ASSUME NEW w \in Windows, Unmarks(w)
      PROVE  CopySound'
  <2>1. Goes(w, "old") /\ \A f \in Folders, m \in Moved : files'[f][m] = files[f][m]
    BY <1>24, UnmarksFacts
  <2> QED
    BY <1>a, <2>1
<1>25. ASSUME NEW w \in Windows, NEW n \in Moved, RemovesOld(w, n)
      PROVE  CopySound'
  <2>1. \A v \in Windows, m \in Moved : window[v].pc \in {"mark", "copy", "commit"} =>
           /\ files'[window[v].from][m] = files[window[v].from][m]
           /\ files'[window[v].move.to][m] = files[window[v].move.to][m]
    BY <1>25, <1>a, RemovesOldFacts DEF OldFolders, OnlyFile
  <2>2. UNCHANGED window
    BY <1>25, RemovesOldFacts
  <2> QED
    BY <2>1, <2>2
<1>26. ASSUME NEW w \in Windows, OldNotRemoved(w)
      PROVE  CopySound'
  <2>1. Over(w) /\ window[w].pc = "old"
        /\ \A f \in Folders \ {window[w].from} : files'[f] = files[f]
    BY <1>26, OldNotRemovedFacts
  <2>2. \A v \in Windows, m \in Moved : window[v].pc \in {"mark", "copy", "commit"} =>
           /\ files'[window[v].from][m] = files[window[v].from][m]
           /\ files'[window[v].move.to][m] = files[window[v].move.to][m]
    BY <1>a, <2>1 DEF OldFolders
  <2> QED
    BY <1>a, <2>1, <2>2
<1>27. ASSUME NEW w \in Windows, ClearsCleanup(w)
      PROVE  CopySound'
  BY <1>27, ClearsCleanupFacts
<1>28. ASSUME NEW w \in Windows, Stop(w)
      PROVE  CopySound'
  <2>1. Over(w) /\ UNCHANGED <<files, record, dirs, keeper, memories, marker, left, out>>
    BY <1>28, StopFacts
  <2> QED
    BY <2>1
<1>29. ASSUME NEW k \in Keepers, Opens(k)
      PROVE  CopySound'
  <2>1. CASE UNCHANGED files
    BY <1>29, <2>1, <1>0, OpensFacts
  <2>2. CASE \A f \in Folders \ {keeper[k].dir} : files'[f] = files[f]
    <3>1. lock[keeper[k].dir] = k /\ keeper[k].dir # record.move.to /\ k \notin Windows
      BY <1>29, OpensFacts DEF KeeperLocks, KeeperFolders
    <3>2. \A v \in Windows : window[v].pc \in {"mark", "copy", "commit"} =>
             /\ files'[window[v].from] = files[window[v].from]
             /\ files'[window[v].move.to] = files[window[v].move.to]
      BY <1>a, <2>2, <3>1
    <3> QED
      BY <1>29, <3>2, OpensFacts
  <2> QED
    BY <1>29, <2>1, <2>2, OpensFacts
<1>30. ASSUME NEW k \in Keepers, NEW e \in Entries, Save(k, e)
      PROVE  CopySound'
  <2>1. lock[record.dir] = k /\ k \notin Windows /\ UNCHANGED window
    BY <1>30, SaveFacts DEF KeeperLocks
  <2>2. \A v \in Windows : window[v].pc \notin {"mark", "copy", "commit"}
    BY <1>a, <2>1
  <2> QED
    BY <2>1, <2>2
<1>31. ASSUME NEW f \in Folders,
             RequestMove(f) \/ TakeOut(f) \/ PutBack(f)
      PROVE  CopySound'
  BY <1>31, <1>0, RequestMoveFacts, TakeOutFacts, PutBackFacts
<1>32. ASSUME NEW k \in Keepers,
             Resolve(k) \/ ProbesIntent(k) \/ TakesVault(k) \/ Leaves(k)
      PROVE  CopySound'
  BY <1>32, <1>0, ResolveFacts, ProbesIntentFacts, TakesVaultFacts, LeavesFacts
<1> HIDE DEF CopySound, Over, Goes, OthersStay, OnlyFile
<1> QED
  BY <1>0, <1>1, <1>2, <1>3, <1>4, <1>5, <1>6, <1>7, <1>8, <1>9, <1>10, <1>11, <1>12,
     <1>13, <1>14, <1>15, <1>16, <1>17, <1>18, <1>19, <1>20, <1>21, <1>22, <1>23, <1>24,
     <1>25, <1>26, <1>27, <1>28, <1>29, <1>30, <1>31, <1>32 DEF Next, StartSteps,
     KeeperSteps
\* The folder the record names is the vault at every moment.
LEMMA VaultThereStep ==
  ASSUME TypeOK, Places, MoveKnown, RecordSound, OldFolders, CopySound, VaultThere, Next
  PROVE  VaultThere'
<1> USE NameFacts DEF VaultThere
<1>0. UNCHANGED <<record, files>> => VaultThere'
  OBVIOUS
<1>a. record.dir \in Folders
  BY DEF TypeOK
<1>b. \A w \in Windows : window[w].pc \in {"half", "check", "mark", "copy", "commit"} =>
        /\ window[w].from = record.dir /\ window[w].move.to = record.move.to
        /\ record.move.to \in Folders /\ record.move.to # record.dir
  BY MoveFacts DEF Attempting
<1>1. ASSUME NEW f \in Folders, RequestMove(f)
      PROVE  VaultThere'
  BY <1>1, RequestMoveFacts
<1>2. ASSUME NEW f \in Folders, OthersFile(f)
      PROVE  VaultThere'
  <2>1. UNCHANGED <<record>> /\ \A n \in Moved : files'[record.dir][n] = files[record.dir][n]
    BY <1>2, <1>a, <1>b, OthersFileFacts DEF OnlyFile
  <2> QED
    BY <2>1
<1>3. ASSUME ForgetOldCopy
      PROVE  VaultThere'
  BY <1>3, ForgetOldCopyFacts
<1>4. ASSUME NEW w \in Windows, NEW kept \in SUBSET Entries, Erase(w, kept)
      PROVE  VaultThere'
  <2>1. UNCHANGED record /\ files'[record.dir]["vault-id"] = files[record.dir]["vault-id"]
    BY <1>4, EraseFacts
  <2> QED
    BY <2>1
<1>5. ASSUME NEW w \in Windows, Attempt(w)
      PROVE  VaultThere'
  BY <1>5, AttemptFacts
<1>6. ASSUME NEW w \in Windows, RemovesHalf(w)
      PROVE  VaultThere'
  <2>1. UNCHANGED <<record>> /\ \A n \in Moved : files'[record.dir][n] = files[record.dir][n]
    BY <1>6, <1>a, <1>b, RemovesHalfFacts DEF OnlyFile
  <2> QED
    BY <2>1
<1>7. ASSUME NEW w \in Windows, HalfRemoved(w)
      PROVE  VaultThere'
  <2>1. record'.dir = record.dir /\ UNCHANGED <<files>>
    BY <1>7, HalfOverFacts DEF HalfOver
  <2> QED
    BY <2>1
<1>8. ASSUME NEW w \in Windows, HalfNotRemoved(w)
      PROVE  VaultThere'
  <2>1. record'.dir = record.dir /\ UNCHANGED <<files>>
    BY <1>8, HalfOverFacts DEF HalfOver
  <2> QED
    BY <2>1
<1>9. ASSUME NEW w \in Windows, MarksFolder(w)
      PROVE  VaultThere'
  <2>1. UNCHANGED <<record>> /\ \A n \in Moved : files'[record.dir][n] = files[record.dir][n]
    BY <1>9, <1>a, <1>b, MarksFolderFacts DEF OnlyFile
  <2> QED
    BY <2>1
<1>10. ASSUME NEW w \in Windows, NEW n \in Moved, Copies(w, n)
      PROVE  VaultThere'
  <2>1. UNCHANGED <<record>> /\ \A name \in Moved : files'[record.dir][name] = files[record.dir][name]
    BY <1>10, <1>a, <1>b, CopiesFacts DEF OnlyFile
  <2> QED
    BY <2>1
<1>11. ASSUME NEW w \in Windows, Commits(w)
      PROVE  VaultThere'
  <2>1. window[w].pc = "commit" /\ UNCHANGED <<files, memories, marker>>
    BY <1>11, CommitsFacts
  <2>2. CASE UNCHANGED record
    BY <2>1, <2>2
  <2>3. CASE record'.dir = window[w].move.to
    <3>1. \A n \in Moved : files[record'.dir][n] = files[record.dir][n]
      BY <1>b, <2>1, <2>3 DEF CopySound
    <3> QED
      BY <2>1, <3>1
  <2> QED
    BY <1>11, <2>2, <2>3, CommitsFacts
<1>12. ASSUME NEW w \in Windows, Unmarks(w)
      PROVE  VaultThere'
  <2>1. UNCHANGED <<record>> /\ \A n \in Moved : files'[record.dir][n] = files[record.dir][n]
    BY <1>12, <1>a, <1>b, UnmarksFacts DEF OnlyFile
  <2> QED
    BY <2>1
<1>13. ASSUME NEW w \in Windows, NEW n \in Moved, RemovesOld(w, n)
      PROVE  VaultThere'
  <2>1. UNCHANGED <<record>> /\ \A name \in Moved : files'[record.dir][name] = files[record.dir][name]
    BY <1>13, <1>a, <1>b, RemovesOldFacts DEF OnlyFile, OldFolders
  <2> QED
    BY <2>1
<1>14. ASSUME NEW w \in Windows, OldNotRemoved(w)
      PROVE  VaultThere'
  <2>1. UNCHANGED <<record>> /\ \A n \in Moved : files'[record.dir][n] = files[record.dir][n]
    BY <1>14, <1>a, <1>b, OldNotRemovedFacts DEF OldFolders
  <2> QED
    BY <2>1
<1>15. ASSUME NEW w \in Windows, ClearsCleanup(w)
      PROVE  VaultThere'
  BY <1>15, ClearsCleanupFacts
<1>16. ASSUME NEW k \in Keepers, Opens(k)
      PROVE  VaultThere'
  <2>1. UNCHANGED record /\ files'[record.dir]["vault-id"] = files[record.dir]["vault-id"]
    BY <1>16, <1>a, OpensFacts
  <2> QED
    BY <2>1
<1>17. ASSUME NEW k \in Keepers, NEW e \in Entries, Save(k, e)
      PROVE  VaultThere'
  <2>1. UNCHANGED record /\ files'[record.dir]["vault-id"] = files[record.dir]["vault-id"]
    BY <1>17, <1>a, SaveFacts DEF OnlyFile
  <2> QED
    BY <2>1
<1>18. ASSUME NEW f \in Folders,
             TakeOut(f) \/ PutBack(f)
      PROVE  VaultThere'
  BY <1>18, <1>0, TakeOutFacts, PutBackFacts
<1>19. ASSUME NEW w \in Windows,
             EraseAsked(w) \/ EraseRefused(w) \/ Start(w) \/ TakesIntent(w) \/ TakesLock(w) \/
             CannotHave(w) \/ NoAttempt(w) \/ AfterFailure(w) \/ MakesFolder(w) \/
             FolderNotUsable(w) \/ Verifies(w) \/ Unreachable(w) \/ CleansOld(w) \/ Stop(w)
      PROVE  VaultThere'
  BY <1>19, <1>0, EraseAskedFacts, EraseRefusedFacts, StartFacts, TakesIntentFacts,
     TakesLockFacts, CannotHaveFacts, NoAttemptFacts, AfterFailureFacts, MakesFolderFacts,
     FolderNotUsableFacts, VerifiesFacts, UnreachableFacts, CleansOldFacts, StopFacts
<1>20. ASSUME NEW k \in Keepers,
             Resolve(k) \/ ProbesIntent(k) \/ TakesVault(k) \/ Leaves(k)
      PROVE  VaultThere'
  BY <1>20, <1>0, ResolveFacts, ProbesIntentFacts, TakesVaultFacts, LeavesFacts
<1> HIDE DEF VaultThere
<1> QED
  BY <1>0, <1>1, <1>2, <1>3, <1>4, <1>5, <1>6, <1>7, <1>8, <1>9, <1>10, <1>11, <1>12,
     <1>13, <1>14, <1>15, <1>16, <1>17, <1>18, <1>19, <1>20 DEF Next, StartSteps,
     KeeperSteps

\* ... and holds what was last saved, unless an erasure is to be finished.
LEMMA VaultCurrentStep ==
  ASSUME TypeOK, Places, MoveKnown, RecordSound, OldFolders, CopySound, VaultCurrent, Next
  PROVE  VaultCurrent'
<1> USE NameFacts DEF VaultCurrent
<1>0. UNCHANGED <<record, files, marker, memories>> => VaultCurrent'
  OBVIOUS
<1>a. record.dir \in Folders
  BY DEF TypeOK
<1>b. \A w \in Windows : window[w].pc \in {"half", "check", "mark", "copy", "commit"} =>
        /\ window[w].from = record.dir /\ window[w].move.to = record.move.to
        /\ record.move.to \in Folders /\ record.move.to # record.dir
  BY MoveFacts DEF Attempting
<1>1. ASSUME NEW f \in Folders, RequestMove(f)
      PROVE  VaultCurrent'
  BY <1>1, RequestMoveFacts
<1>2. ASSUME NEW f \in Folders, OthersFile(f)
      PROVE  VaultCurrent'
  <2>1. UNCHANGED <<record, marker, memories>>
        /\ \A n \in Moved : files'[record.dir][n] = files[record.dir][n]
    BY <1>2, <1>a, <1>b, OthersFileFacts DEF OnlyFile
  <2> QED
    BY <2>1
<1>3. ASSUME ForgetOldCopy
      PROVE  VaultCurrent'
  BY <1>3, ForgetOldCopyFacts
<1>4. ASSUME NEW w \in Windows, NEW kept \in SUBSET Entries, Erase(w, kept)
      PROVE  VaultCurrent'
  <2>1. UNCHANGED record /\ (kept = {} => \A e \in Entries : files'[record.dir][e] = memories'[e])
    BY <1>4, EraseFacts
  <2> QED
    BY <1>4, <2>1, EraseFacts
<1>5. ASSUME NEW w \in Windows, Attempt(w)
      PROVE  VaultCurrent'
  BY <1>5, AttemptFacts
<1>6. ASSUME NEW w \in Windows, RemovesHalf(w)
      PROVE  VaultCurrent'
  <2>1. UNCHANGED <<record, marker, memories>>
        /\ \A n \in Moved : files'[record.dir][n] = files[record.dir][n]
    BY <1>6, <1>a, <1>b, RemovesHalfFacts DEF OnlyFile
  <2> QED
    BY <2>1
<1>7. ASSUME NEW w \in Windows, HalfRemoved(w)
      PROVE  VaultCurrent'
  <2>1. record'.dir = record.dir /\ UNCHANGED <<files, marker, memories>>
    BY <1>7, HalfOverFacts DEF HalfOver
  <2> QED
    BY <2>1
<1>8. ASSUME NEW w \in Windows, HalfNotRemoved(w)
      PROVE  VaultCurrent'
  <2>1. record'.dir = record.dir /\ UNCHANGED <<files, marker, memories>>
    BY <1>8, HalfOverFacts DEF HalfOver
  <2> QED
    BY <2>1
<1>9. ASSUME NEW w \in Windows, MarksFolder(w)
      PROVE  VaultCurrent'
  <2>1. UNCHANGED <<record, marker, memories>>
        /\ \A n \in Moved : files'[record.dir][n] = files[record.dir][n]
    BY <1>9, <1>a, <1>b, MarksFolderFacts DEF OnlyFile
  <2> QED
    BY <2>1
<1>10. ASSUME NEW w \in Windows, NEW n \in Moved, Copies(w, n)
      PROVE  VaultCurrent'
  <2>1. UNCHANGED <<record, marker, memories>>
        /\ \A name \in Moved : files'[record.dir][name] = files[record.dir][name]
    BY <1>10, <1>a, <1>b, CopiesFacts DEF OnlyFile
  <2> QED
    BY <2>1
<1>11. ASSUME NEW w \in Windows, Commits(w)
      PROVE  VaultCurrent'
  <2>1. window[w].pc = "commit" /\ UNCHANGED <<files, memories, marker>>
    BY <1>11, CommitsFacts
  <2>2. CASE UNCHANGED record
    BY <2>1, <2>2
  <2>3. CASE record'.dir = window[w].move.to
    <3>1. \A n \in Moved : files[record'.dir][n] = files[record.dir][n]
      BY <1>b, <2>1, <2>3 DEF CopySound
    <3> QED
      BY <2>1, <3>1
  <2> QED
    BY <1>11, <2>2, <2>3, CommitsFacts
<1>12. ASSUME NEW w \in Windows, Unmarks(w)
      PROVE  VaultCurrent'
  <2>1. UNCHANGED <<record, marker, memories>>
        /\ \A n \in Moved : files'[record.dir][n] = files[record.dir][n]
    BY <1>12, <1>a, <1>b, UnmarksFacts DEF OnlyFile
  <2> QED
    BY <2>1
<1>13. ASSUME NEW w \in Windows, NEW n \in Moved, RemovesOld(w, n)
      PROVE  VaultCurrent'
  <2>1. UNCHANGED <<record, marker, memories>>
        /\ \A name \in Moved : files'[record.dir][name] = files[record.dir][name]
    BY <1>13, <1>a, <1>b, RemovesOldFacts DEF OnlyFile, OldFolders
  <2> QED
    BY <2>1
<1>14. ASSUME NEW w \in Windows, OldNotRemoved(w)
      PROVE  VaultCurrent'
  <2>1. UNCHANGED <<record, marker, memories>>
        /\ \A n \in Moved : files'[record.dir][n] = files[record.dir][n]
    BY <1>14, <1>a, <1>b, OldNotRemovedFacts DEF OldFolders
  <2> QED
    BY <2>1
<1>15. ASSUME NEW w \in Windows, ClearsCleanup(w)
      PROVE  VaultCurrent'
  BY <1>15, ClearsCleanupFacts
<1>16. ASSUME NEW k \in Keepers, Opens(k)
      PROVE  VaultCurrent'
  <2>1. CASE UNCHANGED <<files, marker, memories>>
    BY <1>16, <2>1, <1>0, OpensFacts
  <2>2. CASE keeper[k].dir = record.dir /\ memories' = [e \in Entries |-> files'[record.dir][e]]
    BY <1>16, <2>2, OpensFacts
  <2>3. CASE /\ keeper[k].dir # record.dir /\ UNCHANGED memories
             /\ \A f \in Folders \ {keeper[k].dir} : files'[f] = files[f]
             /\ marker' = (marker /\ keeper[k].dir # record.dir)
    <3>1. files'[record.dir] = files[record.dir] /\ (marker => marker') /\ UNCHANGED record
      BY <1>16, <1>a, <2>3, OpensFacts
    <3> QED
      BY <2>3, <3>1
  <2> QED
    BY <1>16, <2>1, <2>2, <2>3, OpensFacts
<1>17. ASSUME NEW k \in Keepers, NEW e \in Entries, Save(k, e)
      PROVE  VaultCurrent'
  <2>1. /\ UNCHANGED <<record, marker>>
        /\ \A d \in Entries : files[record.dir][d] = memories[d] => files'[record.dir][d] = memories'[d]
    BY <1>17, <1>a, SaveFacts DEF OnlyFile
  <2> QED
    BY <2>1
<1>18. ASSUME NEW f \in Folders,
             TakeOut(f) \/ PutBack(f)
      PROVE  VaultCurrent'
  BY <1>18, <1>0, TakeOutFacts, PutBackFacts
<1>19. ASSUME NEW w \in Windows,
             EraseAsked(w) \/ EraseRefused(w) \/ Start(w) \/ TakesIntent(w) \/ TakesLock(w) \/
             CannotHave(w) \/ NoAttempt(w) \/ AfterFailure(w) \/ MakesFolder(w) \/
             FolderNotUsable(w) \/ Verifies(w) \/ Unreachable(w) \/ CleansOld(w) \/ Stop(w)
      PROVE  VaultCurrent'
  BY <1>19, <1>0, EraseAskedFacts, EraseRefusedFacts, StartFacts, TakesIntentFacts,
     TakesLockFacts, CannotHaveFacts, NoAttemptFacts, AfterFailureFacts, MakesFolderFacts,
     FolderNotUsableFacts, VerifiesFacts, UnreachableFacts, CleansOldFacts, StopFacts
<1>20. ASSUME NEW k \in Keepers,
             Resolve(k) \/ ProbesIntent(k) \/ TakesVault(k) \/ Leaves(k)
      PROVE  VaultCurrent'
  BY <1>20, <1>0, ResolveFacts, ProbesIntentFacts, TakesVaultFacts, LeavesFacts
<1> HIDE DEF VaultCurrent
<1> QED
  BY <1>0, <1>1, <1>2, <1>3, <1>4, <1>5, <1>6, <1>7, <1>8, <1>9, <1>10, <1>11, <1>12,
     <1>13, <1>14, <1>15, <1>16, <1>17, <1>18, <1>19, <1>20 DEF Next, StartSteps,
     KeeperSteps

\* What a move leaves behind is empty, or the person is told of it.
LEMMA OneCopyStep ==
  ASSUME TypeOK, Places, MoveKnown, RecordSound, OldFolders,
         FoldersSound, OutRemembered, OneCopy, Next
  PROVE  OneCopy'
<1> USE NameFacts DEF OneCopy
<1>0. UNCHANGED <<record, files, left>> => OneCopy'
  OBVIOUS
<1>a. record.dir \in Folders
  BY DEF TypeOK
<1>b. \A w \in Windows : window[w].pc \in {"half", "check", "mark", "copy", "commit"} =>
        /\ window[w].from = record.dir /\ window[w].move.to = record.move.to
        /\ record.move.to \in Folders /\ record.move.to # record.dir
  BY MoveFacts DEF Attempting
<1>c. NoMove.to \notin Folders /\ NoCleanup.from \notin Folders
  BY FolderAssumption DEF NoMove, NoCleanup
<1>1. ASSUME NEW f \in Folders, RequestMove(f)
      PROVE  OneCopy'
  <2>1. /\ UNCHANGED <<files, left>> /\ record'.dir = record.dir /\ record'.cleanup = record.cleanup
        /\ record.move = NoMove
    BY <1>1, RequestMoveFacts
  <2> QED
    BY <1>c, <2>1
<1>2. ASSUME NEW f \in Folders, TakeOut(f)
      PROVE  OneCopy'
  BY <1>2, TakeOutFacts
<1>3. ASSUME NEW f \in Folders, OthersFile(f)
      PROVE  OneCopy'
  <2>1. UNCHANGED <<record, left>>
        /\ \A g \in Folders \ {record.dir, record.move.to}, e \in Entries :
          files'[g][e] \in {files[g][e], Absent, Fresh}
    BY <1>3, <1>a, <1>b, OthersFileFacts DEF OnlyFile
  <2> QED
    BY <2>1
<1>4. ASSUME ForgetOldCopy
      PROVE  OneCopy'
  BY <1>4, ForgetOldCopyFacts
<1>5. ASSUME NEW w \in Windows, NEW kept \in SUBSET Entries, Erase(w, kept)
      PROVE  OneCopy'
  <2>1. UNCHANGED <<record, left>>
        /\ \A f \in Folders \ {record.dir, record.move.to}, e \in Entries :
          files'[f][e] \in {files[f][e], Absent, Fresh}
    BY <1>5, <1>a, <1>b, EraseFacts
  <2> QED
    BY <2>1
<1>6. ASSUME NEW w \in Windows, Attempt(w)
      PROVE  OneCopy'
  BY <1>6, AttemptFacts
<1>7. ASSUME NEW w \in Windows, RemovesHalf(w)
      PROVE  OneCopy'
  <2>1. UNCHANGED <<record, left>>
        /\ \A f \in Folders \ {record.dir, record.move.to}, e \in Entries :
          files'[f][e] \in {files[f][e], Absent, Fresh}
    BY <1>7, <1>a, <1>b, RemovesHalfFacts DEF OnlyFile
  <2> QED
    BY <2>1
<1>8. ASSUME NEW w \in Windows, HalfRemoved(w)
      PROVE  OneCopy'
  <2>1. /\ window[w].pc = "half" /\ HalfOver(w) /\ UNCHANGED <<files, dirs, out>>
        /\ record'.dir = record.dir /\ record'.cleanup = record.cleanup
    BY <1>8, HalfOverFacts DEF HalfOver
  <2>2. window[w].move.to = record.move.to
    BY <1>b, <2>1
  <2>3. CASE UNCHANGED <<record, left>>
    BY <2>1, <2>3
  <2>4. CASE left \subseteq left' /\ (Seen(window[w].move.to) => window[w].move.to \in left')
    <3>1. window[w].move.to \in left' \/ \A e \in Entries : files[window[w].move.to][e] = Absent
      BY <1>b, <2>1, <2>4 DEF Seen, FoldersSound, OutRemembered
    <3> QED
      BY <2>1, <2>2, <2>4, <3>1
  <2> QED
    BY <2>1, <2>3, <2>4 DEF HalfOver
<1>9. ASSUME NEW w \in Windows, HalfNotRemoved(w)
      PROVE  OneCopy'
  <2>1. /\ window[w].pc = "half" /\ HalfOver(w) /\ UNCHANGED <<files, dirs, out>>
        /\ record'.dir = record.dir /\ record'.cleanup = record.cleanup
    BY <1>9, HalfOverFacts DEF HalfOver
  <2>2. window[w].move.to = record.move.to
    BY <1>b, <2>1
  <2>3. CASE UNCHANGED <<record, left>>
    BY <2>1, <2>3
  <2>4. CASE left \subseteq left' /\ (Seen(window[w].move.to) => window[w].move.to \in left')
    <3>1. window[w].move.to \in left' \/ \A e \in Entries : files[window[w].move.to][e] = Absent
      BY <1>b, <2>1, <2>4 DEF Seen, FoldersSound, OutRemembered
    <3> QED
      BY <2>1, <2>2, <2>4, <3>1
  <2> QED
    BY <2>1, <2>3, <2>4 DEF HalfOver
<1>10. ASSUME NEW w \in Windows, MarksFolder(w)
      PROVE  OneCopy'
  <2>1. UNCHANGED <<record, left>>
        /\ \A f \in Folders \ {record.dir, record.move.to}, e \in Entries :
          files'[f][e] \in {files[f][e], Absent, Fresh}
    BY <1>10, <1>a, <1>b, MarksFolderFacts DEF OnlyFile
  <2> QED
    BY <2>1
<1>11. ASSUME NEW w \in Windows, NEW n \in Moved, Copies(w, n)
      PROVE  OneCopy'
  <2>1. UNCHANGED <<record, left>>
        /\ \A f \in Folders \ {record.dir, record.move.to}, e \in Entries :
          files'[f][e] \in {files[f][e], Absent, Fresh}
    BY <1>11, <1>a, <1>b, CopiesFacts DEF OnlyFile
  <2> QED
    BY <2>1
<1>12. ASSUME NEW w \in Windows, Commits(w)
      PROVE  OneCopy'
  <2>1. window[w].pc = "commit" /\ UNCHANGED <<files, left>>
    BY <1>12, CommitsFacts
  <2>2. CASE UNCHANGED record
    BY <2>1, <2>2
  <2>3. CASE record'.dir = window[w].move.to /\ record'.cleanup.from = window[w].from
    <3>1. record'.dir = record.move.to /\ record'.cleanup.from = record.dir
      BY <1>b, <2>1, <2>3
    <3>2. record.cleanup = NoCleanup
      BY <2>1, MoveFacts DEF Attempting
    <3> QED
      BY <1>c, <2>1, <3>1, <3>2
  <2> QED
    BY <1>12, <2>2, <2>3, CommitsFacts
<1>13. ASSUME NEW w \in Windows, Unmarks(w)
      PROVE  OneCopy'
  <2>1. UNCHANGED <<record, left>>
        /\ \A f \in Folders \ {record.dir, record.move.to}, e \in Entries :
          files'[f][e] \in {files[f][e], Absent, Fresh}
    BY <1>13, <1>a, <1>b, UnmarksFacts DEF OnlyFile
  <2> QED
    BY <2>1
<1>14. ASSUME NEW w \in Windows, NEW n \in Moved, RemovesOld(w, n)
      PROVE  OneCopy'
  <2>1. UNCHANGED <<record, left>>
        /\ \A f \in Folders \ {record.dir, record.move.to}, e \in Entries :
          files'[f][e] \in {files[f][e], Absent, Fresh}
    BY <1>14, <1>a, <1>b, RemovesOldFacts DEF OnlyFile
  <2> QED
    BY <2>1
<1>15. ASSUME NEW w \in Windows, OldNotRemoved(w)
      PROVE  OneCopy'
  <2>1. UNCHANGED <<record, left>>
        /\ \A f \in Folders \ {record.dir, record.move.to}, e \in Entries :
          files'[f][e] \in {files[f][e], Absent, Fresh}
    BY <1>15, <1>a, <1>b, OldNotRemovedFacts
  <2> QED
    BY <2>1
<1>16. ASSUME NEW w \in Windows, ClearsCleanup(w)
      PROVE  OneCopy'
  <2>1. /\ window[w].pc = "old" /\ UNCHANGED <<files, left, dirs, out>>
        /\ record'.dir = record.dir /\ record'.move = record.move
    BY <1>16, ClearsCleanupFacts
  <2>2. CASE record' = record \/ record.cleanup = NoCleanup
    BY <1>c, <2>1, <2>2
  <2>3. CASE record.cleanup # NoCleanup /\ record.cleanup.id = window[w].move.id
    <3>1. record.cleanup.from = window[w].from /\ window[w].from \in dirs
      BY <2>1, <2>3 DEF OldFolders
    <3>2. window[w].from \in left \/ \A e \in Entries : files[window[w].from][e] = Absent
      BY <1>16, <3>1, ClearsCleanupFacts DEF Seen, OutRemembered
    <3> QED
      BY <2>1, <3>1, <3>2
  <2> QED
    BY <1>16, <2>2, <2>3, ClearsCleanupFacts
<1>17. ASSUME NEW k \in Keepers, Opens(k)
      PROVE  OneCopy'
  <2>1. UNCHANGED <<record, left>>
        /\ \A f \in Folders \ {record.dir, record.move.to}, e \in Entries :
          files'[f][e] \in {files[f][e], Absent, Fresh}
    BY <1>17, <1>a, <1>b, OpensFacts
  <2> QED
    BY <2>1
<1>18. ASSUME NEW k \in Keepers, NEW e \in Entries, Save(k, e)
      PROVE  OneCopy'
  <2>1. UNCHANGED <<record, left>>
        /\ \A f \in Folders \ {record.dir, record.move.to}, x \in Entries :
          files'[f][x] \in {files[f][x], Absent, Fresh}
    BY <1>18, <1>a, <1>b, SaveFacts DEF OnlyFile
  <2> QED
    BY <2>1
<1>19. ASSUME NEW f \in Folders,
             PutBack(f)
      PROVE  OneCopy'
  BY <1>19, <1>0, PutBackFacts
<1>20. ASSUME NEW w \in Windows,
             EraseAsked(w) \/ EraseRefused(w) \/ Start(w) \/ TakesIntent(w) \/ TakesLock(w) \/
             CannotHave(w) \/ NoAttempt(w) \/ AfterFailure(w) \/ MakesFolder(w) \/
             FolderNotUsable(w) \/ Verifies(w) \/ Unreachable(w) \/ CleansOld(w) \/ Stop(w)
      PROVE  OneCopy'
  BY <1>20, <1>0, EraseAskedFacts, EraseRefusedFacts, StartFacts, TakesIntentFacts,
     TakesLockFacts, CannotHaveFacts, NoAttemptFacts, AfterFailureFacts, MakesFolderFacts,
     FolderNotUsableFacts, VerifiesFacts, UnreachableFacts, CleansOldFacts, StopFacts
<1>21. ASSUME NEW k \in Keepers,
             Resolve(k) \/ ProbesIntent(k) \/ TakesVault(k) \/ Leaves(k)
      PROVE  OneCopy'
  BY <1>21, <1>0, ResolveFacts, ProbesIntentFacts, TakesVaultFacts, LeavesFacts
<1> HIDE DEF OneCopy
<1> QED
  BY <1>0, <1>1, <1>2, <1>3, <1>4, <1>5, <1>6, <1>7, <1>8, <1>9, <1>10, <1>11, <1>12,
     <1>13, <1>14, <1>15, <1>16, <1>17, <1>18, <1>19, <1>20, <1>21 DEF Next, StartSteps,
     KeeperSteps
----------------------------------------------------------------------------
(* The invariant, and what follows from it *)

\* At first a vault is in its home and nobody is at work.
LEMMA InitTypeOK ==
  ASSUME Init
  PROVE  TypeOK
<1> USE IdleFacts, NameFacts, FolderAssumption, MoveBoundAssumption DEF Init
<1>1. NoCleanup \in [from : Folders \cup {NoFolder}, id : 0..MaxMoves]
  BY DEF NoCleanup
<1>2. record \in [dir : Folders, move : Moves, cleanup : [from : Folders \cup {NoFolder}, id : 0..MaxMoves]]
  BY <1>1
<1>3. files \in [Folders -> [Names -> Contents]]
  BY DEF Names
<1>4. window \in [Windows -> WindowStates] /\ keeper \in [Keepers -> KeeperStates]
  BY DEF Nowhere, KeeperStates
<1>5. last \in [move : 0..MaxMoves, save : 0..MaxSaves, trouble : 0..MaxTroubles]
  OBVIOUS
<1>6. /\ dirs \subseteq Folders /\ out \subseteq Folders /\ left \subseteq Folders /\ marker \in BOOLEAN
      /\ intent \in [Folders -> Windows \cup {Nobody}]
      /\ lock \in [Folders -> Windows \cup Keepers \cup {Nobody}]
      /\ k1 \in Windows \cup {Nobody} /\ memories \in [Entries -> Contents]
  OBVIOUS
<1> QED
  BY <1>2, <1>3, <1>4, <1>5, <1>6 DEF TypeOK

\* ... and the invariant holds.
LEMMA InitIInv ==
  ASSUME Init
  PROVE  IInv
<1>1. TypeOK
  BY InitTypeOK
<1>2. /\ \A w \in Windows : window[w].pc = "idle" /\ window[w].goal = "none"
      /\ \A k \in Keepers : keeper[k].pc = "off"
  BY IdleFacts DEF Init, Nowhere
<1>3. record.dir = Home /\ record.move = NoMove /\ record.cleanup = NoCleanup /\ Home \in dirs
      /\ k1 = Nobody /\ out = {} /\ left = {} /\ Home \in Folders /\ dirs = {Home}
  BY FolderAssumption DEF Init
<1>4. /\ \A f \in Folders \ {Home}, n \in Names : files[f][n] = Absent
      /\ \A n \in Moved : files[Home][n] = 1
      /\ \A e \in Entries : memories[e] = 1
  BY NameFacts, FolderAssumption DEF Init
<1>5. Places /\ WindowLocks /\ KeeperLocks /\ MoveKnown /\ OldFolders /\ KeeperFolders
  BY <1>2, <1>3 DEF Places, WindowLocks, KeeperLocks, MoveKnown, OldFolders,
     KeeperFolders, Attempting
<1>6. KeyLockHeld
  BY <1>2, <1>3, FolderAssumption DEF KeyLockHeld, Attempting
<1>7. RecordSound /\ OutRemembered /\ FoldersSound
  BY <1>3, <1>4 DEF RecordSound, OutRemembered, FoldersSound
<1>8. CopyStarts /\ CopySound
  BY <1>2 DEF CopyStarts, CopySound
<1>9. VaultThere /\ VaultCurrent /\ OneCopy
  BY <1>3, <1>4, NameFacts DEF VaultThere, VaultCurrent, OneCopy
<1> QED
  BY <1>1, <1>5, <1>6, <1>7, <1>8, <1>9 DEF IInv

\* Nothing is lost while nothing happens.
LEMMA StutterIInv ==
  ASSUME IInv, UNCHANGED vars
  PROVE  IInv'
<1> USE DEF vars
<1>1. TypeOK'
  BY DEF IInv, TypeOK
<1>2. Places'
  BY DEF IInv, Places
<1>3. FoldersSound'
  BY DEF IInv, FoldersSound
<1>4. WindowLocks'
  BY DEF IInv, WindowLocks
<1>5. KeeperLocks'
  BY DEF IInv, KeeperLocks
<1>6. KeyLockHeld'
  BY DEF IInv, KeyLockHeld
<1>7. MoveKnown'
  BY DEF IInv, MoveKnown
<1>8. RecordSound'
  BY DEF IInv, RecordSound
<1>9. OldFolders'
  BY DEF IInv, OldFolders
<1>10. KeeperFolders'
  BY DEF IInv, KeeperFolders
<1>11. OutRemembered'
  BY DEF IInv, OutRemembered
<1>12. CopyStarts'
  BY DEF IInv, CopyStarts
<1>13. CopySound'
  BY DEF IInv, CopySound
<1>14. VaultThere'
  BY DEF IInv, VaultThere
<1>15. VaultCurrent'
  BY DEF IInv, VaultCurrent
<1>16. OneCopy'
  BY DEF IInv, OneCopy
<1> QED
  BY <1>1, <1>2, <1>3, <1>4, <1>5, <1>6, <1>7, <1>8, <1>9, <1>10, <1>11, <1>12, <1>13,
     <1>14, <1>15, <1>16 DEF IInv

\* Every step keeps the invariant.
LEMMA StepIInv ==
  ASSUME IInv, Next, PatientPerson
  PROVE  IInv'
<1>0. TypeOK /\ Places /\ FoldersSound /\ WindowLocks /\ KeeperLocks /\ KeyLockHeld
      /\ MoveKnown /\ RecordSound
      /\ OldFolders /\ KeeperFolders /\ OutRemembered /\ CopyStarts /\ CopySound /\ VaultThere /\ VaultCurrent /\ OneCopy
  BY DEF IInv
<1>1. TypeOK'
  BY <1>0, TypeStep
<1>2. Places'
  BY <1>0, PlacesStep
<1>3. FoldersSound'
  BY <1>0, FoldersStep
<1>4. WindowLocks'
  BY <1>0, WindowLocksStep
<1>5. KeeperLocks'
  BY <1>0, KeeperLocksStep
<1>6. KeyLockHeld'
  BY <1>0, KeyLockHeldStep
<1>7. MoveKnown'
  BY <1>0, MoveKnownStep
<1>8. RecordSound'
  BY <1>0, RecordSoundStep
<1>9. OldFolders'
  BY <1>0, OldFoldersStep
<1>10. KeeperFolders'
  BY <1>0, KeeperFoldersStep
<1>11. OutRemembered'
  BY <1>0, OutRememberedStep
<1>12. CopyStarts'
  BY <1>0, CopyStartsStep
<1>13. CopySound'
  BY <1>0, CopySoundStep
<1>14. VaultThere'
  BY <1>0, VaultThereStep
<1>15. VaultCurrent'
  BY <1>0, VaultCurrentStep
<1>16. OneCopy'
  BY <1>0, OneCopyStep
<1> QED
  BY <1>1, <1>2, <1>3, <1>4, <1>5, <1>6, <1>7, <1>8, <1>9, <1>10, <1>11, <1>12, <1>13,
     <1>14, <1>15, <1>16 DEF IInv

\* By induction over the steps.
LEMMA Invariant ==
  ASSUME PatientPerson
  PROVE  Spec => []IInv
<1>1. Init => IInv
  BY InitIInv
<1>2. IInv /\ [Next]_vars => IInv'
  BY StepIInv, StutterIInv
<1> QED
  BY <1>1, <1>2, PTL DEF Spec

(***************************************************************************)
(* While a window copies the vault and while it makes the switch, the      *)
(* folder it copies is the one the location record names and its lock is   *)
(* this window's: no other window and no keeper works there.               *)
(***************************************************************************)
THEOREM SourceIsHeld ==
  ASSUME PatientPerson
  PROVE  Spec => []MoveInv
<1>1. IInv => MoveInv
  BY DEF IInv, MoveKnown, WindowLocks, MoveInv, SourceHeld, Attempting
<1> QED
  BY <1>1, Invariant, PTL

(***************************************************************************)
(* The folder the location record names is at every moment the whole       *)
(* vault, whatever step of a move a process stops at, and a move that is   *)
(* over left the memories nowhere else that the person was not told of.    *)
(***************************************************************************)
THEOREM AlwaysOneVault ==
  ASSUME PatientPerson
  PROVE  Spec => []NamedVaultComplete
<1>1. IInv => NamedVaultComplete
  BY DEF IInv, VaultThere, VaultCurrent, NamedVaultComplete
<1> QED
  BY <1>1, Invariant, PTL

\* A folder with a file of other people's keeps it.
LEMMA OthersStep ==
  ASSUME TypeOK, Places, FoldersSound, Next, NEW g \in Folders, files[g]["other"] # Absent
  PROVE  files'[g]["other"] # Absent /\ g \in dirs'
<1> DEFINE Kept == files'[g]["other"] # Absent /\ g \in dirs'
<1>g. g \in dirs /\ "other" \in Names /\ "other" \notin Moved /\ Entries \subseteq Moved
  BY NameFacts DEF FoldersSound
<1>0. UNCHANGED <<files, dirs>> => Kept
  BY <1>g
<1>1. ASSUME NEW f \in Folders, OthersFile(f)
      PROVE  Kept
  BY <1>1, OthersFileFacts, <1>g, NameFacts DEF OnlyFile, Absent
<1>2. ASSUME ForgetOldCopy
      PROVE  Kept
  BY <1>2, <1>0, ForgetOldCopyFacts
<1>3. ASSUME NEW w \in Windows, NEW kept \in SUBSET Entries, Erase(w, kept)
      PROVE  Kept
  BY <1>3, EraseFacts, <1>g, NameFacts DEF OnlyFile
<1>4. ASSUME NEW w \in Windows, RemovesHalf(w)
      PROVE  Kept
  BY <1>4, RemovesHalfFacts, <1>g, NameFacts DEF OnlyFile
<1>5. ASSUME NEW w \in Windows, MakesFolder(w)
      PROVE  Kept
  BY <1>5, MakesFolderFacts, <1>g, NameFacts DEF OnlyFile
<1>6. ASSUME NEW w \in Windows, MarksFolder(w)
      PROVE  Kept
  BY <1>6, MarksFolderFacts, <1>g, NameFacts DEF OnlyFile
<1>7. ASSUME NEW w \in Windows, NEW n \in Moved, Copies(w, n)
      PROVE  Kept
  BY <1>7, CopiesFacts, <1>g, NameFacts DEF OnlyFile
<1>8. ASSUME NEW w \in Windows, Unmarks(w)
      PROVE  Kept
  BY <1>8, UnmarksFacts, <1>g, NameFacts DEF OnlyFile
<1>9. ASSUME NEW w \in Windows, NEW n \in Moved, RemovesOld(w, n)
      PROVE  Kept
  BY <1>9, RemovesOldFacts, <1>g, NameFacts DEF OnlyFile
<1>10. ASSUME NEW w \in Windows, OldNotRemoved(w)
      PROVE  Kept
  BY <1>10, OldNotRemovedFacts, <1>g, NameFacts DEF OnlyFile
<1>11. ASSUME NEW k \in Keepers, Opens(k)
      PROVE  Kept
  <2>1. UNCHANGED dirs /\ files'[g]["other"] = files[g]["other"]
    BY <1>11, <1>g, OpensFacts
  <2> QED
    BY <2>1, <1>g
<1>12. ASSUME NEW k \in Keepers, NEW e \in Entries, Save(k, e)
      PROVE  Kept
  BY <1>12, SaveFacts, <1>g, NameFacts DEF OnlyFile
<1>13. ASSUME NEW f \in Folders,
             RequestMove(f) \/ TakeOut(f) \/ PutBack(f)
      PROVE  Kept
  BY <1>13, <1>0, RequestMoveFacts, TakeOutFacts, PutBackFacts
<1>14. ASSUME NEW w \in Windows,
             EraseAsked(w) \/ EraseRefused(w) \/ Start(w) \/ TakesIntent(w) \/ TakesLock(w) \/
             CannotHave(w) \/ NoAttempt(w) \/ Attempt(w) \/ HalfRemoved(w) \/ HalfNotRemoved(w)
             \/ AfterFailure(w) \/ FolderNotUsable(w) \/ Verifies(w) \/ Unreachable(w) \/
             Commits(w) \/ CleansOld(w) \/ ClearsCleanup(w) \/ Stop(w)
      PROVE  Kept
  BY <1>14, <1>0, EraseAskedFacts, EraseRefusedFacts, StartFacts, TakesIntentFacts,
     TakesLockFacts, CannotHaveFacts, NoAttemptFacts, AttemptFacts, HalfRemovedFacts,
     HalfOverFacts, HalfNotRemovedFacts, AfterFailureFacts, FolderNotUsableFacts,
     VerifiesFacts, UnreachableFacts, CommitsFacts, CleansOldFacts, ClearsCleanupFacts,
     StopFacts
<1>15. ASSUME NEW k \in Keepers,
             Resolve(k) \/ ProbesIntent(k) \/ TakesVault(k) \/ Leaves(k)
      PROVE  Kept
  BY <1>15, <1>0, ResolveFacts, ProbesIntentFacts, TakesVaultFacts, LeavesFacts
<1> HIDE DEF Kept
<1>99. Kept
  BY <1>0, <1>1, <1>2, <1>3, <1>4, <1>5, <1>6, <1>7, <1>8, <1>9, <1>10, <1>11, <1>12,
     <1>13, <1>14, <1>15 DEF Next, StartSteps, KeeperSteps
<1> QED
  BY <1>99 DEF Kept

(***************************************************************************)
(* What other people keep in a folder stays, whether or not the person     *)
(* waits with the next move: no move, cleaning or erasure removes a file   *)
(* of theirs, nor the folder it is in.                                     *)
(***************************************************************************)
THEOREM OthersKeepTheirs == Spec => OthersKept
<1> DEFINE Sound == TypeOK /\ Places /\ FoldersSound
<1>1. Init => Sound
  BY InitIInv DEF IInv
<1>2. Sound /\ [Next]_vars => Sound'
  <2>1. ASSUME Sound, Next PROVE Sound'
    BY <2>1, TypeStep, PlacesStep, FoldersStep
  <2>2. ASSUME Sound, UNCHANGED vars PROVE Sound'
    <3> USE DEF vars
    <3>1. TypeOK'
      BY <2>2 DEF TypeOK
    <3>2. Places' /\ FoldersSound'
      BY <2>2 DEF Places, FoldersSound
    <3> QED
      BY <3>1, <3>2
  <2> QED
    BY <2>1, <2>2
<1>3. Sound /\ [Next]_vars =>
        [\A f \in Folders : files[f]["other"] # Absent =>
           files'[f]["other"] # Absent /\ f \in dirs']_vars
  BY OthersStep
<1> QED
  BY <1>1, <1>2, <1>3, PTL DEF Spec, OthersKept
----------------------------------------------------------------------------
(* A vault that now and then is elsewhere *)

Content == [e \in Entries |-> files[record.dir][e]]

\* Nothing happens to a vault whose folder and entries stay.
LEMMA SameVault ==
  ASSUME record'.dir = record.dir,
         \A e \in Entries : files'[record.dir][e] = files[record.dir][e]
  PROVE  record'.dir = record.dir /\ Content' = Content
BY DEF Content

\* Each step is a step of the named vault, or none.
LEMMA VaultStep ==
  ASSUME IInv, Next
  PROVE  [Vault!Next]_(Vault!vars)
<1> DEFINE Steps == [Vault!Next]_(Vault!vars)
<1>a. TypeOK /\ Places /\ MoveKnown /\ RecordSound /\ OldFolders /\ CopySound
  BY DEF IInv
<1>b. record.dir \in Folders /\ Entries \subseteq Moved /\ Moved \subseteq Names
      /\ "other" \notin Moved
  BY <1>a, NameFacts DEF TypeOK
<1>c. \A w \in Windows : window[w].pc \in {"half", "check", "mark", "copy", "commit"} =>
        /\ window[w].from = record.dir /\ window[w].move.to = record.move.to
        /\ record.move.to \in Folders /\ record.move.to # record.dir
  BY <1>a, MoveFacts DEF Attempting
<1>s. record'.dir = record.dir /\ Content' = Content => Steps
  BY DEF Content, Vault!vars
<1>0. /\ record'.dir = record.dir
      /\ \A e \in Entries : files'[record.dir][e] = files[record.dir][e]
      => Steps
  BY <1>s, SameVault
<1>d. Content = [e \in Entries |-> files[record.dir][e]]
      /\ Content' = [e \in Entries |-> files'[record'.dir][e]]
  BY DEF Content
<1>e. /\ Vault!Saves => Steps
      /\ Vault!Opens => Steps
      /\ Vault!Erases => Steps
      /\ Vault!Moves => Steps
  BY DEF Vault!Next

<1> HIDE DEF Steps
<1>1. ASSUME NEW f \in Folders, RequestMove(f)
      PROVE  Steps
  BY <1>1, <1>a, <1>0, RequestMoveFacts
<1>2. ASSUME NEW f \in Folders, OthersFile(f)
      PROVE  Steps
  <2>1. UNCHANGED record /\ \A n \in Moved : files'[record.dir][n] = files[record.dir][n]
    BY <1>2, <1>a, <1>b, <1>c, OthersFileFacts, NameFacts DEF OnlyFile
  <2> QED
    BY <1>0, <1>b, <2>1
<1>3. ASSUME ForgetOldCopy
      PROVE  Steps
  BY <1>3, <1>a, <1>0, ForgetOldCopyFacts
<1>4. ASSUME NEW w \in Windows, NEW kept \in SUBSET Entries, Erase(w, kept)
      PROVE  Steps
  <2>1. UNCHANGED record /\ \A e \in Entries : files'[record.dir][e] =
           IF e \in Entries \ kept THEN Absent ELSE files[record.dir][e]
    BY <1>4, <1>a, <1>b, EraseFacts
  <2>2. Content' = [e \in Entries |-> IF e \in Entries \ kept THEN Absent ELSE Content[e]]
    BY <1>d, <2>1
  <2>3. Entries \ kept \in SUBSET Entries
    OBVIOUS
  <2>4. Vault!Erases
    BY <2>1, <2>2, <2>3 DEF Vault!Erases, Content
  <2> QED
    BY <1>e, <2>4
<1>5. ASSUME NEW w \in Windows, Attempt(w)
      PROVE  Steps
  BY <1>5, <1>a, <1>0, AttemptFacts
<1>6. ASSUME NEW w \in Windows, RemovesHalf(w)
      PROVE  Steps
  <2>1. UNCHANGED record /\ \A n \in Moved : files'[record.dir][n] = files[record.dir][n]
    BY <1>6, <1>a, <1>b, <1>c, RemovesHalfFacts, NameFacts DEF OnlyFile
  <2> QED
    BY <1>0, <1>b, <2>1
<1>7. ASSUME NEW w \in Windows, HalfRemoved(w)
      PROVE  Steps
  <2>1. record'.dir = record.dir /\ UNCHANGED files
    BY <1>7, <1>a, HalfOverFacts DEF HalfOver
  <2> QED
    BY <1>0, <2>1
<1>8. ASSUME NEW w \in Windows, HalfNotRemoved(w)
      PROVE  Steps
  <2>1. record'.dir = record.dir /\ UNCHANGED files
    BY <1>8, <1>a, HalfOverFacts DEF HalfOver
  <2> QED
    BY <1>0, <2>1
<1>9. ASSUME NEW w \in Windows, MarksFolder(w)
      PROVE  Steps
  <2>1. UNCHANGED record /\ \A n \in Moved : files'[record.dir][n] = files[record.dir][n]
    BY <1>9, <1>a, <1>b, <1>c, MarksFolderFacts, NameFacts DEF OnlyFile
  <2> QED
    BY <1>0, <1>b, <2>1
<1>10. ASSUME NEW w \in Windows, NEW n \in Moved, Copies(w, n)
      PROVE  Steps
  <2>1. UNCHANGED record /\ \A name \in Moved : files'[record.dir][name] = files[record.dir][name]
    BY <1>10, <1>a, <1>b, <1>c, CopiesFacts, NameFacts DEF OnlyFile
  <2> QED
    BY <1>0, <1>b, <2>1
<1>11. ASSUME NEW w \in Windows, Commits(w)
      PROVE  Steps
  <2>1. window[w].pc = "commit" /\ UNCHANGED files
    BY <1>11, <1>a, CommitsFacts
  <2>2. CASE UNCHANGED record
    BY <1>0, <2>1, <2>2
  <2>3. CASE record'.dir = window[w].move.to
    <3>1. \A n \in Moved : files[record'.dir][n] = files[record.dir][n]
      BY <1>a, <1>c, <2>1, <2>3 DEF CopySound
    <3>2. record'.dir \in Folders /\ Content' = Content
      BY <1>b, <1>c, <1>d, <2>1, <2>3, <3>1
    <3>3. Vault!Moves
      BY <3>2 DEF Vault!Moves, Content
    <3> QED
      BY <1>e, <3>3
  <2> QED
    BY <1>11, <1>a, <2>2, <2>3, CommitsFacts
<1>12. ASSUME NEW w \in Windows, Unmarks(w)
      PROVE  Steps
  <2>1. UNCHANGED record /\ \A n \in Moved : files'[record.dir][n] = files[record.dir][n]
    BY <1>12, <1>a, <1>b, <1>c, UnmarksFacts, NameFacts DEF OnlyFile
  <2> QED
    BY <1>0, <1>b, <2>1
<1>13. ASSUME NEW w \in Windows, NEW n \in Moved, RemovesOld(w, n)
      PROVE  Steps
  <2>1. UNCHANGED record /\ \A name \in Moved : files'[record.dir][name] = files[record.dir][name]
    BY <1>13, <1>a, <1>b, <1>c, RemovesOldFacts, NameFacts DEF OnlyFile, OldFolders
  <2> QED
    BY <1>0, <1>b, <2>1
<1>14. ASSUME NEW w \in Windows, OldNotRemoved(w)
      PROVE  Steps
  <2>1. UNCHANGED record /\ \A n \in Moved : files'[record.dir][n] = files[record.dir][n]
    BY <1>14, <1>a, <1>b, <1>c, OldNotRemovedFacts, NameFacts DEF OldFolders
  <2> QED
    BY <1>0, <1>b, <2>1
<1>15. ASSUME NEW w \in Windows, ClearsCleanup(w)
      PROVE  Steps
  BY <1>15, <1>a, <1>0, ClearsCleanupFacts
<1>16. ASSUME NEW k \in Keepers, Opens(k)
      PROVE  Steps
  <2>1. UNCHANGED record
    BY <1>16, <1>a, OpensFacts
  <2>2. CASE keeper[k].dir # record.dir \/ UNCHANGED files
    <3>1. files'[record.dir] = files[record.dir]
      BY <1>16, <1>a, <1>b, <2>2, OpensFacts
    <3> QED
      BY <1>0, <2>1, <3>1
  <2>3. CASE /\ keeper[k].dir = record.dir
             /\ \E renewed \in SUBSET Entries : \A n \in Names :
                  files'[keeper[k].dir][n] = IF n \in renewed THEN Fresh ELSE files[keeper[k].dir][n]
    <3>1. PICK renewed \in SUBSET Entries : \A n \in Names :
            files'[record.dir][n] = IF n \in renewed THEN Fresh ELSE files[record.dir][n]
      BY <2>3
    <3>2. Content' = [e \in Entries |-> IF e \in renewed THEN Fresh ELSE Content[e]]
      BY <1>b, <1>d, <2>1, <3>1
    <3>3. Vault!Opens
      BY <2>1, <3>2, NameFacts DEF Vault!Opens, Content
    <3> QED
      BY <1>e, <3>3
  <2> QED
    BY <1>16, <1>a, <2>2, <2>3, OpensFacts
<1>17. ASSUME NEW k \in Keepers, NEW e \in Entries, Save(k, e)
      PROVE  Steps
  <2>1. UNCHANGED record
    BY <1>17, <1>a, SaveFacts
  <2>2. PICK content \in Contents \ {Absent} : OnlyFile(record.dir, e, content)
    BY <1>17, <1>a, SaveFacts
  <2>3. Content' = [Content EXCEPT ![e] = content]
    BY <1>b, <1>d, <2>1, <2>2 DEF OnlyFile
  <2>4. Vault!Saves
    BY <2>1, <2>3 DEF Vault!Saves, Content
  <2> QED
    BY <1>e, <2>4
<1>18. ASSUME NEW f \in Folders,
             TakeOut(f) \/ PutBack(f)
      PROVE  Steps
  BY <1>18, <1>a, <1>0, TakeOutFacts, PutBackFacts
<1>19. ASSUME NEW w \in Windows,
             EraseAsked(w) \/ EraseRefused(w) \/ Start(w) \/ TakesIntent(w) \/ TakesLock(w) \/
             CannotHave(w) \/ NoAttempt(w) \/ AfterFailure(w) \/ MakesFolder(w) \/
             FolderNotUsable(w) \/ Verifies(w) \/ Unreachable(w) \/ CleansOld(w) \/ Stop(w)
      PROVE  Steps
  BY <1>19, <1>a, <1>0, EraseAskedFacts, EraseRefusedFacts, StartFacts, TakesIntentFacts,
     TakesLockFacts, CannotHaveFacts, NoAttemptFacts, AfterFailureFacts, MakesFolderFacts,
     FolderNotUsableFacts, VerifiesFacts, UnreachableFacts, CleansOldFacts, StopFacts
<1>20. ASSUME NEW k \in Keepers,
             Resolve(k) \/ ProbesIntent(k) \/ TakesVault(k) \/ Leaves(k)
      PROVE  Steps
  BY <1>20, <1>a, <1>0, ResolveFacts, ProbesIntentFacts, TakesVaultFacts, LeavesFacts
<1>99. Steps
  BY <1>0, <1>1, <1>2, <1>3, <1>4, <1>5, <1>6, <1>7, <1>8, <1>9, <1>10, <1>11, <1>12,
     <1>13, <1>14, <1>15, <1>16, <1>17, <1>18, <1>19, <1>20 DEF Next, StartSteps,
     KeeperSteps
<1> QED
  BY <1>99 DEF Steps

(***************************************************************************)
(* A vault that is moved is one vault with one content: it is saved to,    *)
(* opened and erased where the location record says it is, and a move, all *)
(* of its copying, failing and cleaning included, changes only the place,  *)
(* in one step.                                                            *)
(***************************************************************************)
THEOREM MovesOneVault ==
  ASSUME PatientPerson
  PROVE  Spec => VaultSpec
<1>1. Init => Vault!Init
  <2> SUFFICES ASSUME Init
               PROVE  Vault!Init
    OBVIOUS
  <2>1. TypeOK
    BY InitTypeOK
  <2>2. record.dir \in Folders
        /\ [e \in Entries |-> files[record.dir][e]] \in [Entries -> Contents]
    BY <2>1, NameFacts DEF TypeOK
  <2> QED
    BY <2>2 DEF Vault!Init
<1>2. IInv /\ [Next]_vars => [Vault!Next]_(Vault!vars)
  <2>1. ASSUME IInv, Next PROVE [Vault!Next]_(Vault!vars)
    BY <2>1, VaultStep
  <2>2. ASSUME UNCHANGED vars PROVE [Vault!Next]_(Vault!vars)
    BY <2>2 DEF vars, Vault!vars
  <2> QED
    BY <2>1, <2>2
<1> QED
  BY <1>1, <1>2, Invariant, PTL DEF Spec, VaultSpec, Vault!Spec

=============================================================================
