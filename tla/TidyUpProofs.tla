---------------------------- MODULE TidyUpProofs ----------------------------
(***************************************************************************)
(* What holds of the tidy-up and of the undo of its runs, for any number   *)
(* of memories, clients and runs, any number of checkpoints kept, and runs *)
(* and rollbacks cut at any step: what is deleted stays deleted; where a   *)
(* rollback has the vault to itself, a rolled back run leaves nothing      *)
(* behind, a run rewords nothing, the keyword index is right for a single  *)
(* client, and no memory is hidden behind one that is not there while      *)
(* nobody restores; and apps stay within their limit while the owner       *)
(* neither restores nor erases.                                            *)
(***************************************************************************)
EXTENDS TidyUp, RecentlyDeletedProofs, WellFoundedInduction

\* The steps of a run before its checkpoint.
Rewriting == {"clusters", "retiring", "archiving"}

NumbersUnique(cps) == \A cp, dp \in cps : cp.n = dp.n => cp = dp

\* Checkpoints are numbered by their runs, one for each at most.
NumbersKnown ==
  /\ NumbersUnique(checkpoints)
  /\ \A cp \in checkpoints : cp.n <= runs
  /\ run.pc \in Rewriting => \A cp \in checkpoints : cp.n < runs
  /\ run.pc # "idle" => runs > 0
  /\ undo.n = 0 => undo = NoUndo

TidyShape == TidyTypeOK /\ IsFiniteSet(checkpoints) /\ NumbersKnown

\* A run has memories to mark only while it is under way, and a merged memory to
\* mark them with only while it goes through the clusters.
RunShape ==
  /\ run.pc = "idle" => run.todo = {}
  /\ run.into # NoMemory => run.pc = "clusters" /\ run.todo # {}

\* Clients, a run and a rollback never act beside each other.
OneAtATime ==
  /\ run.pc # "idle" => ~open
  /\ ~open => \A c \in Clients : client[c] = Idle
  /\ undo # NoUndo => ~open /\ run.pc = "idle"

\* A run removes nothing before its checkpoint, and changes nothing but search
\* words after it.
ReadStands ==
  /\ run.pc \in Rewriting =>
       \A m \in Memories : run.read[m] # NoRow => Exists(m)
  /\ run.pc = "enriching" =>
       \A m \in Memories : Alike(run.read[m], memories[m])

\* Beside a checkpoint that nobody touched, the memories it does not list are as
\* they were, and so are those rolled back so far.
Undone(cp) ==
  /\ \A m \in cp.modified : cp.before[m] # NoRow
  /\ \A m \in cp.created : cp.before[m] = NoRow
  /\ undo.n = cp.n => cp.status = "active" /\ undo.todo \subseteq cp.modified \cup cp.created
  /\ ~cp.touched =>
       \A m \in Memories :
         \/ Alike(memories[m], cp.before[m])
         \/ cp.status = "active" /\ undo.n # cp.n /\ m \in cp.modified \cup cp.created
         \/ undo.n = cp.n /\ m \in undo.todo

UndoneSoFar == \A cp \in checkpoints : Undone(cp)

RestoreInv ==
  TidyShape /\ RunShape /\ IdsAreFresh /\ OneAtATime /\ ReadStands /\ UndoneSoFar

InBin(m) == \E b \in recently_deleted : b.mem = m
Found(m) == Exists(m) \/ InBin(m)

\* An edit under way leaves the memory behind what supersedes it.
EditsKeepPointers ==
  \A c \in Clients :
    /\ client[c].pc # "restoring"
    /\ client[c].pc = "editing" =>
         /\ client[c].mem <= last_id
         /\ Exists(client[c].mem) =>
              client[c].row.superseded_by = memories[client[c].mem].superseded_by

\* A row points to a memory that was there with it, or that can be restored.
PointersIn(rows) ==
  \A m \in Memories :
    LET by == rows[m].superseded_by
    IN  by # NoMemory => rows[by] # NoRow \/ InBin(by)

\* A run hides memories it has read only, and behind memories that are there.
RunPoints ==
  run.pc \in Rewriting =>
    /\ ~undone_late => PointersIn(run.read)
    /\ \A m \in Memories : run.read[m] = NoRow => memories[m].superseded_by = NoMemory
    /\ \A m \in run.left : run.read[m] # NoRow
    /\ run.into # NoMemory => Exists(run.into) /\ \A m \in run.todo : run.read[m] # NoRow

\* The last run's checkpoint has all that points to a memory the run made.
HasPointers(cp) ==
  /\ \A m \in Memories : cp.before[m] # NoRow => Found(m)
  /\ \A m \in cp.created : memories[m].superseded_by = NoMemory
  /\ \A m \in Memories : memories[m].superseded_by \in cp.created =>
       m \in cp.modified \/ InBin(memories[m].superseded_by)
  /\ undo.n = cp.n =>
       \A m \in cp.modified \ undo.todo :
         memories[m].superseded_by = cp.before[m].superseded_by

LatestHasPointers ==
  ~undone_late =>
    /\ undo.n # 0 => undo.n = runs
    /\ \A cp \in checkpoints : PointersIn(cp.before) /\ (cp.n = runs => HasPointers(cp))

PointerInv ==
  EditsKeepPointers /\ RunPoints /\ LatestHasPointers /\ HiddenBehindReal

\* Where a single client is served, what it is about to index is what is there,
\* and all else that is active is in the index.
IndexFollows ==
  open =>
    /\ \A c \in Clients : client[c].pc = "indexing" =>
         LET m == client[c].mem
         IN  Active(memories[m]) => client[c].text = memories[m].text
    /\ \A m \in Memories : Active(memories[m]) =>
         \/ keyword_index[m] = memories[m].text
         \/ \E c \in Clients : client[c].pc = "indexing" /\ client[c].mem = m

IndexInv == TidyShape /\ RunShape /\ OneAtATime /\ IndexFollows
USE DEF clientVars, binVars, idVars, runVars, tidyVars, vars

----------------------------------------------------------------------------
(* Checkpoints *)

\* What Touched does to one checkpoint.
LEMMA TouchedFacts ==
  ASSUME NEW cps \in SUBSET Checkpoint
  PROVE  /\ Touched(cps) \subseteq Checkpoint
         /\ \A d \in Touched(cps) : d.touched
         /\ \A d \in Touched(cps) : \E cp \in cps :
              /\ d = [cp EXCEPT !.touched = TRUE]
              /\ d.n = cp.n /\ d.before = cp.before /\ d.modified = cp.modified
              /\ d.created = cp.created /\ d.status = cp.status
BY DEF Touched, Checkpoint

\* As many checkpoints at most, when each has the number of one there was.
LEMMA NoMoreCheckpoints ==
  ASSUME NEW S, IsFiniteSet(S), NEW T,
         \A d \in T : \E cp \in S : cp.n = d.n,
         \A d, e \in T : d.n = e.n => d = e
  PROVE  IsFiniteSet(T) /\ Cardinality(T) <= Cardinality(S)
<1> DEFINE f == [d \in T |-> CHOOSE cp \in S : cp.n = d.n]
<1>1. \A d \in T : f[d] \in S /\ f[d].n = d.n
  OBVIOUS
<1>2. f \in [T -> S]
  BY <1>1
<1> HIDE DEF f
<1>3. f \in Injection(T, S)
  BY <1>1, <1>2 DEF Injection, IsInjective
<1> QED
  BY <1>3, FS_Injection

\* Pruning leaves as many as are to be kept.
LEMMA NewestFew ==
  ASSUME NEW S, IsFiniteSet(S), \A cp \in S : cp.n \in Nat,
         \A cp, dp \in S : cp.n = dp.n => cp = dp
  PROVE  /\ Newest(S) \subseteq S /\ IsFiniteSet(Newest(S))
         /\ Cardinality(Newest(S)) <= CHECKPOINT_RETENTION
<1>1. Newest(S) \subseteq S
  BY DEF Newest
<1>2. IsFiniteSet(Newest(S)) /\ Cardinality(Newest(S)) \in Nat
  BY <1>1, FS_Subset, FS_CardinalityType
<1>3. CASE Newest(S) = {}
  BY <1>1, <1>2, <1>3, FS_EmptySet, TidyUpAssumption
<1>4. CASE Newest(S) # {}
  <2> DEFINE before(cp) == {d \in Newest(S) : d.n < cp.n}
             B == {before(cp) : cp \in Newest(S)}
  <2>1. B \subseteq FiniteSubsetsOf(Newest(S)) /\ B # {}
    <3>1. ASSUME NEW cp \in Newest(S)
          PROVE  before(cp) \in SUBSET Newest(S) /\ IsFiniteSet(before(cp))
      BY <1>2, FS_Subset
    <3> HIDE DEF before
    <3> QED
      BY <1>4, <3>1 DEF FiniteSubsetsOf
  <2> HIDE DEF B
  <2>2. PICK X \in B : \A Y \in B : ~ (<<Y, X>> \in StrictSubsetOrdering(Newest(S)))
    BY <2>1, WFMin, FS_StrictSubsetOrderingWellFounded
  <2>3. PICK cp \in Newest(S) : X = before(cp)
    BY DEF B
  <2>4. \A d \in Newest(S) : cp.n <= d.n
    <3> SUFFICES ASSUME NEW d \in Newest(S), d.n < cp.n PROVE FALSE
      BY <1>1
    <3>1. before(d) \subseteq before(cp) /\ d \in before(cp) /\ d \notin before(d)
      BY <1>1
    <3>2. before(d) \in B /\ before(d) \in SUBSET Newest(S) /\ before(cp) \in SUBSET Newest(S)
      BY DEF B
    <3> HIDE DEF before
    <3>3. <<before(d), before(cp)>> \in StrictSubsetOrdering(Newest(S))
      BY <3>1, <3>2 DEF StrictSubsetOrdering
    <3> QED
      BY <2>2, <2>3, <3>2, <3>3
  <2> DEFINE later == {d \in S : d.n > cp.n}
  <2>5. IsFiniteSet(later) /\ Cardinality(later) \in Nat /\ Cardinality(later) < CHECKPOINT_RETENTION
    BY FS_Subset, FS_CardinalityType DEF Newest
  <2>6. ASSUME NEW d \in Newest(S) \ {cp} PROVE d \in later
    <3>1. d \in S /\ cp \in S /\ d.n # cp.n
      BY <1>1
    <3>2. cp.n <= d.n
      BY <2>4
    <3> QED
      BY <3>1, <3>2
  <2> HIDE DEF later
  <2> DEFINE others == Newest(S) \ {cp}
  <2>7. others \subseteq later /\ others \cup {cp} = Newest(S) /\ cp \notin others
    BY <2>6
  <2> HIDE DEF others
  <2>8. /\ Cardinality(others) <= Cardinality(later) /\ Cardinality(others) \in Nat
        /\ Cardinality(others \cup {cp}) = Cardinality(others) + 1
    BY <2>5, <2>7, FS_Subset, FS_AddElement, FS_CardinalityType
  <2>9. Cardinality(Newest(S)) = Cardinality(others) + 1
    BY <2>7, <2>8
  <2>10. CHECKPOINT_RETENTION \in Nat
    BY TidyUpAssumption
  <2>11. Cardinality(Newest(S)) <= CHECKPOINT_RETENTION
    BY <2>5, <2>8, <2>9, <2>10
  <2> QED
    BY <1>1, <1>2, <2>11
<1> QED
  BY <1>1, <1>2, <1>3, <1>4

----------------------------------------------------------------------------
(* Type correctness *)

\* What a run makes of a row is a row.
LEMMA RewrittenRows ==
  ASSUME NEW row \in Row \cup {NoRow}
  PROVE  /\ row \in Row => \A m \in Memories : [row EXCEPT !.superseded_by = m] \in Row
         /\ row \in Row => \A mark \in Marks : [row EXCEPT !.marks = @ \cup {mark}] \in Row
         /\ [row EXCEPT !.enriched = row.text] \in Row \cup {NoRow}
<1>1. CASE row \in Row
  <2>1. \A mark \in Marks : row.marks \cup {mark} \in SUBSET Marks
    BY <1>1 DEF Row
  <2>2. \A mark \in Marks : [row EXCEPT !.marks = @ \cup {mark}] \in Row
    BY <1>1, <2>1 DEF Row
  <2>3. row.text \in 0..MaxText
    BY <1>1, ClientAssumption DEF Row, Texts
  <2> QED
    BY <1>1, <2>2, <2>3 DEF Row
<1>2. CASE row = NoRow
  <2>1. [NoRow EXCEPT !.enriched = NoRow.text] = NoRow
    BY DEF NoRow
  <2> QED
    BY <1>2, <2>1, RowFacts
<1> QED
  BY <1>1, <1>2

\* What a run reads and writes has the tables' shape.
LEMMA TablesTyped ==
  ASSUME TypeOK, memories' \in AllMemories, last_id' \in 0..MaxMemories,
         last_text' \in 0..MaxText, UNCHANGED <<binVars, now, keyword_index, client>>
  PROVE  TypeOK'
BY DEF TypeOK, AllMemories

\* No step of the tidy-up gives the tables another shape.
LEMMA TablesStep == TidyTypeOK /\ [TidyNext]_vars => TypeOK'
<1> SUFFICES ASSUME TidyTypeOK, [TidyNext]_vars PROVE TypeOK'
  OBVIOUS
<1>0. /\ TypeOK /\ run \in Run /\ checkpoints \subseteq Checkpoint
      /\ memories \in AllMemories /\ last_id \in 0..MaxMemories /\ last_text \in 0..MaxText
      /\ \A m \in Memories : Exists(m) => memories[m] \in Row
  BY DEF TidyTypeOK, TypeOK, AllMemories, Exists
<1>1. /\ run.read \in AllMemories /\ run.left \subseteq Memories /\ run.todo \subseteq Memories
      /\ run.into \in Memories \cup {NoMemory}
  BY <1>0 DEF Run
<1>a. CASE UNCHANGED clientVars
  BY <1>0, <1>a, TypeStep
<1>b. CASE ClientActs
  <2>1. [Next]_clientVars
    BY <1>b DEF ClientActs, Next
  <2> QED
    BY <1>0, <2>1, TypeStep
<1>c. CASE KeeperEnds
  <2>1. client' \in [Clients -> ClientState] /\ keyword_index' \in [Memories -> 0..MaxText]
    BY <1>c, ClientAssumption DEF KeeperEnds, ClientState, Idle
  <2> QED
    BY <1>0, <1>c, <2>1 DEF KeeperEnds, TypeOK
<1>d. CASE KeeperOpens
  <2>1. keyword_index' \in [Memories -> 0..MaxText]
    BY <1>0, <1>d, ClientAssumption DEF KeeperOpens, TypeOK, Active, Row, NoRow, Texts
  <2> QED
    BY <1>0, <1>d, <2>1 DEF KeeperOpens, TypeOK
<1>e. CASE TimePasses
  <2>1. [Next]_clientVars
    BY <1>e DEF TimePasses, Next
  <2> QED
    BY <1>0, <2>1, TypeStep
<1>f. CASE Starts
  BY <1>a, <1>f DEF Starts
<1>g. CASE Dedups
  <2>1. PICK S \in SUBSET run.left, survivor \in Memories :
          /\ survivor \in S
          /\ \A m \in S : Exists(m)
          /\ memories' = [m \in Memories |->
               IF m \in S \ {survivor} THEN [memories[m] EXCEPT !.superseded_by = survivor]
                                       ELSE memories[m]]
    BY <1>1, <1>g DEF Dedups
  <2>2. survivor \in Memories /\ S \subseteq Memories
    BY <1>1
  <2>3. memories' \in AllMemories
    BY <1>0, <2>1, <2>2, RewrittenRows DEF AllMemories
  <2> QED
    BY <1>0, <1>g, <2>3, TablesTyped DEF Dedups, RunKeeps
<1>h. CASE Merges
  <2>1. /\ last_id + 1 \in Memories /\ last_id + 1 \in 0..MaxMemories
        /\ last_text + 1 \in Texts /\ last_text + 1 \in 0..MaxText
    BY <1>0, <1>h, ClientAssumption DEF Merges, Memories, Texts
  <2>2. memories' \in AllMemories
    BY <1>0, <1>h, <2>1, RowFacts DEF Merges, Changes, AllMemories
  <2> QED
    BY <1>0, <1>h, <2>1, <2>2, TablesTyped DEF Merges, RunKeeps
<1>i. CASE Supersedes
  <2>1. PICK m \in run.todo :
          \/ /\ Exists(m)
             /\ memories' = [memories EXCEPT ![m] = [memories[m] EXCEPT !.superseded_by = run.into]]
          \/ memories' = memories
    BY <1>i DEF Supersedes, Changes
  <2>2. run.into \in Memories
    BY <1>1, <1>i DEF Supersedes
  <2>3. Exists(m) => [memories[m] EXCEPT !.superseded_by = run.into] \in Row
    BY <1>0, <1>1, <2>2, RewrittenRows
  <2>4. memories' \in AllMemories
    BY <1>0, <1>1, <2>1, <2>3 DEF AllMemories
  <2> QED
    BY <1>0, <1>i, <2>4, TablesTyped DEF Supersedes, RunKeeps
<1>j. CASE MarksNext
  <2> DEFINE mark == IF run.pc = "archiving" THEN "archived" ELSE "noted"
  <2>1. PICK m \in run.todo :
          \/ /\ Exists(m)
             /\ memories' = [memories EXCEPT ![m] = [memories[m] EXCEPT !.marks = @ \cup {mark}]]
          \/ memories' = memories
    BY <1>j DEF MarksNext, Changes
  <2>2. mark \in Marks
    BY DEF Marks
  <2> HIDE DEF mark
  <2>3. Exists(m) => [memories[m] EXCEPT !.marks = @ \cup {mark}] \in Row
    BY <1>0, <1>1, <2>2, RewrittenRows
  <2>4. memories' \in AllMemories
    BY <1>0, <1>1, <2>1, <2>3 DEF AllMemories
  <2> QED
    BY <1>0, <1>j, <2>4, TablesTyped DEF MarksNext, RunKeeps
<1>k. CASE Enriches
  <2>1. memories' \in AllMemories
    BY <1>0, <1>1, <1>k, RewrittenRows DEF Enriches, AllMemories
  <2> QED
    BY <1>0, <1>k, <2>1, TablesTyped DEF Enriches, RunKeeps
<1>l. CASE Contradicts \/ NextPhase \/ Captures \/ Ends
  BY <1>a, <1>l DEF Contradicts, NextPhase, Captures, Capture, Ends, RunKeeps
<1>m. CASE Undoes
  <2>1. memories' \in AllMemories
    BY <1>0, <1>m DEF Undoes, AllMemories, Checkpoint
  <2> QED
    BY <1>0, <1>m, <2>1, TablesTyped DEF Undoes, UndoKeeps
<1>n. CASE UndoStarts \/ UndoEnds \/ UndoCut
  BY <1>a, <1>n DEF UndoStarts, UndoEnds, UndoCut, UndoKeeps
<1> QED
  BY <1>a, <1>b, <1>c, <1>d, <1>e, <1>f, <1>g, <1>h, <1>i, <1>j, <1>k, <1>l, <1>m, <1>n
  DEF TidyNext, RunStep, UndoStep

\* A run keeps its shape.
LEMMA RunTypedStep == TidyTypeOK /\ [TidyNext]_vars => run' \in Run /\ runs' \in 0..MaxRuns
<1> SUFFICES ASSUME TidyTypeOK, [TidyNext]_vars PROVE run' \in Run /\ runs' \in 0..MaxRuns
  OBVIOUS
<1>0. /\ TypeOK /\ run \in Run /\ memories \in AllMemories /\ runs \in 0..MaxRuns
      /\ run.left \subseteq Memories /\ run.todo \subseteq Memories
  BY DEF TidyTypeOK, TypeOK, AllMemories, Run
<1>1. ActiveMemories \subseteq Memories /\ ToEnrich \subseteq Memories
  BY DEF ActiveMemories, ToEnrich
<1>2. NoRun \in Run
  BY RowFacts DEF NoRun, Run, Unread, AllMemories
<1>a. CASE UNCHANGED <<run, runs>>
  BY <1>0, <1>a
<1>b. CASE run' = [run EXCEPT !.touched = run.pc # "idle"] /\ runs' = runs
  BY <1>0, <1>b DEF Run
<1>c. CASE Starts
  <2>1. run' = [NoRun EXCEPT !.pc = "clusters", !.read = memories, !.left = ActiveMemories]
        /\ runs' = runs + 1 /\ runs < MaxRuns
    BY <1>c DEF Starts
  <2>2. run' \in Run
    BY <1>0, <1>1, <1>2, <2>1 DEF Run
  <2> QED
    BY <1>0, <2>1, <2>2, TidyUpAssumption
<1>d. CASE Dedups \/ Merges \/ Contradicts
  <2>1. \A S \in SUBSET run.left : \A k : [run EXCEPT !.left = @ \ S] \in Run
          /\ (k \in Memories => [run EXCEPT !.left = @ \ S, !.todo = S, !.into = k] \in Run)
          /\ [run EXCEPT !.left = @ \ S, !.todo = S \ {k}] \in Run
    BY <1>0 DEF Run
  <2>2. last_id < MaxMemories => last_id + 1 \in Memories
    BY <1>0, ClientAssumption DEF TypeOK, Memories
  <2> QED
    BY <1>0, <1>d, <2>1, <2>2, ZenonT(60) DEF Dedups, Merges, Contradicts, RunKeeps
<1>e. CASE Supersedes
  BY <1>0, <1>e, ZenonT(60) DEF Supersedes, RunKeeps, Run
<1>f. CASE MarksNext
  BY <1>0, <1>f DEF MarksNext, RunKeeps, Run
<1>g. CASE NextPhase
  BY <1>0, <1>1, <1>g, ZenonT(60) DEF NextPhase, RunKeeps, Run
<1>h. CASE Captures
  BY <1>0, <1>1, <1>h DEF Captures, Capture, RunKeeps, Run
<1>i. CASE Enriches
  BY <1>0, <1>i DEF Enriches, RunKeeps, Run
<1>j. CASE Ends
  BY <1>0, <1>2, <1>j DEF Ends, RunKeeps
<1> QED
  BY <1>a, <1>b, <1>c, <1>d, <1>e, <1>f, <1>g, <1>h, <1>i, <1>j
  DEF TidyNext, RunStep, UndoStep, ClientActs, KeeperEnds, KeeperOpens, TimePasses,
      UndoStarts, Undoes, UndoTouches, UndoEnds, UndoCut, UndoKeeps

\* A checkpoint is the one it was, but for its status and its history.
SameCheckpoint(d, cp) ==
  /\ d.n = cp.n /\ d.before = cp.before
  /\ d.modified = cp.modified /\ d.created = cp.created

\* The undo of a memory leaves cp as it is and touches the other checkpoints.
LEMMA UndoTouchesFacts ==
  ASSUME NEW cp \in checkpoints, checkpoints \subseteq Checkpoint, NumbersUnique(checkpoints),
         checkpoints' = {cp} \cup Touched(checkpoints \ {cp})
  PROVE  /\ checkpoints' \subseteq Checkpoint /\ NumbersUnique(checkpoints')
         /\ \A d \in checkpoints' : \E e \in checkpoints :
              SameCheckpoint(d, e) /\ d.status = e.status /\ (d = cp \/ (e # cp /\ d.touched))
<1>1. checkpoints \ {cp} \in SUBSET Checkpoint
  OBVIOUS
<1>2. /\ checkpoints' \subseteq Checkpoint
      /\ \A d \in checkpoints' :
           \/ d = cp
           \/ \E e \in checkpoints \ {cp} :
                d = [e EXCEPT !.touched = TRUE] /\ SameCheckpoint(d, e)
                /\ d.status = e.status /\ d.touched
  BY <1>1, TouchedFacts DEF SameCheckpoint
<1>3. NumbersUnique(checkpoints')
  <2> SUFFICES ASSUME NEW d \in checkpoints', NEW e \in checkpoints', d.n = e.n PROVE d = e
    BY DEF NumbersUnique
  <2>1. PICK x \in checkpoints :
          d.n = x.n /\ d = IF x = cp THEN cp ELSE [x EXCEPT !.touched = TRUE]
    BY <1>2 DEF SameCheckpoint
  <2>2. PICK y \in checkpoints :
          e.n = y.n /\ e = IF y = cp THEN cp ELSE [y EXCEPT !.touched = TRUE]
    BY <1>2 DEF SameCheckpoint
  <2>3. x = y
    BY <2>1, <2>2 DEF NumbersUnique
  <2> QED
    BY <2>1, <2>2, <2>3
<1>4. ASSUME NEW d \in checkpoints'
      PROVE  \E e \in checkpoints :
               SameCheckpoint(d, e) /\ d.status = e.status /\ (d = cp \/ (e # cp /\ d.touched))
  <2>1. CASE d = cp
    <3>1. SameCheckpoint(cp, cp)
      BY DEF SameCheckpoint
    <3> QED
      BY <2>1, <3>1
  <2>2. CASE d # cp
    BY <1>2, <2>2
  <2> QED
    BY <2>1, <2>2
<1> QED
  BY <1>2, <1>3, <1>4

\* The end of a rollback marks its own checkpoint and no other.
LEMMA UndoEndsFacts ==
  ASSUME checkpoints \subseteq Checkpoint, NumbersUnique(checkpoints), UndoEnds
  PROVE  /\ checkpoints' \subseteq Checkpoint /\ NumbersUnique(checkpoints')
         /\ \A d \in checkpoints' : \E e \in checkpoints :
              /\ SameCheckpoint(d, e) /\ d.touched = e.touched
              /\ e.n = undo.n => d.status = "rolled_back"
              /\ e.n # undo.n => d.status = e.status
<1>1. checkpoints' = {IF cp.n = undo.n THEN [cp EXCEPT !.status = "rolled_back"] ELSE cp :
                        cp \in checkpoints}
  BY DEF UndoEnds
<1>2. ASSUME NEW d \in checkpoints'
      PROVE  /\ d \in Checkpoint
             /\ \E e \in checkpoints :
                  /\ d = IF e.n = undo.n THEN [e EXCEPT !.status = "rolled_back"] ELSE e
                  /\ SameCheckpoint(d, e) /\ d.touched = e.touched
                  /\ e.n = undo.n => d.status = "rolled_back"
                  /\ e.n # undo.n => d.status = e.status
  <2>1. PICK e \in checkpoints :
          d = IF e.n = undo.n THEN [e EXCEPT !.status = "rolled_back"] ELSE e
    BY <1>1
  <2>2. e \in Checkpoint
    OBVIOUS
  <2>3. CASE e.n = undo.n
    BY <2>1, <2>2, <2>3 DEF Checkpoint, SameCheckpoint
  <2>4. CASE e.n # undo.n
    BY <2>1, <2>2, <2>4 DEF SameCheckpoint
  <2> QED
    BY <2>3, <2>4
<1>3. NumbersUnique(checkpoints')
  <2> SUFFICES ASSUME NEW d \in checkpoints', NEW e \in checkpoints', d.n = e.n PROVE d = e
    BY DEF NumbersUnique
  <2> QED
    BY <1>2 DEF NumbersUnique, SameCheckpoint
<1> QED
  BY <1>2, <1>3

\* Where somebody changes a memory every checkpoint has been touched, and is still there.
LEMMA TouchedAll ==
  ASSUME checkpoints \subseteq Checkpoint, NumbersUnique(checkpoints),
         checkpoints' = Touched(checkpoints)
  PROVE  /\ checkpoints' \subseteq Checkpoint /\ NumbersUnique(checkpoints')
         /\ \A d \in checkpoints' : d.touched /\
              \E e \in checkpoints : SameCheckpoint(d, e) /\ d.status = e.status
<1>1. checkpoints \in SUBSET Checkpoint
  OBVIOUS
<1>2. /\ checkpoints' \subseteq Checkpoint
      /\ \A d \in checkpoints' : d.touched
      /\ \A d \in checkpoints' : \E e \in checkpoints :
           d = [e EXCEPT !.touched = TRUE] /\ SameCheckpoint(d, e) /\ d.status = e.status
  BY <1>1, TouchedFacts DEF SameCheckpoint
<1>3. NumbersUnique(checkpoints')
  <2> SUFFICES ASSUME NEW d \in checkpoints', NEW e \in checkpoints', d.n = e.n PROVE d = e
    BY DEF NumbersUnique
  <2>1. PICK x \in checkpoints : d.n = x.n /\ d = [x EXCEPT !.touched = TRUE]
    BY <1>2 DEF SameCheckpoint
  <2>2. PICK y \in checkpoints : e.n = y.n /\ e = [y EXCEPT !.touched = TRUE]
    BY <1>2 DEF SameCheckpoint
  <2>3. x = y
    BY <2>1, <2>2 DEF NumbersUnique
  <2> QED
    BY <2>1, <2>2, <2>3
<1> QED
  BY <1>2, <1>3

\* No step but a capture makes a checkpoint.
LEMMA CheckpointsFollow ==
  ASSUME TidyShape, [TidyNext]_vars, ~Captures
  PROVE  /\ checkpoints' \subseteq Checkpoint /\ NumbersUnique(checkpoints')
         /\ \A d \in checkpoints' : \E e \in checkpoints : SameCheckpoint(d, e)
<1>0. checkpoints \subseteq Checkpoint /\ NumbersUnique(checkpoints)
  BY DEF TidyShape, TidyTypeOK, NumbersKnown
<1>1. CASE checkpoints' = checkpoints
  BY <1>0, <1>1 DEF SameCheckpoint
<1>2. CASE checkpoints' = Touched(checkpoints)
  BY <1>0, <1>2, TouchedAll
<1>3. CASE Undoes
  <2>1. PICK cp \in checkpoints : checkpoints' = {cp} \cup Touched(checkpoints \ {cp})
    BY <1>3 DEF Undoes, UndoTouches
  <2> QED
    BY <1>0, <2>1, UndoTouchesFacts
<1>4. CASE UndoEnds
  BY <1>0, <1>4, UndoEndsFacts
<1> QED
  BY <1>1, <1>2, <1>3, <1>4
  DEF TidyNext, RunStep, UndoStep, ClientActs, KeeperEnds, KeeperOpens, TimePasses, Starts,
      Dedups, Merges, Contradicts, Supersedes, MarksNext, NextPhase, Enriches, Ends, Changes,
      RunKeeps, UndoStarts, UndoCut, UndoKeeps

\* The checkpoint a run captures, and those kept beside it.
LEMMA CapturedFacts ==
  ASSUME TidyShape, Captures, checkpoints' # checkpoints
  PROVE  LET new == [n |-> runs, before |-> run.read, modified |-> Differs(run.read).modified,
                     created |-> Differs(run.read).created, status |-> "active",
                     touched |-> run.touched]
         IN  /\ new \in Checkpoint
             /\ checkpoints' \subseteq checkpoints \cup {new}
             /\ NumbersUnique(checkpoints')
             /\ IsFiniteSet(checkpoints') /\ Cardinality(checkpoints') <= CHECKPOINT_RETENTION
             /\ \A cp \in checkpoints : cp.n < runs
<1> DEFINE entries == Differs(run.read)
           new == [n |-> runs, before |-> run.read, modified |-> entries.modified,
                   created |-> entries.created, status |-> "active", touched |-> run.touched]
<1>0. /\ run \in Run /\ runs \in 0..MaxRuns /\ checkpoints \subseteq Checkpoint
      /\ run.pc = "archiving" /\ runs > 0 /\ IsFiniteSet(checkpoints)
      /\ NumbersUnique(checkpoints) /\ \A cp \in checkpoints : cp.n < runs
  BY DEF Captures, Capture, TidyShape, TidyTypeOK, NumbersKnown, Rewriting
<1>1. entries.modified \subseteq Memories /\ entries.created \subseteq Memories
  BY DEF Differs
<1>2. checkpoints' = Newest(checkpoints \cup {new})
  BY DEF Captures, Capture
<1>3. new \in Checkpoint /\ new.n = runs
  BY <1>0, <1>1, TidyUpAssumption DEF Checkpoint, Run
<1> HIDE DEF new, entries
<1>4. \A cp \in checkpoints \cup {new} : cp \in Checkpoint /\ cp.n \in Nat
  BY <1>0, <1>3, TidyUpAssumption DEF Checkpoint
<1>5. \A cp, dp \in checkpoints \cup {new} : cp.n = dp.n => cp = dp
  BY <1>0, <1>3, <1>4 DEF NumbersUnique
<1>6. IsFiniteSet(checkpoints \cup {new})
  BY <1>0, FS_AddElement
<1>7. /\ checkpoints' \subseteq checkpoints \cup {new} /\ IsFiniteSet(checkpoints')
      /\ Cardinality(checkpoints') <= CHECKPOINT_RETENTION
  BY <1>2, <1>4, <1>5, <1>6, NewestFew
<1>8. NumbersUnique(checkpoints')
  BY <1>5, <1>7 DEF NumbersUnique
<1> QED
  BY <1>0, <1>3, <1>7, <1>8 DEF new, entries

\* At first there is no checkpoint, no run and no rollback.
LEMMA ShapeInit == TidyInit => TidyShape
<1> SUFFICES ASSUME TidyInit PROVE TidyShape
  OBVIOUS
<1>1. TypeOK
  BY TypeInit DEF TidyInit
<1>2. NoRun \in Run
  BY RowFacts DEF NoRun, Run, Unread, AllMemories
<1>3. IsFiniteSet(checkpoints) /\ Cardinality(checkpoints) = 0
  BY FS_EmptySet DEF TidyInit
<1>4. /\ open \in BOOLEAN /\ undone_late \in BOOLEAN /\ run \in Run
      /\ checkpoints \subseteq Checkpoint
  BY <1>2 DEF TidyInit
<1>5. /\ runs \in 0..MaxRuns /\ Cardinality(checkpoints) <= CHECKPOINT_RETENTION
      /\ undo \in [n : 0..MaxRuns, todo : SUBSET Memories]
  BY <1>3, TidyUpAssumption DEF TidyInit, NoUndo
<1>6. NumbersKnown
  BY DEF TidyInit, NumbersKnown, NumbersUnique, NoRun, Rewriting
<1> QED
  BY <1>1, <1>3, <1>4, <1>5, <1>6 DEF TidyShape, TidyTypeOK

\* A rollback keeps its shape.
LEMMA UndoTypedStep ==
  ASSUME TidyShape, [TidyNext]_vars
  PROVE  /\ undo' \in [n : 0..MaxRuns, todo : SUBSET Memories]
         /\ undone_late' \in BOOLEAN /\ open' \in BOOLEAN
         /\ undo'.n = 0 => undo' = NoUndo
<1>0. /\ undo \in [n : 0..MaxRuns, todo : SUBSET Memories] /\ undone_late \in BOOLEAN
      /\ checkpoints \subseteq Checkpoint /\ open \in BOOLEAN
      /\ undo.n = 0 => undo = NoUndo
  BY DEF TidyShape, TidyTypeOK, NumbersKnown
<1>1. CASE UNCHANGED <<undo, undone_late>> /\ open' \in BOOLEAN
  BY <1>0, <1>1
<1>2. CASE UndoStarts
  <2>1. PICK cp \in checkpoints :
          /\ undo' = [n |-> cp.n, todo |-> cp.modified \cup cp.created]
          /\ undone_late' = (undone_late \/ cp.n # runs)
    BY <1>2 DEF UndoStarts
  <2>2. cp.n \in 1..MaxRuns /\ cp.modified \subseteq Memories /\ cp.created \subseteq Memories
    BY <1>0 DEF Checkpoint
  <2>3. undo' \in [n : 0..MaxRuns, todo : SUBSET Memories] /\ undo'.n = cp.n
    BY <2>1, <2>2
  <2>4. undone_late' \in BOOLEAN
    BY <2>1, Zenon
  <2>5. open' \in BOOLEAN
    BY <1>0, <1>2 DEF UndoStarts, UndoKeeps
  <2> QED
    BY <2>2, <2>3, <2>4, <2>5, TidyUpAssumption
<1>3. CASE Undoes
  <2>1. PICK m \in undo.todo : undo' = [undo EXCEPT !.todo = @ \ {m}]
    BY <1>3 DEF Undoes
  <2>2. undo.n # 0
    BY <1>0, <2>1 DEF NoUndo
  <2>3. open' \in BOOLEAN /\ undone_late' \in BOOLEAN
    BY <1>0, <1>3 DEF Undoes, UndoKeeps
  <2>4. undo' \in [n : 0..MaxRuns, todo : SUBSET Memories] /\ undo'.n = undo.n
    BY <1>0, <2>1
  <2> QED
    BY <1>0, <2>2, <2>3, <2>4
<1>4. CASE UndoEnds \/ UndoCut
  BY <1>0, <1>4, TidyUpAssumption DEF UndoEnds, UndoCut, UndoKeeps, NoUndo
<1> QED
  BY <1>0, <1>1, <1>2, <1>3, <1>4
  DEF TidyNext, RunStep, UndoStep, ClientActs, KeeperEnds, KeeperOpens, TimePasses, Starts,
      Dedups, Merges, Contradicts, Supersedes, MarksNext, NextPhase, Captures, Capture,
      Enriches, Ends, RunKeeps

\* The numbers of the checkpoints stay those of the runs.
LEMMA NumbersStep ==
  ASSUME TidyShape, [TidyNext]_vars, checkpoints' \subseteq Checkpoint,
         NumbersUnique(checkpoints'), undo'.n = 0 => undo' = NoUndo
  PROVE  NumbersKnown'
<1>0. /\ NumbersKnown /\ run \in Run /\ runs \in Nat /\ checkpoints \subseteq Checkpoint
      /\ \A cp \in checkpoints : cp.n \in Nat
      /\ \A cp \in checkpoints' : cp.n \in Nat
  BY TidyUpAssumption DEF TidyShape, TidyTypeOK, Checkpoint
<1>1. CASE /\ runs' = runs /\ (run'.pc \in Rewriting => run.pc \in Rewriting)
           /\ (run'.pc # "idle" => run.pc # "idle")
           /\ ~Captures
  <2>1. \A d \in checkpoints' : \E e \in checkpoints : d.n = e.n
    BY <1>1, CheckpointsFollow DEF SameCheckpoint
  <2> QED
    BY <1>0, <1>1, <2>1 DEF NumbersKnown
<1>2. CASE Starts
  <2>1. runs' = runs + 1 /\ checkpoints' = checkpoints
    BY <1>2 DEF Starts
  <2> QED
    BY <1>0, <2>1 DEF NumbersKnown
<1>3. CASE Captures
  <2>1. runs' = runs /\ run'.pc = "enriching" /\ run.pc = "archiving"
    BY <1>0, <1>3 DEF Captures, Capture, RunKeeps, Run
  <2>2. \A d \in checkpoints' : d.n <= runs
    <3>1. CASE checkpoints' = checkpoints
      BY <1>0, <3>1 DEF NumbersKnown
    <3>2. CASE checkpoints' # checkpoints
      BY <1>0, <1>3, <3>2, CapturedFacts
    <3> QED
      BY <3>1, <3>2
  <2> QED
    BY <1>0, <2>1, <2>2 DEF NumbersKnown, Rewriting
<1>4. CASE ~Captures /\ runs' = runs
           /\ (run' = run \/ run' = [run EXCEPT !.touched = run.pc # "idle"] \/ run' = NoRun)
  BY <1>0, <1>1, <1>4 DEF Run, NoRun, Rewriting
<1>5. CASE Captures
  BY <1>3, <1>5
<1>6. CASE ~Captures /\ (Dedups \/ Merges \/ Contradicts \/ Supersedes \/ MarksNext \/ NextPhase)
  <2>1. /\ (run'.pc = run.pc \/ run.pc \in Rewriting) /\ runs' = runs
    <3>1. CASE Dedups \/ Merges \/ Contradicts
      BY <1>0, <3>1 DEF Dedups, Merges, Contradicts, Cluster, RunKeeps, Run, Rewriting
    <3>2. CASE Supersedes \/ MarksNext
      BY <1>0, <3>2 DEF Supersedes, MarksNext, RunKeeps, Run, Rewriting
    <3>3. CASE NextPhase
      BY <1>0, <3>3 DEF NextPhase, RunKeeps, Run, Rewriting
    <3> QED
      BY <1>6, <3>1, <3>2, <3>3
  <2> QED
    BY <1>1, <1>6, <2>1 DEF Rewriting
<1>7. CASE ~Captures /\ Enriches
  BY <1>0, <1>1, <1>7 DEF Enriches, RunKeeps, Run, Rewriting
<1> QED
  BY <1>2, <1>4, <1>5, <1>6, <1>7
  DEF TidyNext, RunStep, UndoStep, ClientActs, KeeperEnds, KeeperOpens, TimePasses,
      Ends, RunKeeps, UndoStarts, Undoes, UndoTouches, UndoEnds, UndoCut, UndoKeeps

\* Every step keeps the shape, the numbering and the limit of the checkpoints.
LEMMA ShapeStep == TidyShape /\ [TidyNext]_vars => TidyShape'
<1> SUFFICES ASSUME TidyShape, [TidyNext]_vars PROVE TidyShape'
  OBVIOUS
<1>0. TidyTypeOK /\ IsFiniteSet(checkpoints) /\ Cardinality(checkpoints) \in Nat
  BY FS_CardinalityType DEF TidyShape
<1>1. /\ checkpoints' \subseteq Checkpoint /\ NumbersUnique(checkpoints')
      /\ IsFiniteSet(checkpoints') /\ Cardinality(checkpoints') <= CHECKPOINT_RETENTION
  <2>1. CASE ~Captures
    <3>1. /\ checkpoints' \subseteq Checkpoint /\ NumbersUnique(checkpoints')
          /\ \A d \in checkpoints' : \E e \in checkpoints : e.n = d.n
      BY <2>1, CheckpointsFollow DEF SameCheckpoint
    <3>2. IsFiniteSet(checkpoints') /\ Cardinality(checkpoints') <= Cardinality(checkpoints)
      BY <1>0, <3>1, NoMoreCheckpoints DEF NumbersUnique
    <3>3. Cardinality(checkpoints') \in Nat
      BY <3>2, FS_CardinalityType
    <3>4. Cardinality(checkpoints) <= CHECKPOINT_RETENTION /\ CHECKPOINT_RETENTION \in Nat
      BY <1>0, TidyUpAssumption DEF TidyTypeOK
    <3>5. Cardinality(checkpoints') <= CHECKPOINT_RETENTION
      BY <1>0, <3>2, <3>3, <3>4
    <3> QED
      BY <3>1, <3>2, <3>5
  <2>2. CASE Captures /\ checkpoints' # checkpoints
    <3>1. checkpoints \subseteq Checkpoint
      BY <1>0 DEF TidyTypeOK
    <3> QED
      BY <2>2, <3>1, CapturedFacts
  <2>3. CASE checkpoints' = checkpoints
    BY <2>3 DEF TidyShape, TidyTypeOK, NumbersKnown
  <2> QED
    BY <2>1, <2>2, <2>3
<1>2. TypeOK' /\ run' \in Run /\ runs' \in 0..MaxRuns
  BY <1>0, TablesStep, RunTypedStep
<1>3. /\ undo' \in [n : 0..MaxRuns, todo : SUBSET Memories]
      /\ undone_late' \in BOOLEAN /\ open' \in BOOLEAN
      /\ undo'.n = 0 => undo' = NoUndo
  BY UndoTypedStep
<1>4. NumbersKnown'
  BY <1>1, <1>3, NumbersStep
<1> QED
  BY <1>1, <1>2, <1>3, <1>4 DEF TidyShape, TidyTypeOK

\* The tables, the run, the checkpoints and the rollback keep their shape, and
\* no more checkpoints are kept than the limit.
THEOREM TidyTypeCorrect == TidySpec => []TidyTypeOK
<1>1. TidyShape => TidyTypeOK
  BY DEF TidyShape
<1> QED
  BY ShapeInit, ShapeStep, <1>1, PTL DEF TidySpec

----------------------------------------------------------------------------
(* What is deleted stays deleted *)

\* A client's step, or the clock's, is one of RecentlyDeleted.
LEMMA ClientsAsBefore ==
  ClientActs \/ TimePasses => [Next]_clientVars
BY DEF ClientActs, TimePasses, Next

\* A memory that is gone comes back only by a restore from the bin.
LEMMA TidyDeletedStep ==
  ASSUME TidyShape, [TidyNext]_vars, NEW m \in 1..last_id, ~Exists(m)
  PROVE  memories'[m] = NoRow \/ TakenOut(m)
<1>0. /\ TypeOK /\ m \in Memories /\ memories[m] = NoRow /\ m # last_id + 1
      /\ memories \in AllMemories
  BY ClientAssumption, SMTT(60) DEF TidyShape, TidyTypeOK, TypeOK, Memories, Exists, AllMemories
<1>a. CASE UNCHANGED memories
  BY <1>0, <1>a
<1>b. CASE ClientActs \/ TimePasses
  BY <1>0, <1>b, ClientsAsBefore, DeletedStep
<1>c. CASE Dedups
  BY <1>0, <1>c DEF Dedups, Exists
<1>d. CASE Merges
  BY <1>0, <1>d DEF Merges, Changes, AllMemories
<1>e. CASE Supersedes
  <2>1. PICK k \in run.todo : \/ memories' = memories
                              \/ Exists(k) /\ \E row : memories' = [memories EXCEPT ![k] = row]
    BY <1>e DEF Supersedes, Changes
  <2> QED
    BY <1>0, <2>1 DEF AllMemories
<1>f. CASE MarksNext
  <2>1. PICK k \in run.todo : \/ memories' = memories
                              \/ Exists(k) /\ \E row : memories' = [memories EXCEPT ![k] = row]
    BY <1>f DEF MarksNext, Changes
  <2> QED
    BY <1>0, <2>1 DEF AllMemories
<1>g. CASE Enriches
  BY <1>0, <1>g DEF Enriches, AllMemories, Exists
<1>h. CASE Undoes
  <2>1. PICK k \in undo.todo : \/ memories' = [memories EXCEPT ![k] = NoRow]
                               \/ Exists(k) /\ \E row : memories' = [memories EXCEPT ![k] = row]
    BY <1>h DEF Undoes
  <2> QED
    BY <1>0, <2>1 DEF AllMemories
<1> QED
  BY <1>a, <1>b, <1>c, <1>d, <1>e, <1>f, <1>g, <1>h
  DEF TidyNext, RunStep, UndoStep, KeeperEnds, KeeperOpens, Starts, Contradicts, NextPhase,
      Captures, Capture, Ends, RunKeeps, UndoStarts, UndoEnds, UndoCut, UndoKeeps

\* Neither a run nor a rollback nor an edit beside them brings a deleted memory
\* back: only a restore does.
THEOREM TidyUpRevivesNothing == TidySpec => DeletedStaysDeleted
<1>1. TidyShape /\ [TidyNext]_vars =>
        [\A m \in 1..last_id : ~Exists(m) => memories'[m] = NoRow \/ TakenOut(m)]_clientVars
  BY TidyDeletedStep
<1> QED
  BY <1>1, ShapeInit, ShapeStep, PTL DEF TidySpec, DeletedStaysDeleted

----------------------------------------------------------------------------
(* The course of a run *)

\* Every step keeps what a run lists in order.
LEMMA RunShapeStep ==
  ASSUME TidyShape, RunShape, [TidyNext]_vars
  PROVE  RunShape'
<1>0. run \in Run /\ (run.todo = {} => run.into = NoMemory)
  BY DEF TidyShape, TidyTypeOK, RunShape
<1>1. CASE run' = run \/ run' = [run EXCEPT !.touched = run.pc # "idle"] \/ run' = NoRun
  BY <1>0, <1>1 DEF RunShape, Run, NoRun
<1>2. CASE Starts
  BY <1>2 DEF Starts, RunShape, NoRun
<1>3. CASE Dedups
  BY <1>0, <1>3 DEF Dedups, Cluster, RunShape, Run
<1>4. CASE Merges
  <2>1. PICK S \in SUBSET run.left :
          /\ run.pc = "clusters" /\ Cardinality(S) >= 2
          /\ run' = [run EXCEPT !.left = @ \ S, !.todo = S, !.into = last_id + 1]
    BY <1>4 DEF Merges, Cluster
  <2>2. S # {}
    BY <2>1, FS_EmptySet
  <2> QED
    BY <1>0, <2>1, <2>2 DEF RunShape, Run
<1>5. CASE Contradicts
  BY <1>0, <1>5 DEF Contradicts, Cluster, RunShape, Run
<1>6. CASE Supersedes
  <2>1. PICK m \in run.todo :
          \/ run' = [run EXCEPT !.todo = @ \ {m}, !.into = IF run.todo = {m} THEN NoMemory ELSE @]
          \/ run' = [run EXCEPT !.todo = {}, !.into = NoMemory]
    BY <1>6 DEF Supersedes
  <2>2. run.pc = "clusters"
    BY <1>6 DEF Supersedes, RunShape
  <2>3. run.todo \ {m} = {} => run.todo = {m}
    OBVIOUS
  <2> QED
    BY <1>0, <2>1, <2>2, <2>3 DEF RunShape, Run
<1>7. CASE MarksNext
  BY <1>0, <1>7 DEF MarksNext, RunShape, Run
<1>8. CASE NextPhase
  BY <1>0, <1>8 DEF NextPhase, RunShape, Run
<1>9. CASE Captures
  BY <1>0, <1>9 DEF Captures, Capture, RunShape, Run
<1>10. CASE Enriches
  BY <1>0, <1>10 DEF Enriches, RunShape, Run
<1> QED
  BY <1>1, <1>2, <1>3, <1>4, <1>5, <1>6, <1>7, <1>8, <1>9, <1>10
  DEF TidyNext, RunStep, UndoStep, ClientActs, KeeperEnds, KeeperOpens, TimePasses,
      Ends, UndoStarts, Undoes, UndoTouches, UndoEnds, UndoCut

\* Which steps a run takes in which phase.
LEMMA RunPhases ==
  ASSUME TidyShape, RunShape
  PROVE  /\ RunStep => run.pc # "idle"
         /\ Dedups \/ Merges \/ Contradicts \/ Supersedes => run.pc = "clusters"
         /\ MarksNext \/ NextPhase \/ Captures => run.pc \in Rewriting
         /\ Enriches => run.pc = "enriching"
<1>0. run.pc \in {"idle", "clusters", "retiring", "archiving", "enriching"}
  BY DEF TidyShape, TidyTypeOK, Run
<1> QED
  BY <1>0 DEF RunShape, Rewriting, RunStep, Dedups, Merges, Contradicts, Cluster, Supersedes,
              MarksNext, NextPhase, Captures, Capture, Enriches, Ends

\* A run takes up where it was, unless it starts or is done.
LEMMA PhaseStep ==
  ASSUME TidyShape, RunShape, [TidyNext]_vars, ~Starts
  PROVE  /\ run'.pc # "idle" => run.pc # "idle"
         /\ run'.pc \in Rewriting => run.pc \in Rewriting /\ run'.read = run.read
         /\ run'.pc = "enriching" /\ ~Captures => run.pc = "enriching" /\ run'.read = run.read
<1>0. run \in Run
  BY DEF TidyShape, TidyTypeOK
<1>1. CASE run' = run \/ run' = [run EXCEPT !.touched = run.pc # "idle"] \/ run' = NoRun
  BY <1>0, <1>1 DEF Run, NoRun, Rewriting
<1>2. CASE Dedups \/ Merges \/ Contradicts \/ Supersedes \/ MarksNext \/ Enriches
  <2>1. run'.pc = run.pc /\ run'.read = run.read
    <3>1. CASE Dedups \/ Merges \/ Contradicts
      BY <1>0, <3>1 DEF Dedups, Merges, Contradicts, Run
    <3>2. CASE Supersedes \/ MarksNext \/ Enriches
      BY <1>0, <3>2 DEF Supersedes, MarksNext, Enriches, Run
    <3> QED
      BY <1>2, <3>1, <3>2
  <2> QED
    BY <2>1
<1>3. CASE NextPhase
  BY <1>0, <1>3 DEF NextPhase, Run, Rewriting
<1>4. CASE Captures
  BY <1>0, <1>4 DEF Captures, Capture, Run, Rewriting
<1> QED
  BY <1>1, <1>2, <1>3, <1>4
  DEF TidyNext, RunStep, UndoStep, ClientActs, KeeperEnds, KeeperOpens, TimePasses,
      Ends, UndoStarts, Undoes, UndoTouches, UndoEnds, UndoCut

\* The keeper, a run and a rollback have the vault in turn.
LEMMA InTurnStep ==
  ASSUME UndoAlone, TidyShape, RunShape, OneAtATime, [TidyNext]_vars
  PROVE  OneAtATime'
<1>0. /\ OneAtATime /\ (undo.n = 0 => undo = NoUndo)
      /\ run'.pc # "idle" => run.pc # "idle" \/ Starts
  BY PhaseStep DEF TidyShape, NumbersKnown
<1>1. CASE UNCHANGED <<open, client, undo>> /\ ~Starts
  BY <1>0, <1>1 DEF OneAtATime
<1>2. CASE ClientActs
  <2>1. open /\ open' = open /\ undo' = undo
    BY <1>2 DEF ClientActs
  <2>2. run'.pc = "idle"
    BY <1>0, <1>2, <2>1 DEF OneAtATime, Starts
  <2> QED
    BY <1>0, <2>1, <2>2 DEF OneAtATime
<1>3. CASE KeeperEnds
  BY <1>0, <1>3 DEF KeeperEnds, OneAtATime
<1>4. CASE KeeperOpens
  BY <1>0, <1>4 DEF KeeperOpens, OneAtATime
<1>5. CASE Starts
  BY <1>0, <1>5 DEF Starts, OneAtATime
<1>6. CASE UndoStarts
  BY <1>0, <1>6 DEF UndoStarts, UndoKeeps, OneAtATime
<1>7. CASE Undoes \/ UndoEnds \/ UndoCut
  <2>1. undo # NoUndo /\ UNCHANGED <<open, client>> /\ ~Starts
    <3>1. undo # NoUndo
      <4>1. CASE Undoes
        BY <4>1 DEF Undoes, NoUndo
      <4>2. CASE UndoEnds
        BY <4>2 DEF UndoEnds, NoUndo
      <4>3. CASE UndoCut
        BY <4>3 DEF UndoCut
      <4> QED
        BY <1>7, <4>1, <4>2, <4>3
    <3>2. UNCHANGED <<open, client, runs>>
      BY <1>7 DEF Undoes, UndoEnds, UndoCut, UndoKeeps
    <3>3. runs \in Nat
      BY TidyUpAssumption DEF TidyShape, TidyTypeOK
    <3> QED
      BY <3>1, <3>2, <3>3 DEF Starts
  <2> QED
    BY <1>0, <2>1 DEF OneAtATime
<1>8. CASE RunStep
  <2>1. UNCHANGED <<open, client, undo>>
    BY <1>8 DEF RunStep, RunKeeps, Dedups, Merges, Contradicts, Supersedes, MarksNext,
                NextPhase, Captures, Capture, Enriches, Ends
  <2> QED
    BY <1>1, <1>5, <2>1
<1> QED
  BY <1>1, <1>2, <1>3, <1>4, <1>5, <1>6, <1>7, <1>8
  DEF TidyNext, UndoStep, TimePasses, Tick

----------------------------------------------------------------------------
(* What a rolled back run leaves behind *)

\* Alike rows agree on all but the search words.
LEMMA AlikeRows ==
  ASSUME NEW a \in Row \cup {NoRow}, NEW b \in Row \cup {NoRow}
  PROVE  /\ Alike(a, b) <=> /\ a.text = b.text /\ a.superseded_by = b.superseded_by
                            /\ a.marks = b.marks
         /\ Alike(a, b) => (a = NoRow <=> b = NoRow)
         /\ \A text : Alike([a EXCEPT !.enriched = text], a)
<1>1. \A r \in Row \cup {NoRow} :
        /\ r = [text |-> r.text, superseded_by |-> r.superseded_by,
                marks |-> r.marks, enriched |-> r.enriched]
        /\ [r EXCEPT !.enriched = 0] =
             [text |-> r.text, superseded_by |-> r.superseded_by,
              marks |-> r.marks, enriched |-> 0]
  BY DEF Row, NoRow
<1>2. Alike(a, b) <=> /\ a.text = b.text /\ a.superseded_by = b.superseded_by
                      /\ a.marks = b.marks
  BY <1>1 DEF Alike
<1>3. \A r \in Row \cup {NoRow} : r = NoRow <=> r.text = 0
  BY ClientAssumption DEF Row, NoRow, Texts
<1>4. ASSUME NEW text PROVE Alike([a EXCEPT !.enriched = text], a)
  BY <1>1 DEF Alike, Row, NoRow
<1> QED
  BY <1>2, <1>3, <1>4

\* The steps that mark memories and merge them leave each memory there, and its
\* wording as it is.
LEMMA RewritesKeepRows ==
  ASSUME TidyShape, IdsAreFresh, RunStep, ~Enriches,
         NEW m \in Memories, Exists(m)
  PROVE  memories'[m] \in Row /\ memories'[m].text = memories[m].text
<1>0. /\ memories \in AllMemories /\ run \in Run
      /\ run.left \subseteq Memories /\ run.todo \subseteq Memories
      /\ run.into \in Memories \cup {NoMemory}
      /\ \A k \in Memories : Exists(k) => memories[k] \in Row
  BY DEF TidyShape, TidyTypeOK, TypeOK, AllMemories, Run, Exists
<1>1. CASE memories' = memories
  BY <1>0, <1>1
<1>2. CASE Dedups
  <2>1. PICK survivor \in Memories :
          \/ memories'[m] = [memories[m] EXCEPT !.superseded_by = survivor]
          \/ memories'[m] = memories[m]
    BY <1>0, <1>2 DEF Dedups
  <2>2. /\ [memories[m] EXCEPT !.superseded_by = survivor] \in Row
        /\ [memories[m] EXCEPT !.superseded_by = survivor].text = memories[m].text
    BY <1>0, RewrittenRows DEF Row
  <2> QED
    BY <1>0, <2>1, <2>2
<1>3. CASE Merges
  <2>1. memories' = [memories EXCEPT ![last_id + 1] = NewRow(last_text + 1)]
    BY <1>3 DEF Merges, Changes
  <2>2. m # last_id + 1
    BY ClientAssumption DEF IdsAreFresh, TidyShape, TidyTypeOK, TypeOK, Memories
  <2> QED
    BY <1>0, <2>1, <2>2 DEF AllMemories
<1>4. CASE Supersedes
  <2>1. PICK k \in run.todo :
          \/ memories' = [memories EXCEPT ![k] = [memories[k] EXCEPT !.superseded_by = run.into]]
          \/ memories' = memories
    BY <1>4 DEF Supersedes, Changes
  <2>2. /\ [memories[m] EXCEPT !.superseded_by = run.into] \in Row
        /\ [memories[m] EXCEPT !.superseded_by = run.into].text = memories[m].text
    BY <1>0, <1>4, RewrittenRows DEF Row, Supersedes
  <2> QED
    BY <1>0, <2>1, <2>2 DEF AllMemories
<1>5. CASE MarksNext
  <2> DEFINE mark == IF run.pc = "archiving" THEN "archived" ELSE "noted"
  <2>1. PICK k \in run.todo :
          \/ memories' = [memories EXCEPT ![k] = [memories[k] EXCEPT !.marks = @ \cup {mark}]]
          \/ memories' = memories
    BY <1>5 DEF MarksNext, Changes
  <2>2. mark \in Marks
    BY DEF Marks
  <2> HIDE DEF mark
  <2>3. /\ [memories[m] EXCEPT !.marks = @ \cup {mark}] \in Row
        /\ [memories[m] EXCEPT !.marks = @ \cup {mark}].text = memories[m].text
    BY <1>0, <2>2, RewrittenRows DEF Row
  <2> QED
    BY <1>0, <2>1, <2>3 DEF AllMemories
<1> QED
  BY <1>1, <1>2, <1>3, <1>4, <1>5
  DEF RunStep, Contradicts, NextPhase, Captures, Capture, Ends

\* Adding search words changes nothing else.
LEMMA EnrichesAlike ==
  ASSUME TidyShape, RunShape, ReadStands, Enriches, NEW m \in Memories
  PROVE  Alike(memories'[m], memories[m])
<1>0. /\ memories \in AllMemories /\ run.read \in AllMemories /\ run.todo \subseteq Memories
      /\ \A k \in Memories : Alike(run.read[k], memories[k])
  BY RunPhases DEF TidyShape, TidyTypeOK, TypeOK, AllMemories, Run, ReadStands
<1>1. PICK k \in run.todo :
        \/ memories' = memories
        \/ memories' = [memories EXCEPT ![k] = [run.read[k] EXCEPT !.enriched = run.read[k].text]]
  BY DEF Enriches
<1>2. Alike([run.read[m] EXCEPT !.enriched = run.read[m].text], run.read[m])
  BY <1>0, AlikeRows DEF AllMemories
<1>3. Alike([run.read[m] EXCEPT !.enriched = run.read[m].text], memories[m])
  BY <1>0, <1>2 DEF Alike
<1>4. Alike(memories[m], memories[m])
  BY DEF Alike
<1> QED
  BY <1>0, <1>1, <1>3, <1>4 DEF AllMemories

\* While a run is under way nobody but the run changes a memory.
LEMMA RunAlone ==
  ASSUME TidyShape, OneAtATime, [TidyNext]_vars, run.pc # "idle"
  PROVE  memories' = memories \/ RunStep
<1>1. ~open /\ undo = NoUndo
  BY DEF OneAtATime
<1>2. ~ClientActs /\ ~Undoes
  BY <1>1 DEF ClientActs, Undoes, NoUndo
<1> QED
  BY <1>2 DEF TidyNext, KeeperEnds, KeeperOpens, TimePasses, Tick, Starts, UndoStep,
              UndoStarts, UndoEnds, UndoCut

\* Every step keeps the identities of the memories fresh.
LEMMA FreshTidyStep ==
  ASSUME TidyShape, RunShape, ReadStands, IdsAreFresh, [TidyNext]_vars
  PROVE  IdsAreFresh'
<1>a. TypeOK
  BY DEF TidyShape, TidyTypeOK
<1>b. \A b \in recently_deleted : b.mem \in Nat
  BY <1>a DEF TypeOK, BinEntry, Memories
<1>0. /\ TypeOK /\ memories \in AllMemories /\ last_id \in Nat
      /\ \A b \in recently_deleted : b.mem \in Nat
  BY <1>a, <1>b, ClientAssumption DEF TypeOK, AllMemories
<1>1. ASSUME NEW m \in Memories, Exists(m), NEW row,
             memories' = [memories EXCEPT ![m] = row] \/ memories' = memories,
             UNCHANGED <<recently_deleted, last_id>>
      PROVE  IdsAreFresh'
  BY <1>0, <1>1 DEF IdsAreFresh, Exists, AllMemories
<1>2. CASE UNCHANGED <<memories, recently_deleted, last_id>>
  BY <1>2 DEF IdsAreFresh, Exists
<1>3. CASE ClientActs \/ TimePasses
  BY <1>0, <1>3, ClientsAsBefore, FreshStep
<1>4. CASE Dedups
  BY <1>0, <1>4 DEF Dedups, RunKeeps, IdsAreFresh, Exists
<1>5. CASE Merges
  <2>1. /\ memories' = [memories EXCEPT ![last_id + 1] = NewRow(last_text + 1)]
        /\ last_id' = last_id + 1 /\ recently_deleted' = recently_deleted
    BY <1>5 DEF Merges, Changes, RunKeeps
  <2> QED
    BY <1>0, <2>1 DEF IdsAreFresh, Exists, AllMemories, Memories
<1>6. CASE Supersedes
  <2>1. PICK m \in run.todo :
          \/ memories' = memories
          \/ Exists(m) /\ \E row : memories' = [memories EXCEPT ![m] = row]
    BY <1>6 DEF Supersedes, Changes
  <2>2. m \in Memories
    BY DEF TidyShape, TidyTypeOK, Run
  <2> QED
    BY <1>1, <1>2, <1>6, <2>1, <2>2 DEF Supersedes, RunKeeps
<1>7. CASE MarksNext
  <2>1. PICK m \in run.todo :
          \/ memories' = memories
          \/ Exists(m) /\ \E row : memories' = [memories EXCEPT ![m] = row]
    BY <1>7 DEF MarksNext, Changes
  <2>2. m \in Memories
    BY DEF TidyShape, TidyTypeOK, Run
  <2> QED
    BY <1>1, <1>2, <1>7, <2>1, <2>2 DEF MarksNext, RunKeeps
<1>8. CASE Enriches
  <2>1. PICK m \in run.todo :
          \/ memories' = memories
          \/ Exists(m) /\ \E row : memories' = [memories EXCEPT ![m] = row]
    BY <1>8 DEF Enriches
  <2>2. m \in Memories
    BY DEF TidyShape, TidyTypeOK, Run
  <2> QED
    BY <1>1, <1>2, <1>8, <2>1, <2>2 DEF Enriches, RunKeeps
<1>9. CASE Undoes
  <2>1. PICK m \in undo.todo :
          \/ memories' = [memories EXCEPT ![m] = NoRow]
          \/ Exists(m) /\ \E row : memories' = [memories EXCEPT ![m] = row]
    BY <1>9 DEF Undoes
  <2>2. m \in Memories /\ UNCHANGED <<recently_deleted, last_id>>
    BY <1>9 DEF TidyShape, TidyTypeOK, Undoes, UndoKeeps
  <2>3. CASE memories' = [memories EXCEPT ![m] = NoRow]
    BY <1>0, <2>2, <2>3 DEF IdsAreFresh, Exists, AllMemories
  <2> QED
    BY <1>1, <2>1, <2>2, <2>3
<1> QED
  BY <1>2, <1>3, <1>4, <1>5, <1>6, <1>7, <1>8, <1>9
  DEF TidyNext, RunStep, UndoStep, KeeperEnds, KeeperOpens, Starts, Contradicts, NextPhase,
      Captures, Capture, Ends, RunKeeps, UndoStarts, UndoEnds, UndoCut, UndoKeeps

\* What a run has read stands until it ends.
LEMMA ReadStandsStep ==
  ASSUME TidyShape, RunShape, IdsAreFresh, OneAtATime, ReadStands, [TidyNext]_vars
  PROVE  ReadStands'
<1>0. /\ memories \in AllMemories /\ run \in Run /\ NoRow \notin Row
      /\ \A m \in Memories : Alike(memories[m], memories[m])
  BY RowFacts DEF TidyShape, TidyTypeOK, TypeOK, AllMemories, Alike
<1>1. ASSUME run'.pc \in Rewriting, NEW m \in Memories, run'.read[m] # NoRow
      PROVE  memories'[m] # NoRow
  <2>1. CASE Starts
    <3>1. run'.read = memories /\ memories' = memories
      BY <2>1 DEF Starts, NoRun
    <3> QED
      BY <1>1, <3>1
  <2>2. CASE ~Starts
    <3>1. run.pc \in Rewriting /\ run'.read = run.read
      BY <1>1, <2>2, PhaseStep
    <3>2. Exists(m)
      BY <1>1, <3>1 DEF ReadStands
    <3>3. CASE memories' = memories
      BY <3>2, <3>3 DEF Exists
    <3>4. CASE RunStep
      <4>1. ~Enriches
        BY <3>1, RunPhases DEF Rewriting
      <4> QED
        BY <1>0, <3>2, <3>4, <4>1, RewritesKeepRows
    <3> QED
      BY <3>1, <3>3, <3>4, RunAlone DEF Rewriting
  <2> QED
    BY <2>1, <2>2
<1>2. ASSUME run'.pc = "enriching", NEW m \in Memories
      PROVE  Alike(run'.read[m], memories'[m])
  <2>1. CASE Captures
    <3>1. run'.read = memories /\ memories' = memories
      BY <1>0, <2>1 DEF Captures, Capture, Run
    <3> QED
      BY <1>0, <3>1
  <2>2. CASE ~Captures
    <3>1. ~Starts
      BY <1>2 DEF Starts, NoRun
    <3>2. run.pc = "enriching" /\ run'.read = run.read
      BY <1>2, <2>2, <3>1, PhaseStep
    <3>3. Alike(run.read[m], memories[m])
      BY <3>2 DEF ReadStands
    <3>4. CASE memories' = memories
      BY <3>2, <3>3, <3>4
    <3>5. CASE RunStep /\ memories' # memories
      <4>1. Enriches
        BY <3>2, <3>5, RunPhases DEF RunStep, Rewriting, Ends
      <4> QED
        BY <3>2, <3>3, <4>1, EnrichesAlike DEF Alike
    <3> QED
      BY <3>2, <3>4, <3>5, RunAlone
  <2> QED
    BY <2>1, <2>2
<1> QED
  BY <1>1, <1>2 DEF ReadStands, Exists

\* A checkpoint that is carried over with its memories and its rollback.
LEMMA UndoneCarries ==
  ASSUME NEW d, NEW cp, Undone(cp), SameCheckpoint(d, cp),
         d.status = cp.status, d.touched = cp.touched, undo' = undo,
         \A m \in Memories :
           Alike(memories[m], cp.before[m]) => Alike(memories'[m], cp.before[m])
  PROVE  Undone(d)'
BY DEF Undone, SameCheckpoint

\* Nothing is asked of the memories beside a checkpoint that was touched.
LEMMA UndoneTouched ==
  ASSUME NEW d, NEW cp, Undone(cp), SameCheckpoint(d, cp),
         d.status = cp.status, d.touched, undo'.n = d.n => undo.n = cp.n /\ undo'.todo \subseteq undo.todo
  PROVE  Undone(d)'
BY DEF Undone, SameCheckpoint

\* What a run captures stands for all it changed.
LEMMA CapturedUndone ==
  ASSUME RestoreInv, Captures,
         NEW new, new.n = runs, new.before = run.read, new.status = "active",
         new.modified = Differs(run.read).modified, new.created = Differs(run.read).created
  PROVE  Undone(new)'
<1>1. /\ run.pc = "archiving" /\ memories' = memories /\ undo' = undo /\ undo.n = 0 /\ runs # 0
      /\ memories \in AllMemories /\ run.read \in AllMemories
  BY DEF Captures, Capture, RunKeeps, RestoreInv, OneAtATime, NoUndo, TidyShape, NumbersKnown,
         TidyTypeOK, TypeOK, AllMemories, Run
<1>2. \A m \in Memories : run.read[m] # NoRow => Exists(m)
  BY <1>1 DEF RestoreInv, ReadStands, Rewriting
<1>3. /\ new.modified = {m \in Memories : run.read[m] # NoRow /\ Exists(m) /\ memories[m] # run.read[m]}
      /\ new.created = {m \in Memories : run.read[m] = NoRow /\ Exists(m)}
  BY DEF Differs
<1>4. ASSUME NEW m \in Memories, m \notin new.modified \cup new.created
      PROVE  Alike(memories[m], run.read[m])
  <2>1. memories[m] = run.read[m]
    BY <1>2, <1>3, <1>4 DEF Exists
  <2> QED
    BY <2>1 DEF Alike
<1> QED
  BY <1>1, <1>3, <1>4 DEF Undone

\* Every step keeps what a checkpoint says of the memories it does not list.
LEMMA UndoneStep ==
  ASSUME RestoreInv, [TidyNext]_vars
  PROVE  UndoneSoFar'
<1>0. /\ TidyShape /\ RunShape /\ OneAtATime /\ ReadStands /\ UndoneSoFar
      /\ memories \in AllMemories
      /\ checkpoints \subseteq Checkpoint /\ NumbersUnique(checkpoints)
      /\ (undo.n = 0 => undo = NoUndo)
      /\ undo \in [n : 0..MaxRuns, todo : SUBSET Memories]
      /\ \A cp \in checkpoints : Undone(cp) /\ cp.n # 0
  BY TidyUpAssumption
  DEF RestoreInv, TidyShape, TidyTypeOK, TypeOK, NumbersKnown, UndoneSoFar, AllMemories, Checkpoint
<1> SUFFICES ASSUME NEW d \in checkpoints' PROVE Undone(d)'
  BY DEF UndoneSoFar
<1>1. CASE UNCHANGED <<memories, checkpoints, undo>>
  <2>1. d \in checkpoints /\ SameCheckpoint(d, d)
    BY <1>1 DEF SameCheckpoint
  <2> QED
    BY <1>0, <1>1, <2>1, UndoneCarries
<1>2. CASE checkpoints' = Touched(checkpoints) /\ undo' = undo
  <2>1. PICK cp \in checkpoints : SameCheckpoint(d, cp) /\ d.status = cp.status /\ d.touched
    BY <1>0, <1>2, TouchedAll
  <2> QED
    BY <1>0, <1>2, <2>1, UndoneTouched DEF SameCheckpoint
<1>3. CASE Enriches
  <2>1. d \in checkpoints /\ undo' = undo /\ SameCheckpoint(d, d)
    BY <1>3 DEF Enriches, RunKeeps, SameCheckpoint
  <2>2. \A m \in Memories : Alike(memories[m], d.before[m]) => Alike(memories'[m], d.before[m])
    BY <1>0, <1>3, EnrichesAlike DEF Alike
  <2> QED
    BY <1>0, <2>1, <2>2, UndoneCarries
<1>4. CASE Captures
  <2>1. memories' = memories /\ undo' = undo
    BY <1>4 DEF Captures, Capture, RunKeeps
  <2>2. CASE d \in checkpoints
    <3>1. SameCheckpoint(d, d)
      BY DEF SameCheckpoint
    <3> QED
      BY <1>0, <2>1, <2>2, <3>1, UndoneCarries
  <2>3. CASE d \notin checkpoints
    <3> DEFINE new == [n |-> runs, before |-> run.read, modified |-> Differs(run.read).modified,
                       created |-> Differs(run.read).created, status |-> "active",
                       touched |-> run.touched]
    <3>1. d = new
      BY <1>0, <1>4, <2>3, CapturedFacts
    <3>2. /\ new.n = runs /\ new.before = run.read /\ new.status = "active"
          /\ new.modified = Differs(run.read).modified /\ new.created = Differs(run.read).created
      OBVIOUS
    <3> HIDE DEF new
    <3> QED
      BY <1>4, <3>1, <3>2, CapturedUndone
  <2> QED
    BY <2>2, <2>3
<1>5. CASE UndoStarts
  <2>1. PICK cp \in checkpoints :
          cp.status = "active" /\ undo' = [n |-> cp.n, todo |-> cp.modified \cup cp.created]
    BY <1>5 DEF UndoStarts
  <2>2. /\ undo'.n = cp.n /\ undo'.todo = cp.modified \cup cp.created
        /\ undo.n = 0 /\ d \in checkpoints /\ memories' = memories
    BY <1>5, <2>1 DEF UndoStarts, NoUndo
  <2>3. undo'.n = d.n => d = cp
    BY <1>0, <2>2 DEF NumbersUnique
  <2>4. Undone(d) /\ undo.n # d.n
    BY <1>0, <2>2
  <2> QED
    BY <2>1, <2>2, <2>3, <2>4 DEF Undone
<1>6. CASE Undoes
  <2>1. PICK cp \in checkpoints, m \in undo.todo :
          /\ cp.n = undo.n
          /\ \/ m \in cp.modified /\ memories' = [memories EXCEPT ![m] = cp.before[m]]
             \/ undo.todo \subseteq cp.created /\ memories' = [memories EXCEPT ![m] = NoRow]
          /\ UndoTouches(cp)
          /\ undo' = [undo EXCEPT !.todo = @ \ {m}]
    BY <1>6 DEF Undoes
  <2>2. PICK e \in checkpoints :
          SameCheckpoint(d, e) /\ d.status = e.status /\ (d = cp \/ (e # cp /\ d.touched))
    BY <1>0, <2>1, UndoTouchesFacts DEF UndoTouches
  <2>3. undo'.n = undo.n /\ undo'.todo = undo.todo \ {m} /\ m \in Memories
    BY <1>0, <2>1
  <2>4. CASE d # cp
    <3>1. e # cp /\ d.touched /\ d.n = e.n
      BY <2>2, <2>4 DEF SameCheckpoint
    <3>2. undo'.n # d.n
      BY <1>0, <2>1, <2>3, <3>1 DEF NumbersUnique
    <3> QED
      BY <1>0, <2>2, <3>1, <3>2, UndoneTouched
  <2>5. CASE d = cp
    <3>1. Undone(cp)
      BY <1>0
    <3>2. memories'[m] = cp.before[m]
      BY <1>0, <2>1, <2>3, <3>1 DEF Undone, AllMemories
    <3>3. \A k \in Memories : k # m => memories'[k] = memories[k]
      BY <1>0, <2>1 DEF AllMemories
    <3>4. Alike(memories'[m], cp.before[m])
      BY <3>2 DEF Alike
    <3>5. \A k \in Memories : ~cp.touched =>
            Alike(memories'[k], cp.before[k]) \/ k \in undo'.todo
      BY <2>1, <2>3, <3>1, <3>3, <3>4 DEF Undone
    <3> QED
      BY <2>1, <2>3, <2>5, <3>1, <3>5 DEF Undone
  <2> QED
    BY <2>4, <2>5
<1>7. CASE UndoEnds
  <2>1. PICK e \in checkpoints :
          /\ SameCheckpoint(d, e) /\ d.touched = e.touched
          /\ e.n = undo.n => d.status = "rolled_back"
          /\ e.n # undo.n => d.status = e.status
    BY <1>0, <1>7, UndoEndsFacts
  <2>2. undo.todo = {} /\ undo'.n = 0 /\ memories' = memories /\ d.n # 0
    BY <1>0, <1>7, <2>1 DEF UndoEnds, NoUndo, SameCheckpoint
  <2>3. Undone(e)
    BY <1>0
  <2> QED
    BY <2>1, <2>2, <2>3 DEF Undone, SameCheckpoint
<1>8. CASE UndoCut
  <2>1. undo'.n = 0 /\ memories' = memories /\ d \in checkpoints
    BY <1>8 DEF UndoCut, NoUndo
  <2>2. Undone(d) /\ d.n # 0
    BY <1>0, <2>1
  <2> QED
    BY <2>1, <2>2 DEF Undone
<1> QED
  BY <1>1, <1>2, <1>3, <1>4, <1>5, <1>6, <1>7, <1>8
  DEF TidyNext, RunStep, UndoStep, ClientActs, KeeperEnds, KeeperOpens, TimePasses, Tick,
      Starts, Dedups, Merges, Contradicts, Supersedes, MarksNext, NextPhase, Ends, Changes,
      RunKeeps

\* RestoreInv is inductive: it holds at first, and every step keeps it.
LEMMA RestoreInvInit == TidyInit => RestoreInv
<1> SUFFICES ASSUME TidyInit PROVE RestoreInv
  OBVIOUS
<1>1. TidyShape
  BY ShapeInit
<1>2. RunShape /\ IdsAreFresh /\ OneAtATime /\ ReadStands /\ UndoneSoFar
  BY DEF TidyInit, Init, RunShape, NoRun, IdsAreFresh, Exists, OneAtATime, ReadStands,
         Rewriting, UndoneSoFar
<1> QED
  BY <1>1, <1>2 DEF RestoreInv

LEMMA RestoreInvStep ==
  ASSUME UndoAlone
  PROVE  RestoreInv /\ [TidyNext]_vars => RestoreInv'
<1> SUFFICES ASSUME RestoreInv, [TidyNext]_vars PROVE RestoreInv'
  OBVIOUS
<1>1. TidyShape' /\ RunShape' /\ OneAtATime'
  BY ShapeStep, RunShapeStep, InTurnStep DEF RestoreInv
<1>2. IdsAreFresh' /\ ReadStands'
  BY FreshTidyStep, ReadStandsStep DEF RestoreInv
<1>3. UndoneSoFar'
  BY UndoneStep
<1> QED
  BY <1>1, <1>2, <1>3 DEF RestoreInv

\* When checkpoints are rolled back only while no keeper and no run has the
\* vault, a rolled back run leaves nothing behind, however often the rollback
\* was cut and repeated, and however the run itself was cut.
THEOREM RolledBackIsUndone ==
  ASSUME UndoAlone
  PROVE  TidySpec => []RollbackRestores
<1>1. RestoreInv => RollbackRestores
  BY DEF RestoreInv, UndoneSoFar, Undone, RollbackRestores
<1>2. RestoreInv /\ [TidyNext]_vars => RestoreInv'
  BY RestoreInvStep
<1> QED
  BY RestoreInvInit, <1>1, <1>2, PTL DEF TidySpec

\* Nor does a run reword or remove a memory, though it writes rows it read long
\* before.
THEOREM RunRewordsNothing ==
  ASSUME UndoAlone
  PROVE  TidySpec => RunKeepsWordings
<1>1. ASSUME RestoreInv, [TidyNext]_vars, run.pc # "idle", NEW m \in Memories, Exists(m)
      PROVE  memories'[m].text = memories[m].text
  <2>1. TidyShape /\ RunShape /\ OneAtATime /\ IdsAreFresh /\ ReadStands
    BY <1>1 DEF RestoreInv
  <2>2. CASE memories' = memories
    BY <2>2
  <2>3. CASE Enriches
    <3>1. Alike(memories'[m], memories[m])
      BY <1>1, <2>1, <2>3, EnrichesAlike
    <3>2. memories[m] \in Row \cup {NoRow} /\ memories'[m] \in Row \cup {NoRow}
      <4>1. TypeOK /\ TypeOK'
        BY <1>1, <2>1, TablesStep DEF TidyShape, TidyTypeOK
      <4> QED
        BY <4>1 DEF TypeOK
    <3> QED
      BY <3>1, <3>2, AlikeRows
  <2>4. CASE RunStep /\ ~Enriches
    BY <1>1, <2>1, <2>4, RewritesKeepRows
  <2> QED
    BY <1>1, <2>1, <2>2, <2>3, <2>4, RunAlone
<1>2. RestoreInv /\ [TidyNext]_vars =>
        [run.pc # "idle" /\ run' # run /\ (run'.touched => run.touched) =>
           \A m \in Memories : Exists(m) => memories'[m].text = memories[m].text]_vars
  BY <1>1
<1>3. RestoreInv /\ [TidyNext]_vars => RestoreInv'
  BY RestoreInvStep
<1> QED
  BY <1>2, <1>3, RestoreInvInit, PTL DEF TidySpec, RunKeepsWordings

----------------------------------------------------------------------------
(* The rolling limit on apps *)

\* A tidy-up or a rollback takes nothing from the count of what a client removed.
LEMMA RateTidyStep ==
  ASSUME Requests \cap {"restore", "erase"} = {}
  PROVE  TidyShape /\ RateInv /\ [TidyNext]_vars => RateInv'
<1> SUFFICES ASSUME TidyShape, RateInv, [TidyNext]_vars PROVE RateInv'
  OBVIOUS
<1>1. CASE ClientActs \/ TimePasses
  BY <1>1, ClientsAsBefore, RateStep
<1>2. CASE UNCHANGED <<recently_deleted, last_entry, app_changes, now>>
           /\ (client' = client \/ client' = [c \in Clients |-> Idle])
  <2>1. TypeOK'
    BY TablesStep DEF TidyShape
  <2>2. OnlyOwnersRestore' /\ NothingTaken'
    BY <1>2 DEF RateInv, LimitInv, OnlyOwnersRestore, NothingTaken, Idle
  <2>3. AppRowsLastHour' = AppRowsLastHour
    BY <1>2 DEF AppRowsLastHour
  <2>4. IsFiniteSet(recently_deleted') /\ AppRowsWithinLimit'
    BY <1>2, <2>3 DEF RateInv, LimitInv, AppRowsWithinLimit
  <2>5. ChangesHaveRows' /\ EntryIdsAreFresh'
    BY <1>2, <2>3 DEF RateInv, ChangesHaveRows, EntryIdsAreFresh
  <2> QED
    BY <2>1, <2>2, <2>4, <2>5 DEF RateInv, LimitInv
<1> QED
  BY <1>1, <1>2
  DEF TidyNext, RunStep, UndoStep, KeeperEnds, KeeperOpens, Starts, Dedups, Merges,
      Contradicts, Supersedes, MarksNext, NextPhase, Captures, Capture, Enriches, Ends,
      RunKeeps, UndoStarts, Undoes, UndoEnds, UndoCut, UndoKeeps

\* Neither the keeper's end nor a tidy-up nor a rollback gives apps more changes
\* in an hour.
THEOREM TidyUpKeepsRate ==
  ASSUME Requests \cap {"restore", "erase"} = {}
  PROVE  TidySpec => []AppChangesPerHour
<1>1. TidyInit => RateInv
  BY RateInit DEF TidyInit
<1>2. TidyShape /\ RateInv /\ [TidyNext]_vars => RateInv'
  BY RateTidyStep
<1>3. RateInv => AppChangesPerHour
  BY ChangesWithinLimit
<1> QED
  BY <1>1, <1>2, <1>3, ShapeInit, ShapeStep, PTL DEF TidySpec

----------------------------------------------------------------------------
(* The keyword index *)

\* A single client's step keeps what is active in the index, or goes on to put
\* it there.
LEMMA ClientIndexes ==
  ASSUME TypeOK, TypeOK', IndexFollows, open, \A c, d \in Clients : c = d,
         NEW c \in Clients, ClientStep(c), open' = open
  PROVE  IndexFollows'
<1>0. /\ Clients = {c} /\ client \in [Clients -> ClientState]
      /\ memories \in [Memories -> Row \cup {NoRow}] /\ keyword_index \in [Memories -> 0..MaxText]
  BY DEF TypeOK
<1>1. ASSUME client[c].pc # "indexing", NEW m \in Memories, NEW text,
             ThenIndexes(c, m, text), UNCHANGED keyword_index,
             memories'[m].text = text \/ ~Active(memories'[m]),
             \A k \in Memories : k # m => memories'[k] = memories[k]
      PROVE  IndexFollows'
  <2>1. client'[c] = [pc |-> "indexing", mem |-> m, text |-> text]
    BY <1>0, <1>1 DEF ThenIndexes
  <2>2. client'[c].pc = "indexing" /\ client'[c].mem = m /\ client'[c].text = text
    BY <2>1
  <2>3. \A k \in Memories : k # m /\ Active(memories[k]) => keyword_index[k] = memories[k].text
    BY <1>0, <1>1 DEF IndexFollows
  <2> QED
    BY <1>0, <1>1, <2>2, <2>3 DEF IndexFollows
<1>2. ASSUME client[c].pc # "indexing", client'[c].pc # "indexing",
             UNCHANGED <<memories, keyword_index>>
      PROVE  IndexFollows'
  BY <1>0, <1>2 DEF IndexFollows
<1>3. CASE Save(c)
  <2>1. last_id + 1 \in Memories
    BY <1>3, ClientAssumption DEF Save, TypeOK, Memories
  <2> QED
    BY <1>0, <1>1, <1>3, <2>1 DEF Save, NewRow, Idle
<1>4. CASE EditReads(c)
  BY <1>0, <1>2, <1>4 DEF EditReads, Idle
<1>5. CASE EditCommits(c)
  <2>1. /\ client[c].mem \in Memories /\ client[c].row \in Row
        /\ last_text + 1 \in Texts
    BY <1>5, ClientTyped, ClientAssumption DEF EditCommits, TypeOK, Texts
  <2>2. EditedRow(client[c].row, last_text + 1).text = last_text + 1
    BY <2>1, RowFacts
  <2> QED
    BY <1>0, <1>1, <1>5, <2>1, <2>2 DEF EditCommits
<1>6. CASE EditRefused(c) \/ RestoreRefused(c)
  BY <1>0, <1>2, <1>6 DEF EditRefused, RestoreRefused, Done, Idle
<1>7. CASE Delete(c)
  BY <1>0, <1>1, <1>7 DEF Delete, Active, Idle
<1>8. CASE DeleteMissing(c)
  <2>1. PICK m \in 1..last_id : ~Exists(m) /\ ThenIndexes(c, m, 0)
    BY <1>8 DEF DeleteMissing
  <2>2. m \in Memories
    BY ClientAssumption, SMTT(60) DEF TypeOK, Memories
  <2> QED
    BY <1>0, <1>1, <1>8, <2>1, <2>2 DEF DeleteMissing, Active, Exists, Idle
<1>9. CASE RestoreReads(c)
  BY <1>0, <1>2, <1>9 DEF RestoreReads, Idle
<1>10. CASE RestoreCommits(c)
  <2> DEFINE b == client[c].entry
  <2>1. b.mem \in Memories
    BY <1>10, ClientTyped DEF RestoreCommits, BinEntry
  <2>2. /\ memories' = [memories EXCEPT ![b.mem] = b.row] /\ ThenIndexes(c, b.mem, b.row.text)
        /\ UNCHANGED keyword_index /\ client[c].pc # "indexing"
    BY <1>10 DEF RestoreCommits
  <2> HIDE DEF b
  <2> QED
    BY <1>0, <1>1, <2>1, <2>2
<1>11. CASE Indexes(c)
  <2>1. /\ client[c].pc = "indexing" /\ client[c].mem \in Memories
        /\ keyword_index' = [keyword_index EXCEPT ![client[c].mem] = client[c].text]
        /\ client'[c].pc # "indexing" /\ memories' = memories
    BY <1>0, <1>11, ClientTyped DEF Indexes, Done, Idle
  <2>2. \A k \in Memories : Active(memories[k]) =>
          keyword_index'[k] = memories[k].text
    BY <1>0, <2>1 DEF IndexFollows
  <2> QED
    BY <1>0, <2>1, <2>2 DEF IndexFollows
<1> QED
  BY <1>3, <1>4, <1>5, <1>6, <1>7, <1>8, <1>9, <1>10, <1>11 DEF ClientStep

\* Every step keeps the index in step with the memories.
LEMMA IndexStep ==
  ASSUME UndoAlone, \A c, d \in Clients : c = d
  PROVE  IndexInv /\ [TidyNext]_vars => IndexInv'
<1> SUFFICES ASSUME IndexInv, [TidyNext]_vars PROVE IndexInv'
  OBVIOUS
<1>0. TidyShape /\ RunShape /\ OneAtATime /\ IndexFollows /\ TypeOK
  BY DEF IndexInv, TidyShape, TidyTypeOK
<1>1. TidyShape' /\ RunShape' /\ OneAtATime' /\ TypeOK'
  BY <1>0, ShapeStep, RunShapeStep, InTurnStep DEF TidyShape, TidyTypeOK
<1> SUFFICES IndexFollows'
  BY <1>1 DEF IndexInv
<1>2. CASE UNCHANGED <<memories, keyword_index, client, open>>
  BY <1>0, <1>2 DEF IndexFollows
<1>3. CASE ~open'
  BY <1>3 DEF IndexFollows
<1>4. CASE ClientActs
  BY <1>0, <1>1, <1>4, ClientIndexes DEF ClientActs
<1>5. CASE KeeperOpens
  <2>1. /\ \A c \in Clients : client'[c].pc # "indexing"
        /\ \A m \in Memories : Active(memories'[m]) => keyword_index'[m] = memories'[m].text
    BY <1>0, <1>5 DEF KeeperOpens, OneAtATime, Idle
  <2> QED
    BY <2>1 DEF IndexFollows
<1>6. CASE RunStep
  <2>1. ~open /\ open' = open
    BY <1>0, <1>6, RunPhases
    DEF OneAtATime, RunStep, RunKeeps, Dedups, Merges, Contradicts, Supersedes, MarksNext,
        NextPhase, Captures, Capture, Enriches, Ends
  <2> QED
    BY <1>3, <2>1
<1>7. CASE Undoes
  <2>1. ~open /\ open' = open
    BY <1>0, <1>7 DEF OneAtATime, Undoes, UndoKeeps, NoUndo
  <2> QED
    BY <1>3, <2>1
<1> QED
  BY <1>2, <1>3, <1>4, <1>5, <1>6, <1>7
  DEF TidyNext, UndoStep, KeeperEnds, TimePasses, Tick, Starts, UndoStarts, UndoEnds,
      UndoCut, UndoKeeps

\* A single client, however many runs and rollbacks come between its requests and
\* however the keeper ends, finds every active memory under its present wording.
THEOREM IndexIsRight ==
  ASSUME UndoAlone, \A c, d \in Clients : c = d
  PROVE  TidySpec => []IndexServed
<1>1. TidyInit => IndexInv
  <2> SUFFICES ASSUME TidyInit PROVE IndexInv
    OBVIOUS
  <2>1. TidyShape
    BY ShapeInit
  <2>2. RunShape /\ OneAtATime
    BY DEF TidyInit, RunShape, NoRun, OneAtATime
  <2>3. IndexFollows
    BY DEF TidyInit, Init, IndexFollows, Active, Idle
  <2> QED
    BY <2>1, <2>2, <2>3 DEF IndexInv
<1>2. IndexInv /\ [TidyNext]_vars => IndexInv'
  BY IndexStep
<1>3. IndexInv => IndexServed
  BY DEF IndexInv, IndexFollows, IndexServed, IndexCurrent
<1> QED
  BY <1>1, <1>2, <1>3, PTL DEF TidySpec

----------------------------------------------------------------------------
(* Nothing is hidden behind a memory that is not there *)

\* What a client's step does to the pointers, when nothing is restored.
LEMMA ClientPointers ==
  ASSUME TypeOK, IdsAreFresh, EditsKeepPointers, "restore" \notin Requests,
         NEW c \in Clients, ClientStep(c)
  PROVE  /\ recently_deleted \subseteq recently_deleted'
         /\ \A m \in Memories :
              /\ \/ memories'[m].superseded_by = NoMemory
                 \/ memories'[m].superseded_by = memories[m].superseded_by
              /\ Exists(m) /\ memories'[m] # NoRow =>
                   memories'[m].superseded_by = memories[m].superseded_by
              /\ Exists(m) => memories'[m] # NoRow \/ \E b \in recently_deleted' : b.mem = m
              /\ m <= last_id /\ ~Exists(m) => memories'[m] = NoRow
         /\ last_id \in Nat /\ last_id' \in Nat /\ last_id' >= last_id
<1>0. /\ memories \in [Memories -> Row \cup {NoRow}] /\ NoRow \notin Row
      /\ last_id \in Nat /\ NoRow.superseded_by = NoMemory
      /\ client[c].pc # "restoring"
  BY RowFacts, ClientAssumption DEF TypeOK, NoRow, EditsKeepPointers
<1>1. CASE UNCHANGED <<memories, recently_deleted, last_id>>
  BY <1>0, <1>1 DEF Exists
<1>2. CASE Save(c)
  <2>1. /\ memories' = [memories EXCEPT ![last_id + 1] = NewRow(last_text + 1)]
        /\ last_id' = last_id + 1 /\ recently_deleted' = recently_deleted
        /\ last_id + 1 \in Memories
    BY <1>0, <1>2, ClientAssumption DEF Save, Memories
  <2>2. ~Exists(last_id + 1) /\ NewRow(last_text + 1).superseded_by = NoMemory
    BY <1>0, <2>1 DEF IdsAreFresh, NewRow
  <2> QED
    BY <1>0, <2>1, <2>2 DEF Exists, Memories
<1>3. CASE EditCommits(c)
  <2> DEFINE m == client[c].mem
  <2>1. /\ m \in Memories /\ client[c].row \in Row /\ Exists(m)
        /\ KeepCopy(c, m, memories[m], "replaced")
        /\ memories' = [memories EXCEPT ![m] = EditedRow(client[c].row, last_text + 1)]
        /\ last_id' = last_id /\ last_text + 1 \in Texts
    BY <1>3, ClientTyped, ClientAssumption DEF EditCommits, TypeOK, Texts
  <2>2. /\ EditedRow(client[c].row, last_text + 1) \in Row
        /\ EditedRow(client[c].row, last_text + 1).superseded_by = memories[m].superseded_by
    <3>1. client[c].row.superseded_by = memories[m].superseded_by
      BY <1>3, <2>1 DEF EditsKeepPointers, EditCommits
    <3>2. EditedRow(client[c].row, last_text + 1).superseded_by = client[c].row.superseded_by
      BY <2>1 DEF EditedRow, Row
    <3> QED
      BY <2>1, <3>1, <3>2, RowFacts
  <2> HIDE DEF m
  <2>3. recently_deleted \subseteq recently_deleted'
    BY <2>1, CopyIsKept
  <2> QED
    BY <1>0, <2>1, <2>2, <2>3 DEF Exists
<1>4. CASE Delete(c)
  <2>1. PICK m \in Memories :
          /\ Exists(m) /\ KeepCopy(c, m, memories[m], "deleted")
          /\ memories' = [memories EXCEPT ![m] = NoRow]
    BY <1>4 DEF Delete
  <2>2. recently_deleted \subseteq recently_deleted' /\ \E b \in recently_deleted' : b.mem = m
    <3> DEFINE copy == [id |-> last_entry + 1, mem |-> m, row |-> memories[m],
                        kind |-> "deleted", by |-> c, at |-> now]
    <3>1. recently_deleted' = recently_deleted \cup {copy} /\ copy.mem = m
      BY <2>1 DEF KeepCopy
    <3> HIDE DEF copy
    <3> QED
      BY <3>1
  <2> QED
    BY <1>0, <1>4, <2>1, <2>2 DEF Exists, Delete
<1>5. ~RestoreReads(c) /\ ~RestoreCommits(c) /\ ~RestoreRefused(c)
  BY <1>0 DEF RestoreReads, RestoreCommits, RestoreRefused
<1> QED
  BY <1>1, <1>2, <1>3, <1>4, <1>5
  DEF ClientStep, EditReads, EditRefused, DeleteMissing, Indexes

\* A client's step leaves every edit under way with the pointer of its memory.
LEMMA ClientEditsKeepPointers ==
  ASSUME TypeOK, IdsAreFresh, EditsKeepPointers, "restore" \notin Requests,
         NEW c \in Clients, ClientStep(c)
  PROVE  EditsKeepPointers'
<1>0. /\ client \in [Clients -> ClientState] /\ last_id \in Nat /\ last_id' \in Nat /\ last_id' >= last_id
      /\ \A m \in Memories : m \in Nat
      /\ client[c].pc # "restoring"
  BY ClientPointers, ClientAssumption DEF TypeOK, EditsKeepPointers, Memories
<1>1. ASSUME NEW d \in Clients, client'[d] = client[d]
      PROVE  /\ client'[d].pc # "restoring"
             /\ client'[d].pc = "editing" =>
                  /\ client'[d].mem <= last_id'
                  /\ memories'[client'[d].mem] # NoRow =>
                       client'[d].row.superseded_by = memories'[client'[d].mem].superseded_by
  <2>1. CASE client[d].pc = "editing"
    <3> DEFINE m == client[d].mem
    <3>1. m \in Memories /\ m <= last_id
      BY <2>1, ClientTyped DEF EditsKeepPointers
    <3>2. Exists(m) => client[d].row.superseded_by = memories[m].superseded_by
      BY <2>1 DEF EditsKeepPointers
    <3> HIDE DEF m
    <3>3. memories'[m] # NoRow => Exists(m) /\ memories'[m].superseded_by = memories[m].superseded_by
      BY <3>1, ClientPointers
    <3>4. m <= last_id'
      BY <1>0, <3>1
    <3> QED
      BY <1>1, <2>1, <3>2, <3>3, <3>4 DEF m
  <2>2. CASE client[d].pc # "editing"
    BY <1>1, <2>2 DEF EditsKeepPointers
  <2> QED
    BY <2>1, <2>2
<1>2. CASE client'[c].pc \notin {"editing", "restoring"}
           /\ \A d \in Clients \ {c} : client'[d] = client[d]
  BY <1>1, <1>2 DEF EditsKeepPointers, Exists
<1>3. CASE EditReads(c)
  <2>1. PICK m \in Memories :
          /\ Exists(m) /\ memories' = memories /\ last_id' = last_id
          /\ client' = [client EXCEPT ![c] = [pc |-> "editing", mem |-> m, row |-> memories[m]]]
    BY <1>3 DEF EditReads
  <2>2. m <= last_id
    BY <1>0, <2>1 DEF IdsAreFresh
  <2>3. client'[c] = [pc |-> "editing", mem |-> m, row |-> memories[m]]
        /\ \A d \in Clients \ {c} : client'[d] = client[d]
    BY <1>0, <2>1
  <2> QED
    BY <1>1, <2>1, <2>2, <2>3 DEF EditsKeepPointers, Exists
<1>4. ASSUME NEW m, NEW text, ThenIndexes(c, m, text)
      PROVE  client'[c].pc \notin {"editing", "restoring"}
             /\ \A d \in Clients \ {c} : client'[d] = client[d]
  BY <1>0, <1>4 DEF ThenIndexes
<1>5. ASSUME Done(c)
      PROVE  client'[c].pc \notin {"editing", "restoring"}
             /\ \A d \in Clients \ {c} : client'[d] = client[d]
  BY <1>0, <1>5 DEF Done, Idle
<1>6. ~RestoreReads(c)
  BY DEF RestoreReads
<1> QED
  BY <1>2, <1>3, <1>4, <1>5, <1>6
  DEF ClientStep, Save, EditCommits, EditRefused, Delete, DeleteMissing, RestoreCommits,
      RestoreRefused, Indexes

\* Pointers that were behind something stay so while nothing leaves the bin.
LEMMA PointersCarry ==
  ASSUME recently_deleted \subseteq recently_deleted'
  PROVE  /\ \A m : InBin(m) => InBin(m)'
         /\ \A rows : PointersIn(rows) => PointersIn(rows)'
<1>1. \A m : InBin(m) => InBin(m)'
  BY DEF InBin
<1>2. ASSUME NEW rows, PointersIn(rows) PROVE PointersIn(rows)'
  BY <1>1, <1>2 DEF PointersIn
<1> QED
  BY <1>1, <1>2

\* What is enough for nothing to be hidden behind a memory that is not there.
LEMMA HiddenCarries ==
  ASSUME TypeOK, HiddenBehindReal, undone_late => undone_late',
         \A m \in Memories : Found(m) => Found(m)',
         \A m \in Memories : \/ memories'[m].superseded_by = NoMemory
                             \/ memories'[m].superseded_by = memories[m].superseded_by
                             \/ \E k \in Memories : memories'[m].superseded_by = k /\ Found(k)'
  PROVE  HiddenBehindReal'
<1>1. ASSUME ~undone_late', NEW m \in Memories, memories'[m].superseded_by # NoMemory
      PROVE  \E k \in Memories : memories'[m].superseded_by = k /\ Found(k)'
  <2>1. \A k \in Memories : memories[k].superseded_by # NoMemory =>
          Found(memories[k].superseded_by)
    BY <1>1, ZenonT(30) DEF HiddenBehindReal, Found, InBin
  <2>2. CASE memories'[m].superseded_by = memories[m].superseded_by
    <3>1. memories[m] \in Row
      BY <1>1, <2>2 DEF TypeOK, NoRow
    <3>2. memories[m].superseded_by \in Memories
      BY <1>1, <2>2, <3>1 DEF Row
    <3>3. Found(memories[m].superseded_by)
      BY <1>1, <2>1, <2>2
    <3>4. PICK k \in Memories : k = memories[m].superseded_by
      BY <3>2
    <3>5. Found(k)
      BY <3>3, <3>4
    <3> QED
      BY <2>2, <3>4, <3>5
  <2> QED
    BY <1>1, <2>2
<1>2. ASSUME NEW m \in Memories, NEW k \in Memories, memories'[m].superseded_by = k, Found(k)'
      PROVE  \/ memories'[memories'[m].superseded_by] # NoRow
             \/ \E b \in recently_deleted' : b.mem = memories'[m].superseded_by
  BY <1>2 DEF Found, InBin, Exists
<1> QED
  BY <1>1, <1>2, ZenonT(60) DEF HiddenBehindReal, Exists

\* What is enough for a checkpoint to have all that points to what its run made.
LEMMA HasPointersCarries ==
  ASSUME NEW cp \in Checkpoint, NEW d, SameCheckpoint(d, cp), HasPointers(cp),
         recently_deleted \subseteq recently_deleted',
         \A m \in Memories : Found(m) => Found(m)',
         \A m \in Memories : \/ memories'[m].superseded_by = NoMemory
                             \/ memories'[m].superseded_by = memories[m].superseded_by,
         undo'.n = d.n => \A m \in d.modified \ undo'.todo :
                            memories'[m].superseded_by = d.before[m].superseded_by
  PROVE  HasPointers(d)'
<1>1. /\ d.before = cp.before /\ d.modified = cp.modified /\ d.created = cp.created
      /\ cp.created \subseteq Memories /\ NoMemory \notin cp.created
  BY DEF SameCheckpoint, Checkpoint, Memories, NoMemory
<1>2. \A m \in Memories : d.before[m] # NoRow => Found(m)'
  BY <1>1 DEF HasPointers
<1>3. \A m \in d.created : memories'[m].superseded_by = NoMemory
  BY <1>1 DEF HasPointers
<1>4. ASSUME NEW m \in Memories, memories'[m].superseded_by \in d.created
      PROVE  m \in d.modified \/ \E b \in recently_deleted' : b.mem = memories'[m].superseded_by
  BY <1>1, <1>4 DEF HasPointers, InBin
<1> QED
  BY <1>1, <1>2, <1>3, <1>4 DEF HasPointers, InBin

\* Where a run points the memories it marks.
LEMMA RewritePointers ==
  ASSUME RestoreInv, RunPoints, RunStep, ~Enriches, run.pc \in Rewriting, NEW m \in Memories
  PROVE  \/ memories'[m].superseded_by = memories[m].superseded_by
         \/ /\ run.read[m] # NoRow
            /\ memories'[m].superseded_by \in Memories
            /\ Exists(memories'[m].superseded_by)
<1>0. /\ memories \in AllMemories /\ run \in Run /\ TypeOK
      /\ run.left \subseteq Memories /\ run.todo \subseteq Memories
      /\ run.into \in Memories \cup {NoMemory} /\ NoRow \notin Row
      /\ \A k \in Memories : Exists(k) => memories[k] \in Row
      /\ \A k \in run.left : run.read[k] # NoRow
      /\ run.into # NoMemory => Exists(run.into) /\ \A k \in run.todo : run.read[k] # NoRow
  BY RowFacts
  DEF RestoreInv, RunPoints, TidyShape, TidyTypeOK, TypeOK, AllMemories, Run, Exists
<1>1. CASE memories' = memories
  BY <1>1
<1>2. CASE Dedups
  <2>1. PICK S \in SUBSET run.left, survivor \in Memories :
          /\ survivor \in S /\ \A k \in S : Exists(k)
          /\ memories' = [k \in Memories |->
               IF k \in S \ {survivor} THEN [memories[k] EXCEPT !.superseded_by = survivor]
                                       ELSE memories[k]]
    BY <1>0, <1>2 DEF Dedups
  <2>2. CASE m \in S \ {survivor}
    <3>1. memories'[m] = [memories[m] EXCEPT !.superseded_by = survivor] /\ memories[m] \in Row
      BY <1>0, <2>1, <2>2
    <3>2. memories'[m].superseded_by = survivor
      BY <3>1 DEF Row
    <3> QED
      BY <1>0, <2>1, <2>2, <3>2
  <2>3. CASE m \notin S \ {survivor}
    BY <2>1, <2>3
  <2> QED
    BY <2>2, <2>3
<1>3. CASE Merges
  <2>1. memories' = [memories EXCEPT ![last_id + 1] = NewRow(last_text + 1)]
    BY <1>3 DEF Merges, Changes
  <2>2. m = last_id + 1 => memories[m].superseded_by = NoMemory
    BY ClientAssumption DEF RestoreInv, IdsAreFresh, TidyShape, TidyTypeOK, TypeOK, Memories,
                            Exists, NoRow
  <2>3. NewRow(last_text + 1).superseded_by = NoMemory
    BY DEF NewRow
  <2> QED
    BY <1>0, <2>1, <2>2, <2>3 DEF AllMemories
<1>4. CASE Supersedes
  <2>1. PICK k \in run.todo :
          \/ /\ Exists(k)
             /\ memories' = [memories EXCEPT ![k] = [memories[k] EXCEPT !.superseded_by = run.into]]
          \/ memories' = memories
    BY <1>4 DEF Supersedes, Changes
  <2>2. Exists(k) => [memories[k] EXCEPT !.superseded_by = run.into].superseded_by = run.into
    BY <1>0 DEF Row
  <2>3. run.into # NoMemory
    BY <1>4 DEF Supersedes
  <2> QED
    BY <1>0, <2>1, <2>2, <2>3 DEF AllMemories
<1>5. CASE MarksNext
  <2> DEFINE mark == IF run.pc = "archiving" THEN "archived" ELSE "noted"
  <2>1. PICK k \in run.todo :
          \/ /\ Exists(k)
             /\ memories' = [memories EXCEPT ![k] = [memories[k] EXCEPT !.marks = @ \cup {mark}]]
          \/ memories' = memories
    BY <1>5 DEF MarksNext, Changes
  <2> HIDE DEF mark
  <2>2. Exists(k) => [memories[k] EXCEPT !.marks = @ \cup {mark}].superseded_by
                       = memories[k].superseded_by
    BY <1>0 DEF Row
  <2> QED
    BY <1>0, <2>1, <2>2 DEF AllMemories
<1> QED
  BY <1>1, <1>2, <1>3, <1>4, <1>5
  DEF RunStep, Contradicts, NextPhase, Captures, Capture, Ends

\* Whatever is not a client's step or the clock's leaves no client at work.
LEMMA EditsStep ==
  ASSUME RestoreInv, PointerInv, "restore" \notin Requests, [TidyNext]_vars
  PROVE  EditsKeepPointers'
<1>0. TypeOK /\ IdsAreFresh /\ EditsKeepPointers /\ OneAtATime
  BY DEF RestoreInv, PointerInv, TidyShape, TidyTypeOK
<1>1. CASE ClientActs
  BY <1>0, <1>1, ClientEditsKeepPointers DEF ClientActs
<1>2. CASE UNCHANGED <<client, memories, last_id>>
  BY <1>0, <1>2 DEF EditsKeepPointers, Exists
<1>3. CASE \A c \in Clients : client'[c] = Idle
  BY <1>3 DEF EditsKeepPointers, Idle
<1>4. KeeperEnds \/ RunStep \/ Undoes => \A c \in Clients : client'[c] = Idle
  <2>1. KeeperEnds => \A c \in Clients : client'[c] = Idle
    BY DEF KeeperEnds
  <2>2. ~open => \A c \in Clients : client[c] = Idle
    BY <1>0 DEF OneAtATime
  <2>3. RunStep => ~open /\ client' = client
    BY <1>0, RunPhases
    DEF OneAtATime, RestoreInv, RunStep, Dedups, Merges, Contradicts, Supersedes, MarksNext,
        NextPhase, Captures, Capture, Enriches, Ends, RunKeeps
  <2>4. Undoes => ~open /\ client' = client
    <3>1. ASSUME Undoes PROVE undo # NoUndo
      BY <3>1 DEF Undoes, NoUndo
    <3> QED
      BY <1>0, <3>1 DEF OneAtATime, Undoes, UndoKeeps
  <2> QED
    BY <2>1, <2>2, <2>3, <2>4
<1> QED
  BY <1>1, <1>2, <1>3, <1>4
  DEF TidyNext, UndoStep, KeeperOpens, TimePasses, Tick, Starts, UndoStarts, UndoEnds, UndoCut,
      UndoKeeps

\* What follows from the history of rollbacks only ever growing.
LEMMA LateStays ==
  ASSUME [TidyNext]_vars
  PROVE  undone_late => undone_late'
BY DEF TidyNext, RunStep, UndoStep, ClientActs, KeeperEnds, KeeperOpens, TimePasses, Starts,
       Dedups, Merges, Contradicts, Supersedes, MarksNext, NextPhase, Captures, Capture,
       Enriches, Ends, RunKeeps, UndoStarts, Undoes, UndoEnds, UndoCut

\* Nothing leaves the bin, since clients alone act on it and none erases.
LEMMA BinGrows ==
  ASSUME RestoreInv, PointerInv, "restore" \notin Requests, [TidyNext]_vars
  PROVE  recently_deleted \subseteq recently_deleted'
<1>1. CASE ClientActs
  BY <1>1, ClientPointers DEF ClientActs, RestoreInv, PointerInv, TidyShape, TidyTypeOK
<1>2. CASE recently_deleted' = recently_deleted
  BY <1>2
<1> QED
  BY <1>1, <1>2
  DEF TidyNext, RunStep, UndoStep, KeeperEnds, KeeperOpens, TimePasses, Tick, Starts,
      Dedups, Merges, Contradicts, Supersedes, MarksNext, NextPhase, Captures, Capture,
      Enriches, Ends, RunKeeps, UndoStarts, Undoes, UndoEnds, UndoCut, UndoKeeps

\* A step that is not one of a rollback points a memory anew only in a run that
\* rewrites, and loses none.
LEMMA PointersStay ==
  ASSUME RestoreInv, PointerInv, "restore" \notin Requests, [TidyNext]_vars, ~Undoes,
         NEW m \in Memories
  PROVE  /\ Found(m) => Found(m)'
         /\ \/ memories'[m].superseded_by = NoMemory
            \/ memories'[m].superseded_by = memories[m].superseded_by
            \/ /\ run.pc \in Rewriting /\ run.read[m] # NoRow
               /\ memories'[m].superseded_by \in Memories
               /\ Found(memories'[m].superseded_by)
<1>0. /\ TidyShape /\ TypeOK /\ RunShape /\ IdsAreFresh /\ EditsKeepPointers /\ ReadStands
      /\ RunPoints /\ NoRow \notin Row
      /\ memories[m] \in Row \cup {NoRow}
  BY RowFacts DEF RestoreInv, PointerInv, TidyShape, TidyTypeOK, TypeOK
<1>1. InBin(m) => InBin(m)'
  BY BinGrows DEF InBin
<1>2. CASE ClientActs
  <2>1. /\ \/ memories'[m].superseded_by = NoMemory
           \/ memories'[m].superseded_by = memories[m].superseded_by
        /\ Exists(m) => memories'[m] # NoRow \/ \E b \in recently_deleted' : b.mem = m
    BY <1>0, <1>2, ClientPointers DEF ClientActs
  <2> QED
    BY <1>1, <2>1 DEF Found, InBin, Exists
<1>3. CASE memories' = memories
  BY <1>1, <1>3 DEF Found, Exists
<1>4. CASE Enriches
  <2>1. Alike(memories'[m], memories[m])
    BY <1>0, <1>4, EnrichesAlike
  <2>2. memories'[m] \in Row \cup {NoRow}
    <3>1. TypeOK'
      BY <1>0, TablesStep DEF TidyShape, TidyTypeOK
    <3> QED
      BY <3>1 DEF TypeOK
  <2>3. /\ memories'[m].superseded_by = memories[m].superseded_by
        /\ memories'[m] = NoRow <=> memories[m] = NoRow
    BY <1>0, <2>1, <2>2, AlikeRows
  <2> QED
    BY <1>1, <2>3 DEF Found, Exists
<1>5. CASE RunStep /\ ~Enriches /\ memories' # memories
  <2>1. run.pc \in Rewriting
    BY <1>0, <1>5, RunPhases
    DEF RunStep, Rewriting, Ends
  <2>2. \/ memories'[m].superseded_by = memories[m].superseded_by
        \/ /\ run.read[m] # NoRow
           /\ memories'[m].superseded_by \in Memories
           /\ Exists(memories'[m].superseded_by)
    BY <1>0, <1>5, <2>1, RewritePointers
  <2>3. Exists(m) => memories'[m] # NoRow
    BY <1>0, <1>5, RewritesKeepRows
  <2> QED
    BY <1>1, <2>1, <2>2, <2>3 DEF Found, Exists
<1> QED
  BY <1>2, <1>3, <1>4, <1>5
  DEF TidyNext, UndoStep, KeeperEnds, KeeperOpens, TimePasses, Tick, Starts, UndoStarts,
      UndoEnds, UndoCut

\* A run goes on with what it read, and only drops memories from what it lists.
LEMMA RunPointsStep ==
  ASSUME UndoAlone, RestoreInv, PointerInv, "restore" \notin Requests, [TidyNext]_vars
  PROVE  RunPoints'
<1>0. /\ TidyShape /\ TypeOK /\ RunShape /\ IdsAreFresh /\ OneAtATime /\ RunPoints
      /\ run \in Run /\ memories \in AllMemories /\ NoRow \notin Row
      /\ \A m \in Memories : memories[m] = NoRow => memories[m].superseded_by = NoMemory
      /\ undone_late => undone_late'
  BY RowFacts, LateStays
  DEF RestoreInv, PointerInv, TidyShape, TidyTypeOK, TypeOK, AllMemories, NoRow
<1>1. CASE Starts
  <2>1. /\ run'.read = memories /\ run'.left = ActiveMemories /\ run'.into = NoMemory
        /\ memories' = memories /\ recently_deleted' = recently_deleted
        /\ undone_late' = undone_late
    BY <1>1 DEF Starts, NoRun
  <2>2. ~undone_late => PointersIn(memories)
    BY ZenonT(30) DEF PointerInv, HiddenBehindReal, PointersIn, InBin, Exists
  <2>3. ~undone_late' => PointersIn(run.read)'
    BY <2>1, <2>2 DEF PointersIn, InBin
  <2>4. \A m \in run'.left : run'.read[m] # NoRow
    BY <2>1 DEF ActiveMemories, Active, NoRow
  <2> QED
    BY <1>0, <2>1, <2>3, <2>4 DEF RunPoints
<1>2. CASE ~Starts /\ run'.pc \in Rewriting
  <2>1. run.pc \in Rewriting /\ run'.read = run.read
    BY <1>0, <1>2, PhaseStep
  <2>2. /\ ~undone_late => PointersIn(run.read)
        /\ \A m \in Memories : run.read[m] = NoRow => memories[m].superseded_by = NoMemory
        /\ \A m \in run.left : run.read[m] # NoRow
        /\ run.into # NoMemory => Exists(run.into) /\ \A m \in run.todo : run.read[m] # NoRow
    BY <1>0, <2>1 DEF RunPoints
  <2>3. ~undone_late' => PointersIn(run.read)'
    <3>1. recently_deleted \subseteq recently_deleted'
      BY BinGrows
    <3> QED
      BY <1>0, <2>1, <2>2, <3>1 DEF PointersIn, InBin
  <2>4. ASSUME NEW m \in Memories, run.read[m] = NoRow
        PROVE  memories'[m].superseded_by = NoMemory
    <3>1. ~Undoes
      BY <1>0, <2>1 DEF OneAtATime, Undoes, NoUndo, Rewriting
    <3> QED
      BY <2>2, <2>4, <3>1, PointersStay
  <2>5. ASSUME NEW m \in Memories, Exists(m) PROVE memories'[m] # NoRow
    <3>1. RunStep => ~Enriches
      BY <1>0, <2>1, RunPhases DEF Rewriting
    <3> QED
      BY <1>0, <2>1, <2>5, <3>1, RunAlone, RewritesKeepRows DEF Rewriting, Exists
  <2>6. /\ run.into \in Memories \cup {NoMemory}
        /\ run.todo = {} => run.into = NoMemory
    BY <1>0 DEF Run, RunShape
  <2>7. CASE run' = run
    BY <2>2, <2>3, <2>4, <2>5, <2>6, <2>7 DEF RunPoints, Exists
  <2>8. CASE Merges
    <3>1. /\ run'.into = last_id + 1 /\ run'.todo \subseteq run.left
          /\ run'.left \subseteq run.left
          /\ memories' = [memories EXCEPT ![last_id + 1] = NewRow(last_text + 1)]
          /\ last_id + 1 \in Memories
      <4>1. last_id \in Nat /\ last_id < MaxMemories
        BY <1>0, <2>8 DEF Merges, TypeOK
      <4>2. PICK S \in SUBSET run.left :
              run' = [run EXCEPT !.left = @ \ S, !.todo = S, !.into = last_id + 1]
        BY <2>8 DEF Merges
      <4>3. run'.into = last_id + 1 /\ run'.todo = S /\ run'.left = run.left \ S
        BY <1>0, <4>2 DEF Run
      <4>4. last_id + 1 \in Memories
        BY <4>1, ClientAssumption DEF Memories
      <4>5. memories' = [memories EXCEPT ![last_id + 1] = NewRow(last_text + 1)]
        BY <2>8 DEF Merges, Changes
      <4> QED
        BY <4>3, <4>4, <4>5
    <3>2. memories'[last_id + 1] = NewRow(last_text + 1)
      BY <1>0, <3>1 DEF AllMemories
    <3>3. NewRow(last_text + 1).text # NoRow.text
      <4>1. last_text \in Nat
        BY <1>0, ClientAssumption DEF TypeOK, Texts
      <4> QED
        BY <4>1 DEF NewRow, NoRow
    <3>4. memories'[run'.into] # NoRow
      BY <3>1, <3>2, <3>3
    <3> QED
      BY <2>1, <2>2, <2>3, <2>4, <3>1, <3>4 DEF RunPoints, Exists
  <2>9. CASE Supersedes
    <3>1. /\ run'.left = run.left /\ run'.todo \subseteq run.todo
          /\ run'.into \in {run.into, NoMemory}
      <4>1. PICK m \in run.todo :
              \/ run' = [run EXCEPT !.todo = @ \ {m},
                                    !.into = IF run.todo = {m} THEN NoMemory ELSE @]
              \/ run' = [run EXCEPT !.todo = {}, !.into = NoMemory]
        BY <2>9 DEF Supersedes
      <4> QED
        BY <1>0, <4>1 DEF Run
    <3> QED
      BY <2>1, <2>2, <2>3, <2>4, <2>5, <2>6, <3>1 DEF RunPoints, Exists
  <2>10. CASE run'.left \subseteq run.left /\ run'.into = NoMemory
    BY <2>1, <2>2, <2>3, <2>4, <2>10 DEF RunPoints, Exists
  <2>11. Dedups \/ Contradicts \/ MarksNext \/ NextPhase =>
           run'.left \subseteq run.left /\ run'.into = NoMemory
    <3>1. ASSUME Dedups \/ Contradicts PROVE run'.left \subseteq run.left /\ run'.into = run.into
      BY <1>0, <3>1 DEF Dedups, Contradicts, Run
    <3>2. Dedups \/ Contradicts => run.todo = {}
      BY DEF Dedups, Contradicts, Cluster
    <3>3. MarksNext => run'.left = run.left /\ run'.into = run.into /\ run.into = NoMemory
      BY <1>0 DEF MarksNext, Run
    <3>4. NextPhase => run'.left = {} /\ run'.into = run.into /\ run.todo = {}
      BY <1>0 DEF NextPhase, Run
    <3> QED
      BY <2>6, <3>1, <3>2, <3>3, <3>4
  <2>12. ~Captures /\ ~Ends /\ ~Enriches
    <3>1. Captures => run'.pc = "enriching"
      BY <1>0 DEF Captures, Capture, Run
    <3>2. Ends => run'.pc = "idle"
      BY DEF Ends, NoRun
    <3>3. Enriches => run.pc = "enriching"
      BY DEF Enriches
    <3> QED
      BY <1>2, <2>1, <3>1, <3>2, <3>3 DEF Rewriting
  <2>13. ~ClientActs /\ ~Undoes
    BY <1>0, <2>1 DEF OneAtATime, ClientActs, Undoes, NoUndo, Rewriting
  <2> QED
    BY <1>2, <2>7, <2>8, <2>9, <2>10, <2>11, <2>12, <2>13
    DEF TidyNext, RunStep, UndoStep, KeeperEnds, KeeperOpens, TimePasses, Tick, UndoStarts,
        UndoEnds, UndoCut
<1> QED
  BY <1>1, <1>2 DEF RunPoints

\* Among all that points somewhere, a rollback leaves nothing pointing at what
\* it removes.
LEMMA HiddenStep ==
  ASSUME RestoreInv, PointerInv, "restore" \notin Requests, [TidyNext]_vars
  PROVE  HiddenBehindReal'
<1>0. /\ TidyShape /\ TypeOK /\ HiddenBehindReal /\ UndoneSoFar
      /\ memories \in AllMemories /\ checkpoints \subseteq Checkpoint
      /\ undo.todo \subseteq Memories /\ (undo.n # 0 \/ undo.todo = {})
      /\ undone_late => undone_late'
  BY LateStays
  DEF RestoreInv, PointerInv, TidyShape, TidyTypeOK, TypeOK, AllMemories, NumbersKnown, NoUndo
<1>1. CASE ~Undoes
  <2>1. \A m \in Memories : Found(m) => Found(m)'
    BY <1>1, PointersStay
  <2>2. ASSUME NEW m \in Memories
        PROVE  \/ memories'[m].superseded_by = NoMemory
               \/ memories'[m].superseded_by = memories[m].superseded_by
               \/ \E k \in Memories : memories'[m].superseded_by = k /\ Found(k)'
    BY <1>1, <2>1, PointersStay
  <2> QED
    BY <1>0, <2>1, <2>2, HiddenCarries
<1>2. CASE Undoes /\ undone_late'
  BY <1>2 DEF HiddenBehindReal
<1>3. CASE Undoes /\ ~undone_late'
  <2>1. PICK cp \in checkpoints, m \in undo.todo :
          /\ cp.n = undo.n
          /\ \/ m \in cp.modified /\ memories' = [memories EXCEPT ![m] = cp.before[m]]
             \/ undo.todo \subseteq cp.created /\ memories' = [memories EXCEPT ![m] = NoRow]
    BY <1>3 DEF Undoes
  <2>2. /\ recently_deleted' = recently_deleted /\ ~undone_late
        /\ m \in Memories /\ cp \in Checkpoint /\ undo.n # 0
    BY <1>0, <1>3, <2>1 DEF Undoes, UndoKeeps
  <2>3. PointersIn(cp.before) /\ HasPointers(cp)
    BY <2>1, <2>2 DEF PointerInv, LatestHasPointers
  <2>4. Undone(cp)
    BY <1>0 DEF UndoneSoFar
  <2>5. \A k \in Memories : InBin(k) => InBin(k)'
    BY <2>2 DEF InBin
  <2>6. \A k \in Memories \ {m} : memories'[k] = memories[k]
    BY <1>0, <2>1 DEF AllMemories
  <2>7. ASSUME NEW k \in Memories, memories[k].superseded_by # NoMemory
        PROVE  memories[k].superseded_by \in Memories /\ Found(memories[k].superseded_by)
    <3>1. memories[k] \in Row
      BY <1>0, <2>7 DEF AllMemories, NoRow
    <3>2. memories[k].superseded_by \in Memories
      BY <2>7, <3>1 DEF Row
    <3>3. Found(memories[k].superseded_by)
      BY <1>0, <2>2, <2>7, ZenonT(30) DEF HiddenBehindReal, Found, InBin
    <3> QED
      BY <3>2, <3>3
  <2>8. CASE m \in cp.modified /\ memories' = [memories EXCEPT ![m] = cp.before[m]]
    <3>1. memories'[m] = cp.before[m] /\ cp.before[m] # NoRow
      BY <1>0, <2>2, <2>4, <2>8 DEF AllMemories, Undone
    <3>2. \A k \in Memories : Found(k) => Found(k)'
      BY <2>5, <2>6, <3>1 DEF Found, Exists
    <3>3. cp.before[m] \in Row
      BY <2>2, <3>1 DEF Checkpoint, AllMemories
    <3>4. cp.before[m].superseded_by \in Memories \cup {NoMemory}
      BY <3>3 DEF Row
    <3>5. cp.before[m].superseded_by # NoMemory => Found(cp.before[m].superseded_by)
      BY <2>2, <2>3, <3>4 DEF PointersIn, HasPointers, Found
    <3>6. ASSUME NEW k \in Memories
          PROVE  \/ memories'[k].superseded_by = NoMemory
                 \/ memories'[k].superseded_by = memories[k].superseded_by
                 \/ \E j \in Memories : memories'[k].superseded_by = j /\ Found(j)'
      <4>1. CASE k # m
        BY <2>6, <4>1
      <4>2. CASE k = m /\ cp.before[m].superseded_by # NoMemory
        <5>1. PICK j \in Memories : j = cp.before[m].superseded_by
          BY <3>4, <4>2
        <5>2. Found(j)
          BY <3>5, <4>2, <5>1
        <5> QED
          BY <3>1, <3>2, <4>2, <5>1, <5>2
      <4> QED
        BY <3>1, <4>1, <4>2
    <3> QED
      BY <1>0, <3>2, <3>6, HiddenCarries
  <2>9. CASE undo.todo \subseteq cp.created /\ memories' = [memories EXCEPT ![m] = NoRow]
    <3>1. /\ memories'[m] = NoRow /\ NoRow.superseded_by = NoMemory
          /\ m \in cp.created /\ cp.before[m] = NoRow
          /\ undo.todo \cap cp.modified = {}
      BY <1>0, <2>1, <2>2, <2>4, <2>9 DEF AllMemories, Undone, NoRow
    <3>2. \A k \in Memories : Found(k) => Found(k)' \/ k = m
      BY <2>5, <2>6 DEF Found, Exists
    <3>3. ASSUME NEW k \in Memories, memories[k].superseded_by = m PROVE InBin(m)
      <4>1. k \in cp.modified \/ InBin(m)
        BY <2>3, <3>1, <3>3 DEF HasPointers
      <4>2. CASE k \in cp.modified
        <5>1. cp.before[k].superseded_by = m
          BY <2>1, <2>3, <3>1, <3>3, <4>2 DEF HasPointers
        <5>2. m # NoMemory
          BY <2>2 DEF Memories, NoMemory
        <5> QED
          BY <2>3, <3>1, <5>1, <5>2 DEF PointersIn
      <4> QED
        BY <4>1, <4>2
    <3>4. ASSUME NEW k \in Memories, memories'[k].superseded_by # NoMemory
          PROVE  \E j \in Memories : memories'[k].superseded_by = j /\ Found(j)'
      <4>1. k # m /\ memories'[k] = memories[k]
        BY <2>6, <3>1, <3>4
      <4>2. PICK j \in Memories : j = memories[k].superseded_by /\ Found(j)
        BY <2>7, <3>4, <4>1
      <4>3. j = m => Found(j)'
        BY <2>5, <3>3, <4>2 DEF Found
      <4> QED
        BY <3>2, <4>1, <4>2, <4>3
    <3>5. ASSUME NEW k \in Memories, memories'[k].superseded_by # NoMemory
          PROVE  \/ memories'[memories'[k].superseded_by] # NoRow
                 \/ \E b \in recently_deleted' : b.mem = memories'[k].superseded_by
      <4>1. PICK j \in Memories : memories'[k].superseded_by = j /\ Found(j)'
        BY <3>4, <3>5
      <4> QED
        BY <4>1 DEF Found, InBin, Exists
    <3> QED
      BY <3>5, ZenonT(60) DEF HiddenBehindReal, Exists
  <2> QED
    BY <2>1, <2>8, <2>9
<1> QED
  BY <1>1, <1>2, <1>3

\* The checkpoint a run captures has all that points to what the run made.
LEMMA CapturedPointers ==
  ASSUME RestoreInv, PointerInv, Captures, ~undone_late,
         NEW new, new.n = runs, new.before = run.read,
         new.modified = Differs(run.read).modified, new.created = Differs(run.read).created
  PROVE  PointersIn(new.before)' /\ HasPointers(new)'
<1>1. /\ run.pc = "archiving" /\ undo.n = 0 /\ runs # 0
      /\ memories' = memories /\ undo' = undo /\ recently_deleted' = recently_deleted
      /\ memories \in AllMemories /\ run.read \in AllMemories
  BY DEF Captures, Capture, RunKeeps, RestoreInv, OneAtATime, NoUndo, TidyShape, NumbersKnown,
         TidyTypeOK, TypeOK, AllMemories, Run
<1>2. /\ PointersIn(run.read)
      /\ \A m \in Memories : run.read[m] = NoRow => memories[m].superseded_by = NoMemory
      /\ \A m \in Memories : run.read[m] # NoRow => Exists(m)
  BY <1>1 DEF PointerInv, RunPoints, Rewriting, RestoreInv, ReadStands
<1>3. /\ new.modified = {m \in Memories : run.read[m] # NoRow /\ Exists(m) /\ memories[m] # run.read[m]}
      /\ new.created = {m \in Memories : run.read[m] = NoRow /\ Exists(m)}
  BY DEF Differs
<1>4. PointersIn(new.before)'
  BY <1>1, <1>2 DEF PointersIn, InBin
<1>5. \A m \in Memories : new.before[m] # NoRow => Found(m)'
  BY <1>1, <1>2 DEF Found, Exists
<1>6. \A m \in new.created : memories'[m].superseded_by = NoMemory
  BY <1>1, <1>2, <1>3
<1>7. ASSUME NEW m \in Memories, memories[m].superseded_by \in new.created, m \notin new.modified
      PROVE  InBin(memories[m].superseded_by)
  <2>1. memories[m].superseded_by # NoMemory
    BY <1>3, <1>7 DEF Memories, NoMemory
  <2>2. memories[m] = run.read[m]
    BY <1>2, <1>3, <1>7, <2>1
  <2> QED
    BY <1>2, <1>3, <1>7, <2>1, <2>2 DEF PointersIn
<1>8. \A m \in Memories : memories'[m].superseded_by \in new.created =>
        m \in new.modified \/ \E b \in recently_deleted' : b.mem = memories'[m].superseded_by
  BY <1>1, <1>7 DEF InBin
<1> QED
  BY <1>1, <1>4, <1>5, <1>6, <1>8 DEF HasPointers, InBin

\* Undoing a memory gives it the pointer the checkpoint has of it.
LEMMA UndoesPointers ==
  ASSUME RestoreInv, Undoes, ~undone_late, NEW cp \in checkpoints, cp.n = undo.n, HasPointers(cp)
  PROVE  HasPointers(cp)'
<1>0. /\ memories \in AllMemories /\ checkpoints \subseteq Checkpoint
      /\ NumbersUnique(checkpoints) /\ undo \in [n : 0..MaxRuns, todo : SUBSET Memories]
      /\ Undone(cp) /\ cp \in Checkpoint
  BY DEF RestoreInv, TidyShape, TidyTypeOK, TypeOK, AllMemories, NumbersKnown, UndoneSoFar
<1>1. PICK m \in undo.todo :
        /\ \/ m \in cp.modified /\ memories' = [memories EXCEPT ![m] = cp.before[m]]
           \/ undo.todo \subseteq cp.created /\ memories' = [memories EXCEPT ![m] = NoRow]
        /\ undo' = [undo EXCEPT !.todo = @ \ {m}]
  <2>1. PICK e \in checkpoints, m \in undo.todo :
          /\ e.n = undo.n
          /\ \/ m \in e.modified /\ memories' = [memories EXCEPT ![m] = e.before[m]]
             \/ undo.todo \subseteq e.created /\ memories' = [memories EXCEPT ![m] = NoRow]
          /\ undo' = [undo EXCEPT !.todo = @ \ {m}]
    BY DEF Undoes
  <2>2. e = cp
    BY <1>0, <2>1 DEF NumbersUnique
  <2> QED
    BY <2>1, <2>2
<1>2. /\ m \in Memories /\ undo'.n = undo.n /\ undo'.todo = undo.todo \ {m}
      /\ recently_deleted' = recently_deleted
      /\ \A k \in Memories : k # m => memories'[k] = memories[k]
  BY <1>0, <1>1 DEF Undoes, UndoKeeps, AllMemories
<1>3. \A k \in Memories : InBin(k) => InBin(k)'
  BY <1>2 DEF InBin
<1>4. /\ \A k \in Memories : cp.before[k] # NoRow => Found(k)
      /\ \A k \in cp.created : memories[k].superseded_by = NoMemory
      /\ \A k \in Memories : memories[k].superseded_by \in cp.created =>
           k \in cp.modified \/ InBin(memories[k].superseded_by)
      /\ \A k \in cp.modified \ undo.todo :
           memories[k].superseded_by = cp.before[k].superseded_by
  BY DEF HasPointers
<1>5. /\ cp.modified \subseteq Memories /\ cp.created \subseteq Memories
      /\ \A k \in cp.modified : cp.before[k] # NoRow
      /\ \A k \in cp.created : cp.before[k] = NoRow
  BY <1>0 DEF Checkpoint, Undone
<1>6. CASE m \in cp.modified /\ memories'[m] = cp.before[m]
  <2>1. \A k \in Memories : cp.before[k] # NoRow => Found(k)'
    BY <1>2, <1>3, <1>4, <1>5, <1>6 DEF Found, Exists
  <2>2. \A k \in cp.created : memories'[k].superseded_by = NoMemory
    BY <1>2, <1>4, <1>5, <1>6
  <2>3. \A k \in Memories : memories'[k].superseded_by \in cp.created =>
          k \in cp.modified \/ \E b \in recently_deleted' : b.mem = memories'[k].superseded_by
    BY <1>2, <1>4, <1>6 DEF InBin
  <2>4. \A k \in cp.modified \ undo'.todo :
          memories'[k].superseded_by = cp.before[k].superseded_by
    BY <1>2, <1>4, <1>5, <1>6
  <2> QED
    BY <2>1, <2>2, <2>3, <2>4 DEF HasPointers, InBin
<1>7. CASE m \in cp.created /\ memories'[m] = NoRow
  <2>0. NoRow.superseded_by = NoMemory /\ NoMemory \notin cp.created
    BY <1>5 DEF NoRow, Memories, NoMemory
  <2>1. \A k \in Memories : cp.before[k] # NoRow => Found(k)'
    BY <1>2, <1>3, <1>4, <1>5, <1>7 DEF Found, Exists
  <2>2. \A k \in cp.created : memories'[k].superseded_by = NoMemory
    BY <1>2, <1>4, <1>5, <1>7, <2>0
  <2>3. \A k \in Memories : memories'[k].superseded_by \in cp.created =>
          k \in cp.modified \/ \E b \in recently_deleted' : b.mem = memories'[k].superseded_by
    BY <1>2, <1>4, <1>7, <2>0 DEF InBin
  <2>4. \A k \in cp.modified \ undo'.todo :
          memories'[k].superseded_by = cp.before[k].superseded_by
    BY <1>2, <1>4, <1>5, <1>7
  <2> QED
    BY <2>1, <2>2, <2>3, <2>4 DEF HasPointers, InBin
<1> QED
  BY <1>0, <1>1, <1>2, <1>6, <1>7 DEF AllMemories

\* Where a step neither makes nor captures a checkpoint, nor rolls one back, the
\* last run's has the pointers it had.
LEMMA LatestCarries ==
  ASSUME RestoreInv, PointerInv, "restore" \notin Requests, [TidyNext]_vars, ~undone_late,
         ~Undoes, run.pc \notin Rewriting,
         NEW d, NEW cp \in checkpoints, SameCheckpoint(d, cp), HasPointers(cp),
         undo'.n = d.n => cp.modified \ undo'.todo = {}
  PROVE  HasPointers(d)'
<1>1. cp \in Checkpoint
  BY DEF RestoreInv, TidyShape, TidyTypeOK
<1>2. /\ recently_deleted \subseteq recently_deleted'
      /\ \A m \in Memories : Found(m) => Found(m)'
      /\ \A m \in Memories : \/ memories'[m].superseded_by = NoMemory
                             \/ memories'[m].superseded_by = memories[m].superseded_by
  BY BinGrows, PointersStay
<1>3. undo'.n = d.n => \A m \in d.modified \ undo'.todo :
                         memories'[m].superseded_by = d.before[m].superseded_by
  BY DEF SameCheckpoint
<1> QED
  BY <1>1, <1>2, <1>3, HasPointersCarries

\* Every step keeps the last run's checkpoint complete.
LEMMA LatestStep ==
  ASSUME UndoAlone, RestoreInv, PointerInv, "restore" \notin Requests, [TidyNext]_vars
  PROVE  LatestHasPointers'
<1> SUFFICES ASSUME ~undone_late' PROVE LatestHasPointers'
  BY DEF LatestHasPointers
<1>0. /\ TidyShape /\ RunShape /\ OneAtATime /\ TidyShape' /\ OneAtATime' /\ ~undone_late
      /\ checkpoints \subseteq Checkpoint /\ NumbersUnique(checkpoints)
      /\ NumbersUnique(checkpoints') /\ runs \in Nat
      /\ \A cp \in checkpoints : cp.n \in Nat /\ cp.n # 0 /\ cp.n <= runs
      /\ (undo.n # 0 => undo.n = runs) /\ (undo.n = 0 => undo = NoUndo)
      /\ \A cp \in checkpoints : PointersIn(cp.before) /\ (cp.n = runs => HasPointers(cp))
  BY LateStays, ShapeStep, InTurnStep, TidyUpAssumption
  DEF RestoreInv, PointerInv, LatestHasPointers, TidyShape, TidyTypeOK, NumbersKnown, Checkpoint
<1>1. recently_deleted \subseteq recently_deleted'
  BY BinGrows
<1>2. undo'.n # 0 => undo'.n = runs'
  <2>1. CASE UndoStarts
    <3>1. PICK cp \in checkpoints :
            /\ undo' = [n |-> cp.n, todo |-> cp.modified \cup cp.created]
            /\ undone_late' = (undone_late \/ cp.n # runs)
      BY <2>1 DEF UndoStarts
    <3>2. cp.n = runs
      BY <3>1
    <3>3. runs' = runs
      BY <2>1 DEF UndoStarts, UndoKeeps
    <3> QED
      BY <3>1, <3>2, <3>3
  <2>2. CASE Starts
    BY <1>0, <2>2 DEF Starts, NoUndo
  <2>3. CASE runs' = runs /\ undo'.n \in {undo.n, 0}
    BY <1>0, <2>3
  <2>4. CASE Undoes
    <3>1. undo'.n = undo.n /\ runs' = runs
      BY <1>0, <2>4 DEF Undoes, UndoKeeps, TidyShape, TidyTypeOK
    <3> QED
      BY <2>3, <3>1
  <2>5. (runs' = runs /\ undo' \in {undo, NoUndo}) \/ Undoes \/ UndoStarts \/ Starts
    BY DEF TidyNext, RunStep, UndoStep, ClientActs, KeeperEnds, KeeperOpens, TimePasses,
           Dedups, Merges, Contradicts, Supersedes, MarksNext, NextPhase, Captures, Capture,
           Enriches, Ends, RunKeeps, UndoEnds, UndoCut, UndoKeeps
  <2> QED
    BY <2>1, <2>2, <2>3, <2>4, <2>5 DEF NoUndo
<1>3. ASSUME NEW d \in checkpoints'
      PROVE  PointersIn(d.before)' /\ (d.n = runs' => HasPointers(d)')
  <2>1. CASE Captures /\ d \notin checkpoints
    <3> DEFINE new == [n |-> runs, before |-> run.read, modified |-> Differs(run.read).modified,
                       created |-> Differs(run.read).created, status |-> "active",
                       touched |-> run.touched]
    <3>1. d = new
      BY <1>0, <2>1, CapturedFacts
    <3>2. /\ new.n = runs /\ new.before = run.read
          /\ new.modified = Differs(run.read).modified /\ new.created = Differs(run.read).created
      OBVIOUS
    <3> HIDE DEF new
    <3> QED
      BY <1>0, <2>1, <3>1, <3>2, CapturedPointers
  <2>2. CASE ~Captures \/ d \in checkpoints
    <3>1. PICK cp \in checkpoints : SameCheckpoint(d, cp)
      <4>1. d \in checkpoints => SameCheckpoint(d, d)
        BY DEF SameCheckpoint
      <4> QED
        BY <1>0, <2>2, <4>1, CheckpointsFollow
    <3>2. d.before = cp.before /\ d.n = cp.n /\ d.modified = cp.modified /\ d.created = cp.created
      BY <3>1 DEF SameCheckpoint
    <3>3. PointersIn(d.before)'
      BY <1>0, <1>1, <3>2 DEF PointersIn, InBin
    <3>4. ASSUME d.n = runs' PROVE HasPointers(d)'
      <4>1. ~Starts
        BY <1>0, <3>2, <3>4 DEF Starts
      <4>2. runs' = runs
        BY <4>1
        DEF TidyNext, RunStep, UndoStep, ClientActs, KeeperEnds, KeeperOpens, TimePasses,
            Dedups, Merges, Contradicts, Supersedes, MarksNext, NextPhase, Captures, Capture,
            Enriches, Ends, RunKeeps, UndoStarts, Undoes, UndoEnds, UndoCut, UndoKeeps
      <4>3. HasPointers(cp) /\ cp.n = runs
        BY <1>0, <3>2, <3>4, <4>2
      <4>4. run.pc \notin Rewriting
        BY <1>0, <4>3 DEF TidyShape, NumbersKnown
      <4>5. CASE Undoes
        <5>1. PICK e \in checkpoints : e.n = undo.n /\ UndoTouches(e)
          BY <4>5 DEF Undoes
        <5>2. e = cp
          BY <1>0, <4>3, <5>1 DEF NumbersUnique
        <5>3. cp \in checkpoints'
          BY <5>1, <5>2 DEF UndoTouches
        <5>4. d = cp
          BY <1>0, <3>2, <5>3 DEF NumbersUnique
        <5> QED
          BY <1>0, <4>3, <4>5, <5>1, <5>2, <5>4, UndoesPointers
      <4>6. CASE UndoStarts
        <5>1. PICK e \in checkpoints : undo' = [n |-> e.n, todo |-> e.modified \cup e.created]
          BY <4>6 DEF UndoStarts
        <5>2. undo'.n = d.n => e = cp
          BY <1>0, <3>2, <5>1 DEF NumbersUnique
        <5>3. undo'.n = d.n => cp.modified \ undo'.todo = {}
          BY <5>1, <5>2
        <5>4. ~Undoes
          BY <4>6 DEF UndoStarts, Undoes, NoUndo
        <5> QED
          BY <1>0, <3>1, <4>3, <4>4, <5>3, <5>4, LatestCarries
      <4>7. CASE undo'.n = 0 /\ ~Undoes
        <5>1. undo'.n # d.n
          BY <1>0, <3>2, <4>7
        <5> QED
          BY <1>0, <3>1, <4>3, <4>4, <4>7, <5>1, LatestCarries
      <4>8. CASE undo' = undo /\ undo.n # 0 /\ ~Undoes
        <5>1. undo # NoUndo /\ ~open /\ run.pc = "idle"
          BY <1>0, <4>8 DEF NoUndo, OneAtATime
        <5>2. ~RunStep /\ ~ClientActs
          BY <1>0, <5>1, RunPhases DEF ClientActs
        <5>3. memories' = memories /\ checkpoints' = checkpoints
          BY <4>1, <4>8, <5>1, <5>2
          DEF TidyNext, UndoStep, KeeperEnds, KeeperOpens, TimePasses, Tick,
              UndoStarts, UndoEnds, UndoCut
        <5>4. recently_deleted' = recently_deleted
          BY <4>1, <4>8, <5>1, <5>2
          DEF TidyNext, UndoStep, KeeperEnds, KeeperOpens, TimePasses, Tick,
              UndoStarts, UndoEnds, UndoCut
        <5> QED
          BY <3>2, <4>3, <4>8, <5>3, <5>4 DEF HasPointers, Found, InBin, Exists
      <4>9. undo' \in {undo, NoUndo} \/ Undoes \/ UndoStarts
        BY <4>1
        DEF TidyNext, RunStep, UndoStep, ClientActs, KeeperEnds, KeeperOpens, TimePasses,
            Dedups, Merges, Contradicts, Supersedes, MarksNext, NextPhase, Captures, Capture,
            Enriches, Ends, RunKeeps, UndoEnds, UndoCut
      <4> QED
        BY <4>5, <4>6, <4>7, <4>8, <4>9 DEF NoUndo
    <3> QED
      BY <3>3, <3>4
  <2> QED
    BY <2>1, <2>2
<1> QED
  BY <1>2, <1>3 DEF LatestHasPointers

\* At first nothing points anywhere.
LEMMA PointerInvInit == TidyInit => PointerInv
<1> SUFFICES ASSUME TidyInit PROVE PointerInv
  OBVIOUS
<1>1. EditsKeepPointers /\ RunPoints /\ LatestHasPointers
  BY DEF TidyInit, Init, EditsKeepPointers, Idle, RunPoints, NoRun, Rewriting,
         LatestHasPointers, NoUndo
<1>2. \A m \in Memories : memories[m].superseded_by = NoMemory
  BY DEF TidyInit, Init, NoRow
<1>3. HiddenBehindReal
  BY <1>2, ZenonT(30) DEF HiddenBehindReal
<1> QED
  BY <1>1, <1>3 DEF PointerInv

\* Where checkpoints are rolled back only while no keeper and no run has the
\* vault, and nobody restores a deleted or replaced memory, none is ever hidden
\* behind one that is not there, however runs and rollbacks are cut, unless a
\* client deleted that one or an older run was undone after a later one.
THEOREM TidyUpHidesNothing ==
  ASSUME UndoAlone, "restore" \notin Requests
  PROVE  TidySpec => []TidyInv
<1>1. TidyInit => RestoreInv /\ PointerInv
  BY RestoreInvInit, PointerInvInit
<1>2. RestoreInv /\ PointerInv /\ [TidyNext]_vars => RestoreInv' /\ PointerInv'
  <2> SUFFICES ASSUME RestoreInv, PointerInv, [TidyNext]_vars
               PROVE  RestoreInv' /\ PointerInv'
    OBVIOUS
  <2>1. RestoreInv'
    BY RestoreInvStep
  <2>2. EditsKeepPointers' /\ RunPoints' /\ LatestHasPointers' /\ HiddenBehindReal'
    BY EditsStep, RunPointsStep, LatestStep, HiddenStep
  <2> QED
    BY <2>1, <2>2 DEF PointerInv
<1>3. RestoreInv /\ PointerInv => TidyInv
  BY DEF RestoreInv, TidyShape, PointerInv, TidyInv
<1> QED
  BY <1>1, <1>2, <1>3, PTL DEF TidySpec

=============================================================================
