------------------------ MODULE KeeperHandoverProofs ------------------------
(***************************************************************************)
(* What holds of the handover for any number of keepers, claimants and     *)
(* calls and any bounds: one process at a time has the stores open and the *)
(* discovery file names it, no call runs that was reported as never sent,  *)
(* a clean handover leaves no call half done, and whoever declared the     *)
(* intent goes first.                                                      *)
(***************************************************************************)
EXTENDS KeeperHandover, TLAPS

----------------------------------------------------------------------------
(* The inductive invariant *)

\* Where a keeper holds the vault lock, and where it may have connections.
Holding == {"locked", "announced", "building", "built", "serving", "leaving", "draining", "drained"}
Taking == {"serving", "leaving", "draining", "drained"}

\* The lock is with whoever is where only its holder can be.
LockHeld ==
  /\ \A k \in Keepers : lock = k <=> keeper[k].pc \in Holding
  /\ \A c \in Claimants :
       /\ claim[c].pc \in {"holds", "published", "running", "ended"} => lock = c
       /\ lock = c => claim[c].pc \in {"holds", "published", "running", "ended", "unlocked"}

\* Only the holder writes the record, its heartbeat ended before it serves; so
\* the record stands as the keeper that serves, or the run, wrote it.
RecordOfRole ==
  /\ record.role \in {"starting", "keeper", "failed"} => record.of \in Keepers
  /\ record.role = "maintenance" => record.of \in Claimants
  /\ \A k \in beats : At(k, "building")
  /\ \A k \in Keepers : At(k, "serving") =>
       record = [role |-> "keeper", of |-> k, fresh |-> TRUE]
  /\ \A c \in Claimants :
       /\ claim[c].told => claim[c].pc \in {"published", "running", "ended", "unlocked"}
       /\ claim[c].told /\ claim[c].pc \in {"published", "running"} =>
            record = [role |-> "maintenance", of |-> c, fresh |-> TRUE]

\* Work is with a keeper that can have it, and only for what was sent.
CallsServed ==
  \A a \in Calls :
    /\ call[a].to \in Keepers => keeper[call[a].to].pc \in Taking
    /\ call[a].pc = "found" \/ call[a].work \in {"arrived", "admitted", "running"} => call[a].to # Nobody
    /\ call[a].pc \in {"none", "resolving", "found", "notsent"} => call[a].work = "none"

\* A keeper that hands over takes no more work until it ends, and has none
\* running once it has drained in time.
Draining ==
  \A k \in Keepers :
    /\ At(k, "draining") => keeper[k].stop = "handover"
    /\ At(k, "draining") \/ (At(k, "drained") /\ keeper[k].stop = "handover") => keeper[k].closed
    /\ At(k, "drained") /\ keeper[k].stop = "handover" =>
         \A a \in Calls : call[a].to = k => call[a].work # "running"

IInv == TypeOK /\ LockHeld /\ RecordOfRole /\ CallsServed /\ Draining

----------------------------------------------------------------------------
(* Shapes and effects of the steps' parts *)

\* A record written is a record.
LEMMA WriteType ==
  ASSUME NEW role \in {"starting", "keeper", "failed", "maintenance"},
         NEW of \in Keepers \cup Claimants, Write(role, of)
  PROVE  record' \in Records
BY DEF Write, Records

\* So is what taking one back leaves.
LEMMA UnwriteType ==
  ASSUME TypeOK, NEW role, NEW of, Unwrite(role, of)
  PROVE  record' \in Records
BY DEF TypeOK, Unwrite, Records, NoRecord

\* A call moves from state to state.
LEMMA CallMoves ==
  ASSUME TypeOK, NEW a \in Calls,
         NEW pc \in {"none", "resolving", "found", "sent", "answered", "notsent", "timedout", "lost"},
         NEW by \in {"none", "app", "desktop"},
         NEW work \in {"none", "arrived", "admitted", "running", "done", "refused", "dropped"}
  PROVE  /\ [call EXCEPT ![a].pc = pc, ![a].by = by] \in [Calls -> CallStates]
         /\ [call EXCEPT ![a].pc = pc, ![a].work = work] \in [Calls -> CallStates]
         /\ [call EXCEPT ![a].work = work, ![a].pc = pc] \in [Calls -> CallStates]
<1>1. call[a] \in CallStates
  BY DEF TypeOK
<1>2. /\ [call[a] EXCEPT !.pc = pc, !.by = by] \in CallStates
      /\ [call[a] EXCEPT !.pc = pc, !.work = work] \in CallStates
      /\ [call[a] EXCEPT !.work = work, !.pc = pc] \in CallStates
  <2>1. [call[a] EXCEPT !.pc = pc, !.by = by] \in CallStates
    BY <1>1 DEF CallStates
  <2>2. [call[a] EXCEPT !.pc = pc, !.work = work] \in CallStates
    BY <1>1 DEF CallStates
  <2>3. [call[a] EXCEPT !.work = work, !.pc = pc] \in CallStates
    BY <1>1 DEF CallStates
  <2> QED
    BY <2>1, <2>2, <2>3
<1> QED
  BY <1>2 DEF TypeOK

\* An answer leaves the calls their shape.
LEMMA ReplyType ==
  ASSUME TypeOK, NEW a \in Calls, NEW work \in {"done", "refused"}, Replies(a, work)
  PROVE  call' \in [Calls -> CallStates]
<1>1. call[a].pc \in {"none", "resolving", "found", "sent", "answered", "notsent", "timedout", "lost"}
  BY DEF TypeOK, CallStates
<1>2. PICK pc \in {"none", "resolving", "found", "sent", "answered", "notsent", "timedout", "lost"} :
        pc = IF call[a].pc = "sent" THEN "answered" ELSE call[a].pc
  BY <1>1
<1>3. call' = [call EXCEPT ![a].work = work, ![a].pc = pc]
  BY <1>2 DEF Replies, TypeOK, CallStates
<1> QED
  BY <1>3, CallMoves, ZenonT(60)

\* A keeper that leaves keeps its shape.
LEMMA KeeperMoves ==
  ASSUME TypeOK, NEW k \in Keepers, NEW closed \in BOOLEAN,
         NEW pc \in {"draining", "drained"}
  PROVE  [keeper EXCEPT ![k].pc = pc, ![k].closed = closed] \in [Keepers -> KeeperStates]
<1>1. [keeper[k] EXCEPT !.pc = pc, !.closed = closed] \in KeeperStates
  <2>1. keeper[k] \in KeeperStates
    BY DEF TypeOK
  <2> QED
    BY <2>1 DEF KeeperStates
<1> QED
  BY <1>1 DEF TypeOK

\* So does a claim that lets go, ...
LEMMA ClaimGotoType ==
  ASSUME TypeOK, NEW c \in Claimants, ClaimGoto(c, "unlocked")
  PROVE  claim' \in [Claimants -> ClaimStates]
BY DEF TypeOK, ClaimGoto, ClaimStates

\* ... one that is over, ...
LEMMA LeaveType ==
  ASSUME TypeOK, NEW c \in Claimants, Leave(c)
  PROVE  claim' \in [Claimants -> ClaimStates]
BY DEF TypeOK, Leave, NoClaim, ClaimStates

\* ... and one that has a new tenure to ask.
LEMMA TenureType ==
  ASSUME TypeOK, NEW k \in Keepers, NewTenure(k)
  PROVE  claim' \in [Claimants -> ClaimStates]
<1>1. ASSUME NEW c \in Claimants
      PROVE  [claim[c] EXCEPT !.asked = @ \ {k}] \in ClaimStates
  <2>1. claim[c] \in ClaimStates
    BY DEF TypeOK
  <2> QED
    BY <2>1 DEF ClaimStates
<1> QED
  BY <1>1 DEF NewTenure

\* A keeper's end leaves every variable its shape.
LEMMA EndsType ==
  ASSUME TypeOK, NEW k \in Keepers, Ends(k)
  PROVE  /\ keeper' \in [Keepers -> KeeperStates]
         /\ lock' \in Keepers \cup Claimants \cup {Nobody}
         /\ beats' \subseteq Keepers
         /\ call' \in [Calls -> CallStates]
         /\ claim' \in [Claimants -> ClaimStates]
<1> USE DEF TypeOK, Ends
<1>1. keeper' \in [Keepers -> KeeperStates]
  BY DEF Gone, KeeperStates
<1>2. claim' \in [Claimants -> ClaimStates]
  BY ZenonT(60) DEF ClaimStates
<1>3. call' \in [Calls -> CallStates]
  <2> DEFINE after(a) == [call[a] EXCEPT
                !.to = Nobody,
                !.pc = CASE @ = "sent" -> "lost" [] @ = "found" -> "notsent" [] OTHER -> @,
                !.work = IF @ \in {"arrived", "admitted", "running"} THEN "dropped" ELSE @]
  <2>1. ASSUME NEW a \in Calls
        PROVE  call[a] \in CallStates /\ after(a) \in CallStates
    <3>1. call[a] \in CallStates
      OBVIOUS
    <3> QED
      BY <3>1 DEF CallStates
  <2>2. call' = [a \in Calls |-> IF call[a].to # k THEN call[a] ELSE after(a)]
    BY DEF Closed
  <2> HIDE DEF after
  <2> QED
    BY <2>1, <2>2
<1> QED
  BY <1>1, <1>2, <1>3

\* Where everything is after a keeper's end.
LEMMA EndsFacts ==
  ASSUME TypeOK, NEW k \in Keepers, Ends(k)
  PROVE  /\ \A j \in Keepers : keeper'[j] = IF j = k THEN Gone ELSE keeper[j]
         /\ lock' = IF lock = k THEN Nobody ELSE lock
         /\ beats' = beats \ {k}
         /\ \A c \in Claimants : claim'[c].pc = claim[c].pc /\ claim'[c].told = claim[c].told
         /\ \A a \in Calls : call[a].to # k => call'[a] = call[a]
         /\ \A a \in Calls : call[a].to = k =>
              /\ call'[a].to = Nobody
              /\ call'[a].pc \notin {"found"}
              /\ call'[a].pc = call[a].pc \/ call'[a].pc = "lost" \/ (call[a].pc = "found" /\ call'[a].pc = "notsent")
              /\ call'[a].work \notin {"arrived", "admitted", "running"}
              /\ call[a].work = "none" => call'[a].work = "none"
<1> USE DEF TypeOK, Ends
<1>1. \A c \in Claimants : claim'[c].pc = claim[c].pc /\ claim'[c].told = claim[c].told
  BY DEF ClaimStates
<1>2. \A a \in Calls : call[a] \in CallStates
  OBVIOUS
<1>3. ASSUME NEW a \in Calls, call[a].to # k
      PROVE  call'[a] = call[a]
  BY <1>3 DEF Closed
<1>4. ASSUME NEW a \in Calls, call[a].to = k
      PROVE  /\ call'[a].to = Nobody
             /\ call'[a].pc \notin {"found"}
             /\ call'[a].pc = call[a].pc \/ call'[a].pc = "lost" \/ (call[a].pc = "found" /\ call'[a].pc = "notsent")
             /\ call'[a].work \notin {"arrived", "admitted", "running"}
             /\ call[a].work = "none" => call'[a].work = "none"
  BY <1>2, <1>4 DEF Closed, CallStates
<1> QED
  BY <1>1, <1>3, <1>4

\* Where everything is after a keeper took its place in the discovery file.
LEMMA TenureFacts ==
  ASSUME TypeOK, NEW k \in Keepers, NewTenure(k)
  PROVE  /\ record' = [role |-> "keeper", of |-> k, fresh |-> TRUE]
         /\ keeper'[k].pc = "serving"
         /\ \A j \in Keepers \ {k} : keeper'[j] = keeper[j]
         /\ \A c \in Claimants : claim'[c].pc = claim[c].pc /\ claim'[c].told = claim[c].told
         /\ UNCHANGED <<lock, beats, call>>
BY DEF TypeOK, NewTenure, Write, Goto, KeeperStates, ClaimStates

\* Where everything is after one process took a step.
LEMMA GotoFacts ==
  ASSUME TypeOK, NEW k \in Keepers, NEW pc, Goto(k, pc)
  PROVE  /\ keeper'[k].pc = pc
         /\ keeper'[k].stop = keeper[k].stop /\ keeper'[k].closed = keeper[k].closed
         /\ \A j \in Keepers \ {k} : keeper'[j] = keeper[j]
BY DEF TypeOK, Goto, KeeperStates

\* The same of a claim, ...
LEMMA ClaimGotoFacts ==
  ASSUME TypeOK, NEW c \in Claimants, NEW pc, ClaimGoto(c, pc)
  PROVE  /\ claim'[c].pc = pc
         /\ claim'[c].told = claim[c].told
         /\ \A d \in Claimants \ {c} : claim'[d] = claim[d]
BY DEF TypeOK, ClaimGoto, ClaimStates

\* ... of one that is over, ...
LEMMA LeaveFacts ==
  ASSUME TypeOK, NEW c \in Claimants, Leave(c)
  PROVE  /\ claim'[c].pc = "idle" /\ claim'[c].told = FALSE
         /\ \A d \in Claimants \ {c} : claim'[d] = claim[d]
         /\ lock' = IF lock = c THEN Nobody ELSE lock
         /\ intent' = IF intent = c THEN Nobody ELSE intent
BY DEF TypeOK, Leave, NoClaim

\* ... and of a call.
LEMMA CallGotoFacts ==
  ASSUME TypeOK, NEW a \in Calls, NEW pc, CallGoto(a, pc)
  PROVE  /\ call'[a].pc = pc
         /\ call'[a].to = call[a].to /\ call'[a].work = call[a].work
         /\ \A b \in Calls \ {a} : call'[b] = call[b]
BY DEF TypeOK, CallGoto, CallStates

----------------------------------------------------------------------------
(* Each part is preserved by every step *)

\* Every variable keeps its shape: what the record names is a keeper where a
\* keeper is looked for.
LEMMA TypeStep ==
  ASSUME TypeOK, RecordOfRole, Next
  PROVE  TypeOK'
<1> USE ProcessAssumption DEF TypeOK
<1>1. ASSUME NEW k \in Keepers, ProbesIntent(k)
      PROVE  TypeOK'
  <2>1. keeper' \in [Keepers -> KeeperStates]
    BY <1>1 DEF ProbesIntent, At, Goto, KeeperStates
  <2> QED
    BY <1>1, <2>1 DEF ProbesIntent
<1>2. ASSUME NEW k \in Keepers, TakesVault(k)
      PROVE  TypeOK'
  <2>1. lock' \in Keepers \cup Claimants \cup {Nobody}
    BY <1>2 DEF TakesVault, At, Goto
  <2>2. keeper' \in [Keepers -> KeeperStates]
    BY <1>2 DEF TakesVault, At, Goto, KeeperStates
  <2> QED
    BY <1>2, <2>1, <2>2 DEF TakesVault
<1>3. ASSUME NEW k \in Keepers, ProbesAgain(k)
      PROVE  TypeOK'
  <2>1. lock' \in Keepers \cup Claimants \cup {Nobody}
    BY <1>3 DEF ProbesAgain, At, Goto
  <2>2. keeper' \in [Keepers -> KeeperStates]
    BY <1>3 DEF ProbesAgain, At, Goto, KeeperStates
  <2> QED
    BY <1>3, <2>1, <2>2 DEF ProbesAgain
<1>4. ASSUME NEW k \in Keepers, Announces(k)
      PROVE  TypeOK'
  <2>1. record' \in Records
    BY <1>4, WriteType DEF Announces
  <2>2. beats' \subseteq Keepers
    BY <1>4 DEF Announces, At, Goto
  <2>3. keeper' \in [Keepers -> KeeperStates]
    BY <1>4 DEF Announces, At, Goto, KeeperStates
  <2>4. last' \in [claim : 0..MaxClaims, trouble : 0..MaxTroubles]
    BY <1>4 DEF Announces, At, Goto, Trouble
  <2> QED
    BY <1>4, <2>1, <2>2, <2>3, <2>4 DEF Announces
<1>5. ASSUME NEW k \in Keepers, Builds(k)
      PROVE  TypeOK'
  <2>1. keeper' \in [Keepers -> KeeperStates]
    BY <1>5 DEF Builds, At, Goto, KeeperStates
  <2>2. beats' \subseteq Keepers
    BY <1>5 DEF Builds, At, Goto
  <2> QED
    BY <1>5, <2>1, <2>2 DEF Builds
<1>6. ASSUME NEW k \in Keepers, Publishes(k)
      PROVE  TypeOK'
  <2>1. record' \in Records
    BY <1>6 DEF Publishes, NewTenure, At, Goto, Write, Records
  <2>2. keeper' \in [Keepers -> KeeperStates]
    BY <1>6 DEF Publishes, NewTenure, At, Goto, KeeperStates
  <2>3. claim' \in [Claimants -> ClaimStates]
    BY <1>6, TenureType DEF Publishes
  <2> QED
    BY <1>6, <2>1, <2>2, <2>3 DEF Publishes, NewTenure
<1>7. ASSUME NEW k \in Keepers, Leaves(k)
      PROVE  TypeOK'
  <2>1. record' \in Records
    BY <1>7 DEF Leaves, At, Unwrite, Records, NoRecord
  <2>2. keeper' \in [Keepers -> KeeperStates]
    BY <1>7, KeeperMoves DEF Leaves
  <2> QED
    BY <1>7, <2>1, <2>2 DEF Leaves
<1>8. ASSUME NEW k \in Keepers, Drains(k)
      PROVE  TypeOK'
  <2>1. keeper' \in [Keepers -> KeeperStates]
    BY <1>8 DEF Drains, At, Goto, InFlight, KeeperStates
  <2>2. last' \in [claim : 0..MaxClaims, trouble : 0..MaxTroubles]
    BY <1>8 DEF Drains, At, Goto, Trouble, InFlight
  <2> QED
    BY <1>8, <2>1, <2>2 DEF Drains
<1>9. ASSUME NEW k \in Keepers, Exits(k)
      PROVE  TypeOK'
  <2>1. record' \in Records
    BY <1>9, WriteType DEF Exits
  <2> QED
    BY <1>9, <2>1, EndsType DEF Exits
<1>10. ASSUME NEW k \in Keepers, NEW a \in Calls, Admits(k, a)
      PROVE  TypeOK'
  <2>1. call' \in [Calls -> CallStates]
    BY <1>10 DEF Admits, CallStates
  <2> QED
    BY <1>10, <2>1 DEF Admits
<1>11. ASSUME NEW k \in Keepers, NEW a \in Calls, Runs(k, a)
      PROVE  TypeOK'
  <2>1. call' \in [Calls -> CallStates]
    BY <1>11, ReplyType DEF Runs, CallStates
  <2> QED
    BY <1>11, <2>1 DEF Runs
<1>12. ASSUME NEW k \in Keepers, NEW a \in Calls, Finishes(k, a)
      PROVE  TypeOK'
  <2>1. call' \in [Calls -> CallStates]
    BY <1>12, ReplyType DEF Finishes
  <2> QED
    BY <1>12, <2>1 DEF Finishes
<1>13. ASSUME NEW k \in Keepers, Heartbeat(k)
      PROVE  TypeOK'
  <2>1. record' \in Records
    BY <1>13 DEF Heartbeat, Write, Records
  <2> QED
    BY <1>13, <2>1 DEF Heartbeat
<1>14. ASSUME NEW k \in Keepers, CannotBuild(k)
      PROVE  TypeOK'
  <2>1. record' \in Records
    BY <1>14, WriteType, UnwriteType DEF CannotBuild
  <2>2. last' \in [claim : 0..MaxClaims, trouble : 0..MaxTroubles]
    BY <1>14 DEF CannotBuild, At, Trouble
  <2> QED
    BY <1>14, <2>1, <2>2, EndsType DEF CannotBuild
<1>15. ASSUME NEW k \in Keepers, Rotates(k)
      PROVE  TypeOK'
  <2>1. record' \in Records
    BY <1>15 DEF Rotates, NewTenure, At, Goto, Write, Records
  <2>2. keeper' \in [Keepers -> KeeperStates]
    BY <1>15 DEF Rotates, NewTenure, At, Goto, KeeperStates
  <2>3. claim' \in [Claimants -> ClaimStates]
    BY <1>15, TenureType DEF Rotates
  <2>4. last' \in [claim : 0..MaxClaims, trouble : 0..MaxTroubles]
    BY <1>15 DEF Rotates, NewTenure, At, Goto, Trouble
  <2> QED
    BY <1>15, <2>1, <2>2, <2>3, <2>4 DEF Rotates, NewTenure
<1>16. ASSUME NEW k \in Keepers, CannotPublish(k)
      PROVE  TypeOK'
  <2>1. keeper' \in [Keepers -> KeeperStates]
    BY <1>16 DEF CannotPublish, At, KeeperStates
  <2>2. last' \in [claim : 0..MaxClaims, trouble : 0..MaxTroubles]
    BY <1>16 DEF CannotPublish, At, Trouble
  <2> QED
    BY <1>16, <2>1, <2>2 DEF CannotPublish
<1>17. ASSUME NEW k \in Keepers, ModeChanges(k)
      PROVE  TypeOK'
  <2>1. keeper' \in [Keepers -> KeeperStates]
    BY <1>17 DEF ModeChanges, Stops, At, KeeperStates
  <2>2. last' \in [claim : 0..MaxClaims, trouble : 0..MaxTroubles]
    BY <1>17 DEF ModeChanges, Stops, At, Trouble
  <2> QED
    BY <1>17, <2>1, <2>2 DEF ModeChanges, Stops
<1>18. ASSUME NEW k \in Keepers, IdlesOut(k)
      PROVE  TypeOK'
  <2>1. keeper' \in [Keepers -> KeeperStates]
    BY <1>18 DEF IdlesOut, Stops, At, KeeperStates
  <2>2. last' \in [claim : 0..MaxClaims, trouble : 0..MaxTroubles]
    BY <1>18 DEF IdlesOut, Stops, At, Trouble
  <2> QED
    BY <1>18, <2>1, <2>2 DEF IdlesOut, Stops
<1>19. ASSUME NEW k \in Keepers, ShutsDown(k)
      PROVE  TypeOK'
  <2>1. keeper' \in [Keepers -> KeeperStates]
    BY <1>19 DEF ShutsDown, Stops, At, KeeperStates
  <2>2. last' \in [claim : 0..MaxClaims, trouble : 0..MaxTroubles]
    BY <1>19 DEF ShutsDown, Stops, At, Trouble
  <2> QED
    BY <1>19, <2>1, <2>2 DEF ShutsDown, Stops
<1>20. ASSUME NEW k \in Keepers, Killed(k)
      PROVE  TypeOK'
  <2>1. last' \in [claim : 0..MaxClaims, trouble : 0..MaxTroubles]
    BY <1>20 DEF Killed, At, Trouble
  <2> QED
    BY <1>20, <2>1, EndsType DEF Killed
<1>21. ASSUME NEW c \in Claimants, NEW kind \in {"own", "now", "nightly"}, Claims(c, kind)
      PROVE  TypeOK'
  <2>1. claim' \in [Claimants -> ClaimStates]
    BY <1>21 DEF Claims, ClaimAt, ClaimStates
  <2>2. last' \in [claim : 0..MaxClaims, trouble : 0..MaxTroubles]
    BY <1>21 DEF Claims, ClaimAt
  <2> QED
    BY <1>21, <2>1, <2>2 DEF Claims
<1>22. ASSUME NEW c \in Claimants, DeclaresIntent(c)
      PROVE  TypeOK'
  <2>1. intent' \in Claimants \cup {Nobody}
    BY <1>22 DEF DeclaresIntent, ClaimAt, ClaimGoto
  <2>2. claim' \in [Claimants -> ClaimStates]
    BY <1>22 DEF DeclaresIntent, ClaimAt, ClaimGoto, ClaimStates
  <2> QED
    BY <1>22, <2>1, <2>2 DEF DeclaresIntent
<1>23. ASSUME NEW c \in Claimants, Holds(c)
      PROVE  TypeOK'
  <2>1. claim' \in [Claimants -> ClaimStates]
    BY <1>23 DEF Holds, ClaimAt, ClaimGoto, ClaimStates
  <2>2. record' \in Records
    BY <1>23, WriteType DEF Holds
  <2>3. last' \in [claim : 0..MaxClaims, trouble : 0..MaxTroubles]
    BY <1>23 DEF Holds, ClaimAt, ClaimGoto, Trouble
  <2> QED
    BY <1>23, <2>1, <2>2, <2>3 DEF Holds
<1>24. ASSUME NEW c \in Claimants, GoesOn(c)
      PROVE  TypeOK'
  <2>1. intent' \in Claimants \cup {Nobody}
    BY <1>24 DEF GoesOn, ClaimAt, ClaimGoto
  <2>2. claim' \in [Claimants -> ClaimStates]
    BY <1>24 DEF GoesOn, ClaimAt, ClaimGoto, ClaimStates
  <2> QED
    BY <1>24, <2>1, <2>2 DEF GoesOn
<1>25. ASSUME NEW c \in Claimants, Finished(c)
      PROVE  TypeOK'
  <2>1. claim' \in [Claimants -> ClaimStates]
    BY <1>25 DEF Finished, ClaimAt, ClaimGoto, ClaimStates
  <2> QED
    BY <1>25, <2>1 DEF Finished
<1>26. ASSUME NEW c \in Claimants, Releases(c)
      PROVE  TypeOK'
  <2>1. record' \in Records
    BY <1>26, UnwriteType DEF Releases
  <2>2. claim' \in [Claimants -> ClaimStates]
    BY <1>26, LeaveType, ClaimGotoType DEF Releases
  <2>3. lock' \in Keepers \cup Claimants \cup {Nobody}
    BY <1>26 DEF Releases, ClaimAt, ClaimGoto, Leave, NoClaim
  <2>4. intent' \in Claimants \cup {Nobody}
    BY <1>26 DEF Releases, ClaimAt, ClaimGoto, Leave, NoClaim
  <2> QED
    BY <1>26, <2>1, <2>2, <2>3, <2>4 DEF Releases, Leave
<1>27. ASSUME NEW c \in Claimants, TakesLock(c)
      PROVE  TypeOK'
  <2>1. lock' \in Keepers \cup Claimants \cup {Nobody}
    BY <1>27 DEF TakesLock, ClaimAt, ClaimGoto
  <2>2. claim' \in [Claimants -> ClaimStates]
    BY <1>27 DEF TakesLock, ClaimAt, ClaimGoto, ClaimStates
  <2> QED
    BY <1>27, <2>1, <2>2 DEF TakesLock
<1>28. ASSUME NEW c \in Claimants, AsksToHandOver(c)
      PROVE  TypeOK'
  <2>1. claim' \in [Claimants -> ClaimStates]
    BY <1>28 DEF AsksToHandOver, ClaimAt, At, ClaimStates, RecordOfRole
  <2>2. keeper' \in [Keepers -> KeeperStates]
    BY <1>28 DEF AsksToHandOver, ClaimAt, At, KeeperStates, RecordOfRole
  <2> QED
    BY <1>28, <2>1, <2>2 DEF AsksToHandOver
<1>29. ASSUME NEW c \in Claimants, GivesUp(c)
      PROVE  TypeOK'
  <2>1. claim' \in [Claimants -> ClaimStates]
    BY <1>29 DEF GivesUp, ClaimAt, Leave, ClaimStates, NoClaim
  <2>2. intent' \in Claimants \cup {Nobody}
    BY <1>29 DEF GivesUp, ClaimAt, Leave, NoClaim
  <2>3. lock' \in Keepers \cup Claimants \cup {Nobody}
    BY <1>29 DEF GivesUp, ClaimAt, Leave, NoClaim
  <2>4. last' \in [claim : 0..MaxClaims, trouble : 0..MaxTroubles]
    BY <1>29 DEF GivesUp, ClaimAt, Leave, Trouble, NoClaim
  <2> QED
    BY <1>29, <2>1, <2>2, <2>3, <2>4 DEF GivesUp, Leave
<1>30. ASSUME NEW c \in Claimants, RunBeats(c)
      PROVE  TypeOK'
  <2>1. record' \in Records
    BY <1>30 DEF RunBeats, Write, Records
  <2>2. claim' \in [Claimants -> ClaimStates]
    BY <1>30, ZenonT(60) DEF RunBeats, ClaimStates
  <2> QED
    BY <1>30, <2>1, <2>2 DEF RunBeats
<1>31. ASSUME NEW c \in Claimants, ClaimStops(c)
      PROVE  TypeOK'
  <2>1. claim' \in [Claimants -> ClaimStates]
    BY <1>31 DEF ClaimStops, ClaimAt, Leave, ClaimStates, NoClaim
  <2>2. intent' \in Claimants \cup {Nobody}
    BY <1>31 DEF ClaimStops, ClaimAt, Leave, NoClaim
  <2>3. lock' \in Keepers \cup Claimants \cup {Nobody}
    BY <1>31 DEF ClaimStops, ClaimAt, Leave, NoClaim
  <2>4. last' \in [claim : 0..MaxClaims, trouble : 0..MaxTroubles]
    BY <1>31 DEF ClaimStops, ClaimAt, Leave, Trouble, NoClaim
  <2> QED
    BY <1>31, <2>1, <2>2, <2>3, <2>4 DEF ClaimStops, Leave
<1>32. ASSUME NEW a \in Calls, NEW by \in {"app", "desktop"}, Asks(a, by)
      PROVE  TypeOK'
  <2>1. call' \in [Calls -> CallStates]
    BY <1>32, CallMoves DEF Asks
  <2> QED
    BY <1>32, <2>1 DEF Asks, callOnly
<1>33. ASSUME NEW a \in Calls, AnsweredHere(a)
      PROVE  TypeOK'
  <2>1. call' \in [Calls -> CallStates]
    BY <1>33 DEF AnsweredHere, CallAt, CallGoto, callOnly, CallStates
  <2> QED
    BY <1>33, <2>1 DEF AnsweredHere, callOnly
<1>34. ASSUME NEW a \in Calls, Connects(a)
      PROVE  TypeOK'
  <2>1. call' \in [Calls -> CallStates]
    BY <1>34 DEF Connects, CallAt, CallGoto, At, CallStates, RecordOfRole
  <2>2. keeper' \in [Keepers -> KeeperStates]
    BY <1>34 DEF Connects, CallAt, CallGoto, At, KeeperStates, RecordOfRole
  <2>3. last' \in [claim : 0..MaxClaims, trouble : 0..MaxTroubles]
    BY <1>34 DEF Connects, CallAt, CallGoto, At, Trouble, RecordOfRole
  <2> QED
    BY <1>34, <2>1, <2>2, <2>3 DEF Connects
<1>35. ASSUME NEW a \in Calls, NEW k \in Keepers, Start(a, k)
      PROVE  TypeOK'
  <2>1. keeper' \in [Keepers -> KeeperStates]
    BY <1>35 DEF Start, CallAt, At, Goto, KeeperStates, RecordOfRole
  <2>2. call' \in [Calls -> CallStates]
    BY <1>35 DEF Start, CallAt, At, Goto, CallStates, RecordOfRole
  <2> QED
    BY <1>35, <2>1, <2>2 DEF Start
<1>36. ASSUME NEW a \in Calls, NotSent(a)
      PROVE  TypeOK'
  <2>1. call' \in [Calls -> CallStates]
    BY <1>36 DEF NotSent, CallAt, CallGoto, callOnly, CallStates
  <2> QED
    BY <1>36, <2>1 DEF NotSent, callOnly
<1>37. ASSUME NEW a \in Calls, Sends(a)
      PROVE  TypeOK'
  <2>1. call' \in [Calls -> CallStates]
    BY <1>37, CallMoves DEF Sends
  <2> QED
    BY <1>37, <2>1 DEF Sends, callOnly
<1>38. ASSUME NEW a \in Calls, StopsWaiting(a)
      PROVE  TypeOK'
  <2>1. call' \in [Calls -> CallStates]
    BY <1>38 DEF StopsWaiting, CallAt, CallGoto, callOnly, CallStates
  <2>2. last' \in [claim : 0..MaxClaims, trouble : 0..MaxTroubles]
    BY <1>38 DEF StopsWaiting, CallAt, CallGoto, callOnly, Trouble
  <2> QED
    BY <1>38, <2>1, <2>2 DEF StopsWaiting, callOnly
<1>39. ASSUME NEW a \in Calls, Dropped(a)
      PROVE  TypeOK'
  <2>1. call' \in [Calls -> CallStates]
    BY <1>39 DEF Dropped, CallAt, callOnly, CallStates
  <2> QED
    BY <1>39, <2>1 DEF Dropped, callOnly
<1>40. ASSUME NEW a \in Calls, Disconnects(a)
      PROVE  TypeOK'
  <2>1. call' \in [Calls -> CallStates]
    BY <1>40 DEF Disconnects, CallAt, callOnly, CallStates
  <2> QED
    BY <1>40, <2>1 DEF Disconnects, callOnly
<1>41. CASE GoesStale
  <2>1. record' \in Records
    BY <1>41 DEF GoesStale, Records
  <2> QED
    BY <1>41, <2>1 DEF GoesStale
<1> QED
  BY <1>1, <1>2, <1>3, <1>4, <1>5, <1>6, <1>7, <1>8, <1>9, <1>10, <1>11, <1>12, <1>13,
     <1>14, <1>15, <1>16, <1>17, <1>18, <1>19, <1>20, <1>21, <1>22, <1>23, <1>24, <1>25,
     <1>26, <1>27, <1>28, <1>29, <1>30, <1>31, <1>32, <1>33, <1>34, <1>35, <1>36, <1>37,
     <1>38, <1>39, <1>40, <1>41 DEF Next, KeeperSteps, WorkSteps, ClaimSteps, Resolves

\* The lock passes only from who lets it go to who finds it free.
LEMMA LockStep ==
  ASSUME TypeOK, LockHeld, Next
  PROVE  LockHeld'
<1> USE ProcessAssumption DEF TypeOK, LockHeld, Holding
<1>0. UNCHANGED <<claim, keeper, lock>> => LockHeld'
  OBVIOUS
<1>1. ASSUME NEW k \in Keepers, ProbesIntent(k)
      PROVE  LockHeld'
  BY <1>1, GotoFacts DEF ProbesIntent, At
<1>2. ASSUME NEW k \in Keepers, TakesVault(k)
      PROVE  LockHeld'
  BY <1>2, GotoFacts DEF TakesVault, At
<1>3. ASSUME NEW k \in Keepers, ProbesAgain(k)
      PROVE  LockHeld'
  BY <1>3, GotoFacts DEF ProbesAgain, At
<1>4. ASSUME NEW k \in Keepers, Announces(k)
      PROVE  LockHeld'
  BY <1>4, GotoFacts DEF Announces, At, Write
<1>5. ASSUME NEW k \in Keepers, Builds(k)
      PROVE  LockHeld'
  BY <1>5, GotoFacts DEF Builds, At
<1>6. ASSUME NEW k \in Keepers, Publishes(k)
      PROVE  LockHeld'
  BY <1>6, TenureFacts DEF Publishes, At
<1>7. ASSUME NEW k \in Keepers, Leaves(k)
      PROVE  LockHeld'
  BY <1>7 DEF Leaves, At, Unwrite, KeeperStates, NoRecord
<1>8. ASSUME NEW k \in Keepers, Drains(k)
      PROVE  LockHeld'
  BY <1>8, GotoFacts DEF Drains, At, InFlight, KeeperStates
<1>9. ASSUME NEW k \in Keepers, Exits(k)
      PROVE  LockHeld'
  BY <1>9, EndsFacts DEF Exits, At, Write, Gone, NoRecord
<1>10. ASSUME NEW k \in Keepers, CannotBuild(k)
      PROVE  LockHeld'
  BY <1>10, EndsFacts DEF CannotBuild, At, Write, Unwrite, Gone, NoRecord
<1>11. ASSUME NEW k \in Keepers, Rotates(k)
      PROVE  LockHeld'
  BY <1>11, TenureFacts DEF Rotates, At
<1>12. ASSUME NEW k \in Keepers, CannotPublish(k)
      PROVE  LockHeld'
  BY <1>12 DEF CannotPublish, At, KeeperStates
<1>13. ASSUME NEW k \in Keepers, ModeChanges(k)
      PROVE  LockHeld'
  BY <1>13 DEF ModeChanges, Stops, At, KeeperStates
<1>14. ASSUME NEW k \in Keepers, IdlesOut(k)
      PROVE  LockHeld'
  BY <1>14 DEF IdlesOut, Stops, At, KeeperStates
<1>15. ASSUME NEW k \in Keepers, ShutsDown(k)
      PROVE  LockHeld'
  BY <1>15 DEF ShutsDown, Stops, At, KeeperStates
<1>16. ASSUME NEW k \in Keepers, Killed(k)
      PROVE  LockHeld'
  BY <1>16, EndsFacts DEF Killed, At, Gone, NoRecord
<1>17. ASSUME NEW c \in Claimants, NEW kind \in {"own", "now", "nightly"}, Claims(c, kind)
      PROVE  LockHeld'
  BY <1>17 DEF Claims, ClaimAt, ClaimStates
<1>18. ASSUME NEW c \in Claimants, DeclaresIntent(c)
      PROVE  LockHeld'
  BY <1>18, ClaimGotoFacts DEF DeclaresIntent, ClaimAt
<1>19. ASSUME NEW c \in Claimants, Holds(c)
      PROVE  LockHeld'
  BY <1>19, ClaimGotoFacts DEF Holds, ClaimAt, Write, ClaimStates
<1>20. ASSUME NEW c \in Claimants, GoesOn(c)
      PROVE  LockHeld'
  BY <1>20, ClaimGotoFacts DEF GoesOn, ClaimAt, ClaimStates
<1>21. ASSUME NEW c \in Claimants, Finished(c)
      PROVE  LockHeld'
  BY <1>21, ClaimGotoFacts DEF Finished, ClaimAt
<1>22. ASSUME NEW c \in Claimants, Releases(c)
      PROVE  LockHeld'
  <2>1. CASE ClaimAt(c, "ended")
    BY <1>22, <2>1, ClaimGotoFacts DEF Releases, ClaimAt
  <2>2. CASE ClaimAt(c, "unlocked") /\ lock = c
    BY <1>22, <2>2 DEF Releases, ClaimAt
  <2>3. CASE ClaimAt(c, "unlocked") /\ lock # c
    BY <1>22, <2>3, LeaveFacts, ZenonT(60) DEF Releases, ClaimAt
  <2> QED
    BY <1>22, <2>1, <2>2, <2>3 DEF Releases
<1>23. ASSUME NEW c \in Claimants, TakesLock(c)
      PROVE  LockHeld'
  BY <1>23, ClaimGotoFacts DEF TakesLock, ClaimAt
<1>24. ASSUME NEW c \in Claimants, AsksToHandOver(c)
      PROVE  LockHeld'
  BY <1>24 DEF AsksToHandOver, ClaimAt, At, KeeperStates, ClaimStates
<1>25. ASSUME NEW c \in Claimants, GivesUp(c)
      PROVE  LockHeld'
  BY <1>25, LeaveFacts, ZenonT(60) DEF GivesUp, ClaimAt
<1>26. ASSUME NEW c \in Claimants, RunBeats(c)
      PROVE  LockHeld'
  BY <1>26 DEF RunBeats, Write, ClaimStates
<1>27. ASSUME NEW c \in Claimants, ClaimStops(c)
      PROVE  LockHeld'
  <2>1. CASE lock = c
    <3>1. lock' = Nobody /\ UNCHANGED keeper
      BY <1>27, <2>1, LeaveFacts DEF ClaimStops
    <3>2. \A k \in Keepers : lock # k /\ lock' # k
      BY <2>1, <3>1
    <3>3. \A d \in Claimants : claim'[d].pc \notin {"holds", "published", "running", "ended"} /\ lock' # d
      BY <1>27, <2>1, <3>1, LeaveFacts DEF ClaimStops
    <3> QED
      BY <3>1, <3>2, <3>3
  <2>2. CASE lock # c
    BY <1>27, <2>2, LeaveFacts, ZenonT(60) DEF ClaimStops, ClaimAt
  <2> QED
    BY <2>1, <2>2
<1>28. ASSUME NEW a \in Calls, Connects(a)
      PROVE  LockHeld'
  BY <1>28, CallGotoFacts DEF Connects, CallAt, At, KeeperStates, CallStates
<1>29. ASSUME NEW a \in Calls, NEW k \in Keepers, Start(a, k)
      PROVE  LockHeld'
  BY <1>29, GotoFacts DEF Start, CallAt, At, CallStates
<1>30. ASSUME NEW k \in Keepers, NEW a \in Calls, Admits(k, a) \/ Runs(k, a)
              \/ Finishes(k, a)
      PROVE  LockHeld'
  BY <1>30, <1>0 DEF Admits, Runs, Finishes
<1>31. ASSUME NEW k \in Keepers, Heartbeat(k)
      PROVE  LockHeld'
  BY <1>31, <1>0 DEF Heartbeat
<1>32. ASSUME NEW a \in Calls, NEW by \in {"app", "desktop"}, Asks(a, by)
      PROVE  LockHeld'
  BY <1>32, <1>0 DEF Asks, callOnly
<1>33. ASSUME NEW a \in Calls, AnsweredHere(a) \/ NotSent(a) \/ Sends(a)
              \/ StopsWaiting(a) \/ Dropped(a) \/ Disconnects(a)
      PROVE  LockHeld'
  BY <1>33, <1>0 DEF AnsweredHere, callOnly, NotSent, Sends, StopsWaiting, Dropped,
     Disconnects
<1>34. CASE GoesStale
  BY <1>34, <1>0 DEF GoesStale
<1> HIDE DEF TypeOK, LockHeld, Holding
<1> QED
  BY <1>0, <1>1, <1>2, <1>3, <1>4, <1>5, <1>6, <1>7, <1>8, <1>9, <1>10, <1>11, <1>12,
     <1>13, <1>14, <1>15, <1>16, <1>17, <1>18, <1>19, <1>20, <1>21, <1>22, <1>23, <1>24,
     <1>25, <1>26, <1>27, <1>28, <1>29, <1>30, <1>31, <1>32, <1>33, <1>34 DEF Next,
     KeeperSteps, WorkSteps, ClaimSteps, Resolves

\* Whoever writes the record holds the lock.
LEMMA RecordStep ==
  ASSUME TypeOK, LockHeld, RecordOfRole, Next
  PROVE  RecordOfRole'
<1> USE ProcessAssumption DEF TypeOK, LockHeld, Holding, RecordOfRole, At
<1>0. UNCHANGED <<beats, claim, keeper, record>> => RecordOfRole'
  OBVIOUS
<1>1. ASSUME NEW k \in Keepers, ProbesIntent(k)
      PROVE  RecordOfRole'
  BY <1>1, GotoFacts DEF ProbesIntent, At
<1>2. ASSUME NEW k \in Keepers, TakesVault(k)
      PROVE  RecordOfRole'
  BY <1>2, GotoFacts DEF TakesVault, At
<1>3. ASSUME NEW k \in Keepers, ProbesAgain(k)
      PROVE  RecordOfRole'
  BY <1>3, GotoFacts DEF ProbesAgain, At
<1>4. ASSUME NEW k \in Keepers, Announces(k)
      PROVE  RecordOfRole'
  BY <1>4, GotoFacts DEF Announces, At, Write
<1>5. ASSUME NEW k \in Keepers, Builds(k)
      PROVE  RecordOfRole'
  BY <1>5, GotoFacts DEF Builds, At
<1>6. ASSUME NEW k \in Keepers, Publishes(k)
      PROVE  RecordOfRole'
  BY <1>6, TenureFacts DEF Publishes, At
<1>7. ASSUME NEW k \in Keepers, Leaves(k)
      PROVE  RecordOfRole'
  BY <1>7 DEF Leaves, At, Unwrite, KeeperStates, NoRecord
<1>8. ASSUME NEW k \in Keepers, Drains(k)
      PROVE  RecordOfRole'
  BY <1>8, GotoFacts DEF Drains, At, InFlight, KeeperStates
<1>9. ASSUME NEW k \in Keepers, Exits(k)
      PROVE  RecordOfRole'
  BY <1>9, EndsFacts DEF Exits, At, Write, Gone, NoRecord
<1>10. ASSUME NEW k \in Keepers, Heartbeat(k)
      PROVE  RecordOfRole'
  BY <1>10 DEF Heartbeat, Write
<1>11. ASSUME NEW k \in Keepers, CannotBuild(k)
      PROVE  RecordOfRole'
  BY <1>11, EndsFacts DEF CannotBuild, At, Write, Unwrite, Gone, NoRecord
<1>12. ASSUME NEW k \in Keepers, Rotates(k)
      PROVE  RecordOfRole'
  BY <1>12, TenureFacts DEF Rotates, At
<1>13. ASSUME NEW k \in Keepers, CannotPublish(k)
      PROVE  RecordOfRole'
  BY <1>13 DEF CannotPublish, At, KeeperStates
<1>14. ASSUME NEW k \in Keepers, ModeChanges(k)
      PROVE  RecordOfRole'
  BY <1>14 DEF ModeChanges, Stops, At, KeeperStates
<1>15. ASSUME NEW k \in Keepers, IdlesOut(k)
      PROVE  RecordOfRole'
  BY <1>15 DEF IdlesOut, Stops, At, KeeperStates
<1>16. ASSUME NEW k \in Keepers, ShutsDown(k)
      PROVE  RecordOfRole'
  BY <1>16 DEF ShutsDown, Stops, At, KeeperStates
<1>17. ASSUME NEW k \in Keepers, Killed(k)
      PROVE  RecordOfRole'
  BY <1>17, EndsFacts DEF Killed, At, Gone, NoRecord
<1>18. ASSUME NEW c \in Claimants, NEW kind \in {"own", "now", "nightly"}, Claims(c, kind)
      PROVE  RecordOfRole'
  BY <1>18 DEF Claims, ClaimAt, ClaimStates
<1>19. ASSUME NEW c \in Claimants, DeclaresIntent(c)
      PROVE  RecordOfRole'
  BY <1>19, ClaimGotoFacts DEF DeclaresIntent, ClaimAt
<1>20. ASSUME NEW c \in Claimants, Holds(c)
      PROVE  RecordOfRole'
  BY <1>20, ClaimGotoFacts DEF Holds, ClaimAt, Write, ClaimStates
<1>21. ASSUME NEW c \in Claimants, GoesOn(c)
      PROVE  RecordOfRole'
  BY <1>21, ClaimGotoFacts DEF GoesOn, ClaimAt, ClaimStates
<1>22. ASSUME NEW c \in Claimants, Finished(c)
      PROVE  RecordOfRole'
  BY <1>22, ClaimGotoFacts DEF Finished, ClaimAt
<1>23. ASSUME NEW c \in Claimants, Releases(c)
      PROVE  RecordOfRole'
  <2>1. CASE ClaimAt(c, "ended")
    BY <1>23, <2>1, ClaimGotoFacts DEF Releases, ClaimAt, Unwrite, NoRecord
  <2>2. CASE ClaimAt(c, "unlocked") /\ lock = c
    BY <1>23, <2>2 DEF Releases, ClaimAt
  <2>3. CASE ClaimAt(c, "unlocked") /\ lock # c
    BY <1>23, <2>3, LeaveFacts, ZenonT(60) DEF Releases, ClaimAt
  <2> QED
    BY <1>23, <2>1, <2>2, <2>3 DEF Releases
<1>24. ASSUME NEW c \in Claimants, TakesLock(c)
      PROVE  RecordOfRole'
  BY <1>24, ClaimGotoFacts DEF TakesLock, ClaimAt
<1>25. ASSUME NEW c \in Claimants, AsksToHandOver(c)
      PROVE  RecordOfRole'
  BY <1>25 DEF AsksToHandOver, ClaimAt, At, KeeperStates, ClaimStates
<1>26. ASSUME NEW c \in Claimants, GivesUp(c)
      PROVE  RecordOfRole'
  BY <1>26, LeaveFacts, ZenonT(60) DEF GivesUp, ClaimAt
<1>27. ASSUME NEW c \in Claimants, RunBeats(c)
      PROVE  RecordOfRole'
  <2>1. /\ claim'[c].pc = claim[c].pc /\ claim[c].pc \in {"published", "running"}
        /\ \A d \in Claimants \ {c} : claim'[d] = claim[d]
    BY <1>27 DEF RunBeats, ClaimStates
  <2>2. record' = [role |-> "maintenance", of |-> c, fresh |-> TRUE] /\ UNCHANGED <<beats, keeper>>
    BY <1>27 DEF RunBeats, Write
  <2> QED
    BY <2>1, <2>2, ZenonT(60)
<1>28. ASSUME NEW c \in Claimants, ClaimStops(c)
      PROVE  RecordOfRole'
  BY <1>28, LeaveFacts DEF ClaimStops, ClaimAt
<1>29. ASSUME NEW a \in Calls, Connects(a)
      PROVE  RecordOfRole'
  BY <1>29, CallGotoFacts DEF Connects, CallAt, At, KeeperStates, CallStates
<1>30. ASSUME NEW a \in Calls, NEW k \in Keepers, Start(a, k)
      PROVE  RecordOfRole'
  BY <1>30, GotoFacts DEF Start, CallAt, At, CallStates
<1>31. CASE GoesStale
  BY <1>31 DEF GoesStale
<1>32. ASSUME NEW k \in Keepers, NEW a \in Calls, Admits(k, a) \/ Runs(k, a)
              \/ Finishes(k, a)
      PROVE  RecordOfRole'
  BY <1>32, <1>0 DEF Admits, Runs, Finishes
<1>33. ASSUME NEW a \in Calls, NEW by \in {"app", "desktop"}, Asks(a, by)
      PROVE  RecordOfRole'
  BY <1>33, <1>0 DEF Asks, callOnly
<1>34. ASSUME NEW a \in Calls, AnsweredHere(a) \/ NotSent(a) \/ Sends(a)
              \/ StopsWaiting(a) \/ Dropped(a) \/ Disconnects(a)
      PROVE  RecordOfRole'
  BY <1>34, <1>0 DEF AnsweredHere, callOnly, NotSent, Sends, StopsWaiting, Dropped,
     Disconnects
<1> HIDE DEF TypeOK, LockHeld, Holding, RecordOfRole, At
<1> QED
  BY <1>0, <1>1, <1>2, <1>3, <1>4, <1>5, <1>6, <1>7, <1>8, <1>9, <1>10, <1>11, <1>12,
     <1>13, <1>14, <1>15, <1>16, <1>17, <1>18, <1>19, <1>20, <1>21, <1>22, <1>23, <1>24,
     <1>25, <1>26, <1>27, <1>28, <1>29, <1>30, <1>31, <1>32, <1>33, <1>34 DEF Next,
     KeeperSteps, WorkSteps, ClaimSteps, Resolves

\* Work arrives over a connection to a keeper that serves, and the connections
\* end with the keeper.
LEMMA CallStep ==
  ASSUME TypeOK, RecordOfRole, CallsServed, Next
  PROVE  CallsServed'
<1> USE ProcessAssumption DEF TypeOK, RecordOfRole, CallsServed, Taking
<1>0. UNCHANGED <<call, keeper>> => CallsServed'
  OBVIOUS
<1>1. ASSUME NEW k \in Keepers, ProbesIntent(k)
      PROVE  CallsServed'
  BY <1>1, GotoFacts DEF ProbesIntent, At
<1>2. ASSUME NEW k \in Keepers, TakesVault(k)
      PROVE  CallsServed'
  BY <1>2, GotoFacts DEF TakesVault, At
<1>3. ASSUME NEW k \in Keepers, ProbesAgain(k)
      PROVE  CallsServed'
  BY <1>3, GotoFacts DEF ProbesAgain, At
<1>4. ASSUME NEW k \in Keepers, Announces(k)
      PROVE  CallsServed'
  BY <1>4, GotoFacts DEF Announces, At, Write
<1>5. ASSUME NEW k \in Keepers, Builds(k)
      PROVE  CallsServed'
  BY <1>5, GotoFacts DEF Builds, At
<1>6. ASSUME NEW k \in Keepers, Publishes(k)
      PROVE  CallsServed'
  BY <1>6, TenureFacts DEF Publishes, At
<1>7. ASSUME NEW k \in Keepers, Leaves(k)
      PROVE  CallsServed'
  BY <1>7 DEF Leaves, At, Unwrite, KeeperStates, NoRecord
<1>8. ASSUME NEW k \in Keepers, Drains(k)
      PROVE  CallsServed'
  BY <1>8, GotoFacts DEF Drains, At, InFlight, KeeperStates
<1>9. ASSUME NEW k \in Keepers, Exits(k)
      PROVE  CallsServed'
  BY <1>9, EndsFacts DEF Exits, At, Write, Gone, NoRecord
<1>10. ASSUME NEW k \in Keepers, NEW a \in Calls, Admits(k, a)
      PROVE  CallsServed'
  BY <1>10 DEF Admits, CallStates
<1>11. ASSUME NEW k \in Keepers, NEW a \in Calls, Runs(k, a)
      PROVE  CallsServed'
  BY <1>11 DEF Runs, Replies, CallStates
<1>12. ASSUME NEW k \in Keepers, NEW a \in Calls, Finishes(k, a)
      PROVE  CallsServed'
  BY <1>12 DEF Finishes, Replies, CallStates
<1>13. ASSUME NEW k \in Keepers, CannotBuild(k)
      PROVE  CallsServed'
  BY <1>13, EndsFacts DEF CannotBuild, At, Write, Unwrite, Gone, NoRecord
<1>14. ASSUME NEW k \in Keepers, Rotates(k)
      PROVE  CallsServed'
  BY <1>14, TenureFacts DEF Rotates, At
<1>15. ASSUME NEW k \in Keepers, CannotPublish(k)
      PROVE  CallsServed'
  BY <1>15 DEF CannotPublish, At, KeeperStates
<1>16. ASSUME NEW k \in Keepers, ModeChanges(k)
      PROVE  CallsServed'
  BY <1>16 DEF ModeChanges, Stops, At, KeeperStates
<1>17. ASSUME NEW k \in Keepers, IdlesOut(k)
      PROVE  CallsServed'
  BY <1>17 DEF IdlesOut, Stops, At, KeeperStates
<1>18. ASSUME NEW k \in Keepers, ShutsDown(k)
      PROVE  CallsServed'
  BY <1>18 DEF ShutsDown, Stops, At, KeeperStates
<1>19. ASSUME NEW k \in Keepers, Killed(k)
      PROVE  CallsServed'
  BY <1>19, EndsFacts DEF Killed, At, Gone, NoRecord
<1>20. ASSUME NEW c \in Claimants, AsksToHandOver(c)
      PROVE  CallsServed'
  BY <1>20 DEF AsksToHandOver, ClaimAt, At, KeeperStates, ClaimStates
<1>21. ASSUME NEW a \in Calls, NEW by \in {"app", "desktop"}, Asks(a, by)
      PROVE  CallsServed'
  BY <1>21 DEF Asks, CallAt, callOnly, CallStates
<1>22. ASSUME NEW a \in Calls, AnsweredHere(a)
      PROVE  CallsServed'
  BY <1>22, CallGotoFacts DEF AnsweredHere, CallAt, callOnly, CallStates
<1>23. ASSUME NEW a \in Calls, Connects(a)
      PROVE  CallsServed'
  BY <1>23, CallGotoFacts, SMTT(60) DEF Connects, CallAt, At, KeeperStates, CallStates
<1>24. ASSUME NEW a \in Calls, NEW k \in Keepers, Start(a, k)
      PROVE  CallsServed'
  BY <1>24, GotoFacts DEF Start, CallAt, At, CallStates
<1>25. ASSUME NEW a \in Calls, NotSent(a)
      PROVE  CallsServed'
  BY <1>25, CallGotoFacts DEF NotSent, CallAt, callOnly, CallStates
<1>26. ASSUME NEW a \in Calls, Sends(a)
      PROVE  CallsServed'
  BY <1>26 DEF Sends, CallAt, callOnly, CallStates
<1>27. ASSUME NEW a \in Calls, StopsWaiting(a)
      PROVE  CallsServed'
  BY <1>27, CallGotoFacts DEF StopsWaiting, CallAt, callOnly, CallStates
<1>28. ASSUME NEW a \in Calls, Dropped(a)
      PROVE  CallsServed'
  BY <1>28 DEF Dropped, CallAt, callOnly, CallStates
<1>29. ASSUME NEW a \in Calls, Disconnects(a)
      PROVE  CallsServed'
  BY <1>29 DEF Disconnects, CallAt, callOnly, CallStates
<1>30. ASSUME NEW k \in Keepers, Heartbeat(k)
      PROVE  CallsServed'
  BY <1>30, <1>0 DEF Heartbeat
<1>31. ASSUME NEW c \in Claimants, NEW kind \in {"own", "now", "nightly"}, Claims(c, kind)
      PROVE  CallsServed'
  BY <1>31, <1>0 DEF Claims
<1>32. ASSUME NEW c \in Claimants, DeclaresIntent(c) \/ Holds(c) \/ GoesOn(c)
              \/ Finished(c) \/ Releases(c) \/ TakesLock(c) \/ GivesUp(c) \/ RunBeats(c)
              \/ ClaimStops(c)
      PROVE  CallsServed'
  BY <1>32, <1>0 DEF DeclaresIntent, Holds, GoesOn, Finished, Releases, TakesLock,
     GivesUp, RunBeats, ClaimStops
<1>33. CASE GoesStale
  BY <1>33, <1>0 DEF GoesStale
<1> HIDE DEF TypeOK, RecordOfRole, CallsServed, Taking
<1> QED
  BY <1>0, <1>1, <1>2, <1>3, <1>4, <1>5, <1>6, <1>7, <1>8, <1>9, <1>10, <1>11, <1>12,
     <1>13, <1>14, <1>15, <1>16, <1>17, <1>18, <1>19, <1>20, <1>21, <1>22, <1>23, <1>24,
     <1>25, <1>26, <1>27, <1>28, <1>29, <1>30, <1>31, <1>32, <1>33 DEF Next,
     KeeperSteps, WorkSteps, ClaimSteps, Resolves

\* What is admitted after the keeper closed is refused.
LEMMA DrainStep ==
  ASSUME TypeOK, CallsServed, Draining, Next
  PROVE  Draining'
<1> USE ProcessAssumption DEF TypeOK, CallsServed, Draining, At
<1>0. UNCHANGED <<call, keeper>> => Draining'
  OBVIOUS
<1>1. ASSUME NEW k \in Keepers, ProbesIntent(k)
      PROVE  Draining'
  BY <1>1, GotoFacts DEF ProbesIntent, At
<1>2. ASSUME NEW k \in Keepers, TakesVault(k)
      PROVE  Draining'
  BY <1>2, GotoFacts DEF TakesVault, At
<1>3. ASSUME NEW k \in Keepers, ProbesAgain(k)
      PROVE  Draining'
  BY <1>3, GotoFacts DEF ProbesAgain, At
<1>4. ASSUME NEW k \in Keepers, Announces(k)
      PROVE  Draining'
  BY <1>4, GotoFacts DEF Announces, At, Write
<1>5. ASSUME NEW k \in Keepers, Builds(k)
      PROVE  Draining'
  BY <1>5, GotoFacts DEF Builds, At
<1>6. ASSUME NEW k \in Keepers, Publishes(k)
      PROVE  Draining'
  BY <1>6, TenureFacts DEF Publishes, At
<1>7. ASSUME NEW k \in Keepers, Leaves(k)
      PROVE  Draining'
  BY <1>7 DEF Leaves, At, Unwrite, KeeperStates, NoRecord
<1>8. ASSUME NEW k \in Keepers, Drains(k)
      PROVE  Draining'
  BY <1>8, GotoFacts DEF Drains, At, InFlight, KeeperStates
<1>9. ASSUME NEW k \in Keepers, Exits(k)
      PROVE  Draining'
  BY <1>9, EndsFacts DEF Exits, At, Write, Gone, NoRecord
<1>10. ASSUME NEW k \in Keepers, NEW a \in Calls, Admits(k, a)
      PROVE  Draining'
  BY <1>10 DEF Admits, CallStates
<1>11. ASSUME NEW k \in Keepers, NEW a \in Calls, Runs(k, a)
      PROVE  Draining'
  BY <1>11 DEF Runs, Replies, CallStates
<1>12. ASSUME NEW k \in Keepers, NEW a \in Calls, Finishes(k, a)
      PROVE  Draining'
  BY <1>12 DEF Finishes, Replies, CallStates
<1>13. ASSUME NEW k \in Keepers, CannotBuild(k)
      PROVE  Draining'
  BY <1>13, EndsFacts DEF CannotBuild, At, Write, Unwrite, Gone, NoRecord
<1>14. ASSUME NEW k \in Keepers, Rotates(k)
      PROVE  Draining'
  BY <1>14, TenureFacts DEF Rotates, At
<1>15. ASSUME NEW k \in Keepers, CannotPublish(k)
      PROVE  Draining'
  BY <1>15 DEF CannotPublish, At, KeeperStates
<1>16. ASSUME NEW k \in Keepers, ModeChanges(k)
      PROVE  Draining'
  BY <1>16 DEF ModeChanges, Stops, At, KeeperStates
<1>17. ASSUME NEW k \in Keepers, IdlesOut(k)
      PROVE  Draining'
  BY <1>17 DEF IdlesOut, Stops, At, KeeperStates
<1>18. ASSUME NEW k \in Keepers, ShutsDown(k)
      PROVE  Draining'
  BY <1>18 DEF ShutsDown, Stops, At, KeeperStates
<1>19. ASSUME NEW k \in Keepers, Killed(k)
      PROVE  Draining'
  BY <1>19, EndsFacts DEF Killed, At, Gone, NoRecord
<1>20. ASSUME NEW c \in Claimants, AsksToHandOver(c)
      PROVE  Draining'
  BY <1>20 DEF AsksToHandOver, ClaimAt, At, KeeperStates, ClaimStates
<1>21. ASSUME NEW a \in Calls, NEW by \in {"app", "desktop"}, Asks(a, by)
      PROVE  Draining'
  BY <1>21 DEF Asks, CallAt, callOnly, CallStates
<1>22. ASSUME NEW a \in Calls, AnsweredHere(a)
      PROVE  Draining'
  BY <1>22, CallGotoFacts DEF AnsweredHere, CallAt, callOnly, CallStates
<1>23. ASSUME NEW a \in Calls, Connects(a)
      PROVE  Draining'
  BY <1>23, CallGotoFacts, SMTT(60) DEF Connects, CallAt, At, KeeperStates, CallStates
<1>24. ASSUME NEW a \in Calls, NEW k \in Keepers, Start(a, k)
      PROVE  Draining'
  BY <1>24, GotoFacts DEF Start, CallAt, At, CallStates
<1>25. ASSUME NEW a \in Calls, NotSent(a)
      PROVE  Draining'
  BY <1>25, CallGotoFacts DEF NotSent, CallAt, callOnly, CallStates
<1>26. ASSUME NEW a \in Calls, Sends(a)
      PROVE  Draining'
  BY <1>26 DEF Sends, CallAt, callOnly, CallStates
<1>27. ASSUME NEW a \in Calls, StopsWaiting(a)
      PROVE  Draining'
  BY <1>27, CallGotoFacts DEF StopsWaiting, CallAt, callOnly, CallStates
<1>28. ASSUME NEW a \in Calls, Dropped(a)
      PROVE  Draining'
  BY <1>28 DEF Dropped, CallAt, callOnly, CallStates
<1>29. ASSUME NEW a \in Calls, Disconnects(a)
      PROVE  Draining'
  BY <1>29 DEF Disconnects, CallAt, callOnly, CallStates
<1>30. ASSUME NEW k \in Keepers, Heartbeat(k)
      PROVE  Draining'
  BY <1>30, <1>0 DEF Heartbeat
<1>31. ASSUME NEW c \in Claimants, NEW kind \in {"own", "now", "nightly"}, Claims(c, kind)
      PROVE  Draining'
  BY <1>31, <1>0 DEF Claims
<1>32. ASSUME NEW c \in Claimants, DeclaresIntent(c) \/ Holds(c) \/ GoesOn(c)
              \/ Finished(c) \/ Releases(c) \/ TakesLock(c) \/ GivesUp(c) \/ RunBeats(c)
              \/ ClaimStops(c)
      PROVE  Draining'
  BY <1>32, <1>0 DEF DeclaresIntent, Holds, GoesOn, Finished, Releases, TakesLock,
     GivesUp, RunBeats, ClaimStops
<1>33. CASE GoesStale
  BY <1>33, <1>0 DEF GoesStale
<1> HIDE DEF TypeOK, CallsServed, Draining, At
<1> QED
  BY <1>0, <1>1, <1>2, <1>3, <1>4, <1>5, <1>6, <1>7, <1>8, <1>9, <1>10, <1>11, <1>12,
     <1>13, <1>14, <1>15, <1>16, <1>17, <1>18, <1>19, <1>20, <1>21, <1>22, <1>23, <1>24,
     <1>25, <1>26, <1>27, <1>28, <1>29, <1>30, <1>31, <1>32, <1>33 DEF Next,
     KeeperSteps, WorkSteps, ClaimSteps, Resolves

----------------------------------------------------------------------------
(* The theorems *)

\* At first nobody has anything.
LEMMA InitIInv == Init => IInv
<1> SUFFICES ASSUME Init
             PROVE  IInv
  OBVIOUS
<1> USE ProcessAssumption DEF Init
<1>1. TypeOK
  BY DEF TypeOK, NoRecord, Gone, NoClaim, NotAsked, Records, KeeperStates, ClaimStates,
     CallStates
<1>2. LockHeld
  BY DEF LockHeld, Holding, Gone, NoClaim
<1>3. RecordOfRole
  BY DEF RecordOfRole, At, NoRecord, Gone, NoClaim
<1>4. CallsServed
  BY DEF CallsServed, NotAsked
<1>5. Draining
  BY DEF Draining, At, Gone
<1> QED
  BY <1>1, <1>2, <1>3, <1>4, <1>5 DEF IInv

LEMMA StepIInv == IInv /\ [Next]_vars => IInv'
<1> SUFFICES ASSUME IInv, [Next]_vars
             PROVE  IInv'
  OBVIOUS
<1>1. CASE Next
  BY <1>1, TypeStep, LockStep, RecordStep, CallStep, DrainStep DEF IInv
<1>2. CASE UNCHANGED vars
  BY <1>2 DEF vars, IInv, TypeOK, LockHeld, RecordOfRole, CallsServed, Draining, At
<1> QED
  BY <1>1, <1>2

LEMMA Invariant == Spec => []IInv
BY InitIInv, StepIInv, PTL DEF Spec

(***************************************************************************)
(* Whoever starts, stops, hands over or claims, one process at a time has  *)
(* the stores open (keeper/mod.rs, exclusive.rs: the vault lock), to the   *)
(* end of its last call, and the discovery file names it.                  *)
(***************************************************************************)
THEOREM OneOwnerAlways == Spec => []HandoverInv
<1>1. IInv => HandoverInv
  <2> SUFFICES ASSUME IInv
               PROVE  HandoverInv
    OBVIOUS
  <2>1. ASSUME NEW p \in Opened
        PROVE  p = lock
    <3>1. CASE p \in Keepers /\ keeper[p].pc \notin {"off", "started", "probed", "locked", "announced"}
      BY <3>1 DEF IInv, TypeOK, KeeperStates, LockHeld, Holding
    <3>2. CASE p \in Claimants /\ claim[p].pc = "running"
      BY <3>2 DEF IInv, LockHeld
    <3> QED
      BY <2>1, <3>1, <3>2 DEF Opened
  <2>2. ASSUME NEW a \in Calls, call[a].work = "running"
        PROVE  call[a].to \in Opened
    <3>1. call[a].to \in Keepers
      BY <2>2 DEF IInv, TypeOK, CallStates, CallsServed
    <3> QED
      BY <2>2, <3>1 DEF IInv, CallsServed, Taking, Opened
  <2>3. OneOwner
    BY <2>1, <2>2 DEF OneOwner
  <2>4. RecordNamesOwner
    BY DEF IInv, RecordOfRole, RecordNamesOwner, ClaimAt
  <2> QED
    BY <2>3, <2>4 DEF IInv, HandoverInv
<1> QED
  BY <1>1, Invariant, PTL

(***************************************************************************)
(* A call reported as never sent has not run and never will: it is safe to *)
(* try it again (keeper/relay: NotSent).                                   *)
(***************************************************************************)
THEOREM NotSentIsSafe == Spec => []NotSentNeverRuns
<1>1. IInv => NotSentNeverRuns
  BY DEF IInv, CallsServed, NotSentNeverRuns
<1> QED
  BY <1>1, Invariant, PTL

(***************************************************************************)
(* A keeper that hands over and drains within its ten seconds leaves no    *)
(* call half done, although calls go on arriving while it drains.          *)
(***************************************************************************)
THEOREM CleanDrain == Spec => []DrainedCleanly
<1>1. IInv => DrainedCleanly
  BY DEF IInv, Draining, DrainedCleanly
<1> QED
  BY <1>1, Invariant, PTL

\* Only the second probe of the intent commits a keeper to opening the vault.
LEMMA OnlyProbesCommit ==
  ASSUME TypeOK, RecordOfRole, Next, intent # Nobody
  PROVE  Committed' \subseteq Committed
<1> USE DEF TypeOK, RecordOfRole, Committed
<1>0. UNCHANGED <<keeper>> => Committed' \subseteq Committed
  OBVIOUS
<1>1. ASSUME NEW k \in Keepers, ProbesIntent(k)
      PROVE  Committed' \subseteq Committed
  BY <1>1, GotoFacts DEF ProbesIntent, At
<1>2. ASSUME NEW k \in Keepers, TakesVault(k)
      PROVE  Committed' \subseteq Committed
  BY <1>2, GotoFacts DEF TakesVault, At
<1>3. ASSUME NEW k \in Keepers, ProbesAgain(k)
      PROVE  Committed' \subseteq Committed
  BY <1>3, GotoFacts DEF ProbesAgain, At
<1>4. ASSUME NEW k \in Keepers, Announces(k)
      PROVE  Committed' \subseteq Committed
  BY <1>4, GotoFacts DEF Announces, At, Write
<1>5. ASSUME NEW k \in Keepers, Builds(k)
      PROVE  Committed' \subseteq Committed
  BY <1>5, GotoFacts DEF Builds, At
<1>6. ASSUME NEW k \in Keepers, Publishes(k)
      PROVE  Committed' \subseteq Committed
  BY <1>6, TenureFacts DEF Publishes, At
<1>7. ASSUME NEW k \in Keepers, Leaves(k)
      PROVE  Committed' \subseteq Committed
  BY <1>7 DEF Leaves, At, Unwrite, KeeperStates, NoRecord
<1>8. ASSUME NEW k \in Keepers, Drains(k)
      PROVE  Committed' \subseteq Committed
  BY <1>8, GotoFacts DEF Drains, At, InFlight, KeeperStates
<1>9. ASSUME NEW k \in Keepers, Exits(k)
      PROVE  Committed' \subseteq Committed
  BY <1>9, EndsFacts DEF Exits, At, Write, Gone, NoRecord
<1>10. ASSUME NEW k \in Keepers, CannotBuild(k)
      PROVE  Committed' \subseteq Committed
  BY <1>10, EndsFacts DEF CannotBuild, At, Write, Unwrite, Gone, NoRecord
<1>11. ASSUME NEW k \in Keepers, Rotates(k)
      PROVE  Committed' \subseteq Committed
  BY <1>11, TenureFacts DEF Rotates, At
<1>12. ASSUME NEW k \in Keepers, CannotPublish(k)
      PROVE  Committed' \subseteq Committed
  BY <1>12 DEF CannotPublish, At, KeeperStates
<1>13. ASSUME NEW k \in Keepers, ModeChanges(k)
      PROVE  Committed' \subseteq Committed
  BY <1>13 DEF ModeChanges, Stops, At, KeeperStates
<1>14. ASSUME NEW k \in Keepers, IdlesOut(k)
      PROVE  Committed' \subseteq Committed
  BY <1>14 DEF IdlesOut, Stops, At, KeeperStates
<1>15. ASSUME NEW k \in Keepers, ShutsDown(k)
      PROVE  Committed' \subseteq Committed
  BY <1>15 DEF ShutsDown, Stops, At, KeeperStates
<1>16. ASSUME NEW k \in Keepers, Killed(k)
      PROVE  Committed' \subseteq Committed
  BY <1>16, EndsFacts DEF Killed, At, Gone, NoRecord
<1>17. ASSUME NEW c \in Claimants, AsksToHandOver(c)
      PROVE  Committed' \subseteq Committed
  BY <1>17 DEF AsksToHandOver, ClaimAt, At, KeeperStates, ClaimStates
<1>18. ASSUME NEW a \in Calls, Connects(a)
      PROVE  Committed' \subseteq Committed
  BY <1>18, CallGotoFacts DEF Connects, CallAt, At, KeeperStates, CallStates
<1>19. ASSUME NEW a \in Calls, NEW k \in Keepers, Start(a, k)
      PROVE  Committed' \subseteq Committed
  BY <1>19, GotoFacts DEF Start, CallAt, At, CallStates
<1>20. ASSUME NEW k \in Keepers, NEW a \in Calls, Admits(k, a) \/ Runs(k, a)
              \/ Finishes(k, a)
      PROVE  Committed' \subseteq Committed
  BY <1>20, <1>0 DEF Admits, Runs, Finishes
<1>21. ASSUME NEW k \in Keepers, Heartbeat(k)
      PROVE  Committed' \subseteq Committed
  BY <1>21, <1>0 DEF Heartbeat
<1>22. ASSUME NEW c \in Claimants, NEW kind \in {"own", "now", "nightly"}, Claims(c, kind)
      PROVE  Committed' \subseteq Committed
  BY <1>22, <1>0 DEF Claims
<1>23. ASSUME NEW c \in Claimants, DeclaresIntent(c) \/ Holds(c) \/ GoesOn(c)
              \/ Finished(c) \/ Releases(c) \/ TakesLock(c) \/ GivesUp(c) \/ RunBeats(c)
              \/ ClaimStops(c)
      PROVE  Committed' \subseteq Committed
  BY <1>23, <1>0 DEF DeclaresIntent, Holds, GoesOn, Finished, Releases, TakesLock,
     GivesUp, RunBeats, ClaimStops
<1>24. ASSUME NEW a \in Calls, NEW by \in {"app", "desktop"}, Asks(a, by)
      PROVE  Committed' \subseteq Committed
  BY <1>24, <1>0 DEF Asks, callOnly
<1>25. ASSUME NEW a \in Calls, AnsweredHere(a) \/ NotSent(a) \/ Sends(a)
              \/ StopsWaiting(a) \/ Dropped(a) \/ Disconnects(a)
      PROVE  Committed' \subseteq Committed
  BY <1>25, <1>0 DEF AnsweredHere, callOnly, NotSent, Sends, StopsWaiting, Dropped,
     Disconnects
<1>26. CASE GoesStale
  BY <1>26, <1>0 DEF GoesStale
<1> QED
  BY <1>0, <1>1, <1>2, <1>3, <1>4, <1>5, <1>6, <1>7, <1>8, <1>9, <1>10, <1>11, <1>12,
     <1>13, <1>14, <1>15, <1>16, <1>17, <1>18, <1>19, <1>20, <1>21, <1>22, <1>23, <1>24,
     <1>25, <1>26 DEF Next, KeeperSteps, WorkSteps, ClaimSteps, Resolves

(***************************************************************************)
(* While a claim that declared the intent waits for the lock, no keeper    *)
(* that was not already past both its probes sets out to open the vault.   *)
(***************************************************************************)
THEOREM IntentFirst == Spec => IntentGoesFirst
<1>1. IInv /\ [Next]_vars =>
        [\A c \in Claimants :
           ClaimAt(c, "lock") /\ intent = c /\ intent' = c => Committed' \subseteq Committed]_vars
  <2> SUFFICES ASSUME IInv, Next, NEW c \in Claimants, intent = c
               PROVE  Committed' \subseteq Committed
    BY DEF ClaimAt
  <2> QED
    BY OnlyProbesCommit, ProcessAssumption DEF IInv
<1> QED
  BY <1>1, Invariant, PTL DEF Spec, IntentGoesFirst

============================================================================
