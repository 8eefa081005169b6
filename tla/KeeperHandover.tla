--------------------------- MODULE KeeperHandover ---------------------------
(***************************************************************************)
(* Who has the vault.  One keeper process at a time serves it to the AI    *)
(* apps' relays and the desktop; an erasure, an update, a move or a        *)
(* maintenance run takes it for itself.  What they share is two lock files *)
(* (.vault.intent, .vault.lock) and the discovery file, and one connection *)
(* per relay.  Each process may stop at any step.                          *)
(***************************************************************************)
EXTENDS Integers, FiniteSets

CONSTANTS
  Keepers,      \* keeper processes (a place is used again after an exit)
  Claimants,    \* processes that take the vault for themselves
  Calls,        \* tool calls, each through its own relay
  Nobody,       \* the holder of a lock nobody holds
  MaxClaims,    \* bound: claims ever made
  MaxTroubles   \* bound: stops, failures, time-outs and refusals

ASSUME ProcessAssumption ==
  /\ Keepers \cap Claimants = {} /\ Nobody \notin Keepers \cup Claimants
  /\ {MaxClaims, MaxTroubles} \subseteq Nat

VARIABLES
  intent,   \* who holds .vault.intent
  lock,     \* who holds .vault.lock
  record,   \* the discovery file
  beats,    \* keepers whose starting heartbeat runs
  keeper,   \* per keeper: where it is, why it stops, whether it takes no more work
  claim,    \* per claimant: where it is, what for, and which tenures it has asked,
            \* and whether its record was written
  call,     \* per call: what its relay knows, where it went, and what the keeper does
  last      \* claims made and troubles had

vars == <<intent, lock, record, beats, keeper, claim, call, last>>

NoRecord == [role |-> "none", of |-> Nobody, fresh |-> FALSE]
Gone == [pc |-> "off", stop |-> "none", closed |-> FALSE]
NoClaim == [pc |-> "idle", kind |-> "none", asked |-> {}, told |-> FALSE]
NotAsked == [pc |-> "none", by |-> "none", to |-> Nobody, seen |-> Nobody, work |-> "none"]

Records == [role : {"none", "starting", "keeper", "failed", "maintenance"},
            of : Keepers \cup Claimants \cup {Nobody}, fresh : BOOLEAN]

KeeperStates ==
  [pc : {"off", "started", "probed", "locked", "announced", "building", "built",
         "serving", "leaving", "draining", "drained"},
   stop : {"none", "handover", "late", "mode", "idle", "shutdown", "error"}, closed : BOOLEAN]

ClaimStates ==
  [pc : {"idle", "intent", "lock", "holds", "published", "running", "ended", "unlocked"},
   kind : {"none", "own", "now", "nightly"}, asked : SUBSET Keepers, told : BOOLEAN]

CallStates ==
  [pc : {"none", "resolving", "found", "sent", "answered", "notsent", "timedout", "lost"},
   by : {"none", "app", "desktop"},
   to : Keepers \cup {Nobody}, seen : Keepers \cup {Nobody},
   work : {"none", "arrived", "admitted", "running", "done", "refused", "dropped"}]

TypeOK ==
  /\ intent \in Claimants \cup {Nobody}
  /\ lock \in Keepers \cup Claimants \cup {Nobody}
  /\ record \in Records
  /\ beats \subseteq Keepers
  /\ keeper \in [Keepers -> KeeperStates]
  /\ claim \in [Claimants -> ClaimStates]
  /\ call \in [Calls -> CallStates]
  /\ last \in [claim : 0..MaxClaims, trouble : 0..MaxTroubles]

Init ==
  /\ intent = Nobody /\ lock = Nobody
  /\ record = NoRecord
  /\ beats = {}
  /\ keeper = [k \in Keepers |-> Gone]
  /\ claim = [c \in Claimants |-> NoClaim]
  /\ call = [a \in Calls |-> NotAsked]
  /\ last = [claim |-> 0, trouble |-> 0]

----------------------------------------------------------------------------

Trouble == last.trouble < MaxTroubles /\ last' = [last EXCEPT !.trouble = @ + 1]

At(k, pc) == keeper[k].pc = pc
Goto(k, pc) == keeper' = [keeper EXCEPT ![k].pc = pc]

Write(role, of) == record' = [role |-> role, of |-> of, fresh |-> TRUE]
Unwrite(role, of) ==
  record' = IF record.role = role /\ record.of = of THEN NoRecord ELSE record

\* InFlight: counted from arrival until the guard is dropped.
InFlight(k) == {a \in Calls : call[a].to = k /\ call[a].work \in {"admitted", "running"}}

\* A keeper's end closes its sessions: the work is dropped where it is, a relay
\* that waits for an answer has lost it, and one about to send cannot.
Closed(k) ==
  [a \in Calls |->
     IF call[a].to # k THEN call[a]
     ELSE [call[a] EXCEPT
             !.to = Nobody,
             !.pc = CASE @ = "sent" -> "lost" [] @ = "found" -> "notsent" [] OTHER -> @,
             !.work = IF @ \in {"arrived", "admitted", "running"} THEN "dropped" ELSE @]]

\* The process is gone: its lock, its sessions and its heartbeat with it.
Ends(k) ==
  /\ keeper' = [keeper EXCEPT ![k] = Gone]
  /\ lock' = IF lock = k THEN Nobody ELSE lock
  /\ beats' = beats \ {k}
  /\ call' = Closed(k)
  /\ claim' = [c \in Claimants |-> [claim[c] EXCEPT !.asked = @ \ {k}]]

----------------------------------------------------------------------------
(* A keeper's start: dispatch_keeper. *)

ProbesIntent(k) ==
  /\ At(k, "started")
  /\ Goto(k, IF intent = Nobody THEN "probed" ELSE "off")
  /\ UNCHANGED <<intent, lock, record, beats, claim, call, last>>

TakesVault(k) ==
  /\ At(k, "probed")
  /\ IF lock = Nobody THEN lock' = k /\ Goto(k, "locked") ELSE UNCHANGED lock /\ Goto(k, "off")
  /\ UNCHANGED <<intent, record, beats, claim, call, last>>

\* Seeded fault: the intent is probed only before the lock.
ProbesOnce(k) ==
  /\ At(k, "locked") /\ Goto(k, "announced")
  /\ UNCHANGED <<intent, lock, record, beats, claim, call, last>>

\* Probed again under the lock: whoever declared the intent since goes first.
ProbesAgain(k) ==
  /\ At(k, "locked")
  /\ IF intent = Nobody THEN Goto(k, "announced") /\ UNCHANGED lock
     ELSE Goto(k, "off") /\ lock' = Nobody
  /\ UNCHANGED <<intent, record, beats, claim, call, last>>

\* The starting record, then the vault is opened while a heartbeat renews it.
\* That it could not be written is ignored: it is for the relays only.
Announces(k) ==
  /\ At(k, "announced")
  /\ \/ Write("starting", k) /\ UNCHANGED last
     \/ Trouble /\ UNCHANGED record
  /\ beats' = beats \cup {k}
  /\ Goto(k, "building")
  /\ UNCHANGED <<intent, lock, claim, call>>

Heartbeat(k) ==
  /\ k \in beats
  /\ Write("starting", k) /\ record' # record
  /\ UNCHANGED <<intent, lock, beats, keeper, claim, call, last>>

\* The heartbeat is stopped and awaited before anything else is published.
Builds(k) ==
  /\ At(k, "building") /\ Goto(k, "built")
  /\ beats' = beats \ {k}
  /\ UNCHANGED <<intent, lock, record, claim, call, last>>

\* The vault could not be opened (the failed record), there is nothing to
\* serve (lock mode without a key), or an early error leaves the record.
CannotBuild(k) ==
  /\ At(k, "building") /\ Trouble
  /\ \/ Write("failed", k)
     \/ Unwrite("starting", k)
     \/ UNCHANGED record
  /\ Ends(k)
  /\ UNCHANGED intent

----------------------------------------------------------------------------
(* Serving: runtime::serve. *)

\* bind_fresh and publish: a new endpoint and nonce, so a new tenure to ask.
NewTenure(k) ==
  /\ Write("keeper", k)
  /\ Goto(k, "serving")
  /\ claim' = [c \in Claimants |-> [claim[c] EXCEPT !.asked = @ \ {k}]]
  /\ UNCHANGED <<intent, lock, beats, call>>

Publishes(k) == At(k, "built") /\ NewTenure(k) /\ UNCHANGED last

\* The listener failed; the sessions go on.
Rotates(k) == At(k, "serving") /\ Trouble /\ NewTenure(k)

\* No endpoint, or the record cannot be written.
CannotPublish(k) ==
  /\ At(k, "built") \/ At(k, "serving")
  /\ Trouble
  /\ keeper' = [keeper EXCEPT ![k].stop = "error",
                  ![k].pc = IF @ = "built" THEN "drained" ELSE "leaving"]
  /\ UNCHANGED <<intent, lock, record, beats, claim, call>>

\* A tool call is counted as it arrives, and only then asked whether the
\* keeper still takes work.
Admits(k, a) ==
  /\ call[a].to = k /\ call[a].work = "arrived"
  /\ call' = [call EXCEPT ![a].work = "admitted"]
  /\ UNCHANGED <<intent, lock, record, beats, keeper, claim, last>>

Replies(a, work) ==
  call' = [call EXCEPT ![a].work = work, ![a].pc = IF @ = "sent" THEN "answered" ELSE @]

\* Refused when the keeper is closing or the subscription is not active;
\* otherwise it runs.
Runs(k, a) ==
  /\ call[a].to = k /\ call[a].work = "admitted"
  /\ \/ ~keeper[k].closed /\ call' = [call EXCEPT ![a].work = "running"]
     \/ Replies(a, "refused")
  /\ UNCHANGED <<intent, lock, record, beats, keeper, claim, last>>

Finishes(k, a) ==
  /\ call[a].to = k /\ call[a].work = "running"
  /\ Replies(a, "done")
  /\ UNCHANGED <<intent, lock, record, beats, keeper, claim, last>>

Stops(k, why) ==
  /\ At(k, "serving") /\ keeper[k].stop = "none"
  /\ keeper' = [keeper EXCEPT ![k].stop = why]
  /\ UNCHANGED <<intent, lock, record, beats, call>>

\* The subscription changed: stop once no call is in flight.
ModeChanges(k) == Stops(k, "mode") /\ InFlight(k) = {} /\ Trouble /\ UNCHANGED claim

\* Nobody has been connected for five minutes.  A relay that is looking for a
\* keeper tries every few hundred milliseconds: that it misses them all is rare.
IdlesOut(k) ==
  /\ Stops(k, "idle")
  /\ \A a \in Calls : call[a].to # k
  /\ IF \E a \in Calls : call[a].pc = "resolving" THEN Trouble ELSE UNCHANGED last
  /\ UNCHANGED claim

\* The computer is shutting down, or the launcher went away: no drain.
ShutsDown(k) == Stops(k, "shutdown") /\ Trouble /\ UNCHANGED claim

\* Seeded fault: a keeper that hands over goes on taking work.
LeavesOpen(k) ==
  /\ (At(k, "serving") /\ keeper[k].stop # "none") \/ At(k, "leaving")
  /\ Unwrite("keeper", k)
  /\ Goto(k, IF keeper[k].stop = "handover" THEN "draining" ELSE "drained")
  /\ UNCHANGED <<intent, lock, beats, claim, call, last>>

\* The loop is left: the discovery file goes first, if it is still this
\* tenure's; a keeper that hands over takes no more work and drains.
Leaves(k) ==
  /\ (At(k, "serving") /\ keeper[k].stop # "none") \/ At(k, "leaving")
  /\ Unwrite("keeper", k)
  /\ keeper' = [keeper EXCEPT
       ![k].pc = IF keeper[k].stop = "handover" THEN "draining" ELSE "drained",
       ![k].closed = keeper[k].stop = "handover"]
  /\ UNCHANGED <<intent, lock, beats, claim, call, last>>

\* Seeded fault: the vault is let go before the calls in flight are over.
UnlocksFirst(k) ==
  /\ At(k, "draining") /\ Goto(k, "drained") /\ lock' = Nobody
  /\ UNCHANGED <<intent, record, beats, claim, call, last>>

\* The calls in flight are over, or the ten seconds are.
Drains(k) ==
  /\ At(k, "draining")
  /\ IF InFlight(k) = {} THEN Goto(k, "drained") /\ UNCHANGED last
     ELSE Trouble /\ keeper' = [keeper EXCEPT ![k].pc = "drained", ![k].stop = "late"]
  /\ UNCHANGED <<intent, lock, record, beats, claim, call>>

\* The connections are closed and the process ends.
Exits(k) ==
  /\ At(k, "drained")
  /\ IF keeper[k].stop = "error" THEN Write("failed", k) ELSE UNCHANGED record
  /\ Ends(k)
  /\ UNCHANGED <<intent, last>>

\* A keeper is stopped at any step.
Killed(k) ==
  /\ ~At(k, "off") /\ Trouble
  /\ Ends(k)
  /\ UNCHANGED <<intent, record>>

----------------------------------------------------------------------------
(* Taking the vault: take_exclusive, and what is done with it. *)

ClaimAt(c, pc) == claim[c].pc = pc
ClaimGoto(c, pc) == claim' = [claim EXCEPT ![c].pc = pc]

\* An erasure, update or move ("own"), "Run now", or the nightly run, which
\* declares no intent.
Claims(c, kind) ==
  /\ ClaimAt(c, "idle") /\ last.claim < MaxClaims
  /\ last' = [last EXCEPT !.claim = @ + 1]
  /\ claim' = [claim EXCEPT ![c].kind = kind,
                            ![c].pc = IF kind = "nightly" THEN "lock" ELSE "intent"]
  /\ UNCHANGED <<intent, lock, record, beats, keeper, call>>

DeclaresIntent(c) ==
  /\ ClaimAt(c, "intent") /\ intent = Nobody
  /\ intent' = c
  /\ ClaimGoto(c, "lock")
  /\ UNCHANGED <<lock, record, beats, keeper, call, last>>

TakesLock(c) ==
  /\ ClaimAt(c, "lock") /\ lock = Nobody
  /\ lock' = c
  /\ ClaimGoto(c, "holds")
  /\ UNCHANGED <<intent, record, beats, keeper, call, last>>

\* Seeded fault: the keeper counts as asked, and was not reached.
AsksInVain(c) ==
  /\ ClaimAt(c, "lock") /\ intent = c
  /\ record.role = "keeper" /\ record.of \notin claim[c].asked
  /\ claim' = [claim EXCEPT ![c].asked = @ \cup {record.of}]
  /\ UNCHANGED <<intent, lock, record, beats, keeper, call, last>>

\* Each tenure the record names is asked once it can be reached.
AsksToHandOver(c) ==
  /\ ClaimAt(c, "lock") /\ intent = c
  /\ record.role = "keeper" /\ record.of \notin claim[c].asked
  /\ At(record.of, "serving")
  /\ claim' = [claim EXCEPT ![c].asked = @ \cup {record.of}]
  /\ keeper' = [keeper EXCEPT ![record.of].stop = IF @ = "none" THEN "handover" ELSE @]
  /\ UNCHANGED <<intent, lock, record, beats, call, last>>

Leave(c) ==
  /\ claim' = [claim EXCEPT ![c] = NoClaim]
  /\ intent' = IF intent = c THEN Nobody ELSE intent
  /\ lock' = IF lock = c THEN Nobody ELSE lock

\* The wait is over; the nightly run does not wait.
GivesUp(c) ==
  /\ ClaimAt(c, "intent") \/ (ClaimAt(c, "lock") /\ lock # Nobody)
  /\ IF claim[c].kind = "nightly" THEN UNCHANGED last ELSE Trouble
  /\ Leave(c)
  /\ UNCHANGED <<record, beats, keeper, call>>

\* The run is published before the intent is given up; an erasure, an update
\* or a move is not announced.
Holds(c) ==
  /\ ClaimAt(c, "holds")
  /\ \/ /\ claim[c].kind = "own"
        /\ ClaimGoto(c, "running")
        /\ UNCHANGED <<record, last>>
     \/ /\ claim[c].kind # "own"
        /\ claim' = [claim EXCEPT ![c].pc = "published", ![c].told = TRUE]
        /\ Write("maintenance", c) /\ UNCHANGED last
     \/ /\ claim[c].kind # "own" /\ Trouble
        /\ ClaimGoto(c, "published")
        /\ UNCHANGED record
  /\ UNCHANGED <<intent, lock, beats, keeper, call>>

\* into_lock; a run that finds the vault wanted by somebody else ends.
GoesOn(c) ==
  /\ ClaimAt(c, "published")
  /\ IF intent = c THEN intent' = Nobody /\ UNCHANGED claim
     ELSE ClaimGoto(c, IF intent = Nobody THEN "running" ELSE "ended") /\ UNCHANGED intent
  /\ UNCHANGED <<lock, record, beats, keeper, call, last>>

\* Its heartbeat, which also makes up for a record that could not be written.
RunBeats(c) ==
  /\ claim[c].kind # "own" /\ claim[c].pc \in {"published", "running"}
  /\ Write("maintenance", c)
  /\ claim' = [claim EXCEPT ![c].told = TRUE]
  /\ <<record, claim>>' # <<record, claim>>
  /\ UNCHANGED <<intent, lock, beats, keeper, call, last>>

Finished(c) ==
  /\ ClaimAt(c, "running")
  /\ ClaimGoto(c, "ended")
  /\ UNCHANGED <<intent, lock, record, beats, keeper, call, last>>

\* The record goes, then the lock, then the intent.
Releases(c) ==
  /\ \/ /\ ClaimAt(c, "ended")
        /\ Unwrite("maintenance", c) /\ ClaimGoto(c, "unlocked")
        /\ UNCHANGED <<intent, lock>>
     \/ /\ ClaimAt(c, "unlocked") /\ lock = c
        /\ lock' = Nobody /\ UNCHANGED <<intent, record, claim>>
     \/ ClaimAt(c, "unlocked") /\ lock # c /\ Leave(c) /\ UNCHANGED record
  /\ UNCHANGED <<beats, keeper, call, last>>

ClaimStops(c) ==
  /\ ~ClaimAt(c, "idle") /\ Trouble
  /\ Leave(c)
  /\ UNCHANGED <<record, beats, keeper, call>>

\* A record without its heartbeat is trusted for a while only.
GoesStale ==
  /\ record.role \in {"starting", "maintenance", "failed"} /\ record.fresh
  /\ record' = [record EXCEPT !.fresh = FALSE]
  /\ record.role = "starting" => record.of \notin beats
  /\ record.role = "maintenance" => claim[record.of].pc \notin {"published", "running"}
  /\ UNCHANGED <<intent, lock, beats, keeper, claim, call, last>>

----------------------------------------------------------------------------
(* A call: KeeperPool::call and resolve. *)

CallAt(a, pc) == call[a].pc = pc
CallGoto(a, pc) == call' = [call EXCEPT ![a].pc = pc]
callOnly == <<intent, lock, record, beats, keeper, claim>>

Asks(a, by) ==
  /\ CallAt(a, "none")
  /\ call' = [call EXCEPT ![a].pc = "resolving", ![a].by = by]
  /\ UNCHANGED <<callOnly, last>>

\* A failure is final for an app; the desktop starts one keeper for it, and
\* only that one's failure is.
FailureIsFinal(a) ==
  /\ record.role = "failed" /\ record.fresh
  /\ call[a].by = "desktop" => call[a].seen \notin {Nobody, record.of}

\* Somebody takes the vault in this desktop, whose link must start no keeper.
Poisoned(a) == call[a].by = "desktop" /\ \E c \in Claimants : claim[c].kind = "own"

\* Answered at once: nothing could be started now.
AnsweredHere(a) ==
  /\ CallAt(a, "resolving")
  /\ \/ FailureIsFinal(a)
     \/ record.role = "maintenance" /\ record.fresh
     \/ Poisoned(a)
  /\ CallGoto(a, "notsent")
  /\ UNCHANGED <<callOnly, last>>

\* The keeper the record names is there; it may refuse this relay (another
\* key, another version), or agree to make room for a newer one.
Connects(a) ==
  /\ CallAt(a, "resolving") /\ ~Poisoned(a)
  /\ record.role = "keeper" /\ At(record.of, "serving")
  /\ \/ /\ call' = [call EXCEPT ![a].pc = "found", ![a].to = record.of]
        /\ UNCHANGED <<last, keeper>>
     \/ Trouble /\ CallGoto(a, "notsent") /\ UNCHANGED keeper
     \/ /\ Trouble /\ keeper' = [keeper EXCEPT ![record.of].stop = IF @ = "none" THEN "handover" ELSE @]
        /\ UNCHANGED call
  /\ UNCHANGED <<intent, lock, record, beats, claim>>

\* Seeded fault: a starting record is trusted however old it is.
StartsPatiently(a, k) ==
  /\ CallAt(a, "resolving") /\ ~Poisoned(a) /\ ~FailureIsFinal(a)
  /\ record.role \notin {"starting", "maintenance"}
  /\ record.role = "keeper" => ~At(record.of, "serving")
  /\ At(k, "off")
  /\ Goto(k, "started")
  /\ UNCHANGED <<intent, lock, record, beats, claim, call, last>>

\* No usable keeper: one is asked for, unless one is starting.
Start(a, k) ==
  /\ CallAt(a, "resolving") /\ ~Poisoned(a) /\ ~FailureIsFinal(a)
  /\ record.role \in {"starting", "maintenance"} => ~record.fresh
  /\ record.role = "keeper" => ~At(record.of, "serving")
  /\ At(k, "off")
  /\ Goto(k, "started")
  /\ call' = [call EXCEPT ![a].seen =
        IF record.role = "failed" /\ record.fresh /\ @ = Nobody THEN record.of ELSE @]
  /\ UNCHANGED <<intent, lock, record, beats, claim, last>>

\* Cancelled, or the time is up before it was sent.
NotSent(a) ==
  /\ CallAt(a, "resolving") \/ CallAt(a, "found")
  /\ CallGoto(a, "notsent")
  /\ UNCHANGED <<callOnly, last>>

Sends(a) ==
  /\ CallAt(a, "found")
  /\ call' = [call EXCEPT ![a].pc = "sent", ![a].work = "arrived"]
  /\ UNCHANGED <<callOnly, last>>

\* Seeded fault: a call whose time ran out is reported as never sent.
StopsWaitingUnsent(a) ==
  /\ CallAt(a, "sent") /\ Trouble
  /\ CallGoto(a, "notsent")
  /\ UNCHANGED callOnly

\* The time is up: the keeper is told to drop the call.
StopsWaiting(a) ==
  /\ CallAt(a, "sent") /\ Trouble
  /\ CallGoto(a, "timedout")
  /\ UNCHANGED callOnly

\* The cancel of a call the keeper has not seen yet is ignored.
Dropped(a) ==
  /\ CallAt(a, "timedout") /\ call[a].work \in {"admitted", "running"}
  /\ call' = [call EXCEPT ![a].work = "dropped"]
  /\ UNCHANGED <<callOnly, last>>

\* An unused connection is closed.
Disconnects(a) ==
  /\ call[a].pc \in {"answered", "notsent", "timedout"} /\ call[a].to # Nobody
  /\ call[a].work \notin {"arrived", "admitted", "running"}
  /\ call' = [call EXCEPT ![a].to = Nobody]
  /\ UNCHANGED <<callOnly, last>>

----------------------------------------------------------------------------

KeeperSteps(k) ==
  \/ ProbesIntent(k) \/ TakesVault(k) \/ ProbesAgain(k) \/ Announces(k) \/ Builds(k)
  \/ Publishes(k) \/ Leaves(k) \/ Drains(k) \/ Exits(k)

WorkSteps(k) == \E a \in Calls : Admits(k, a) \/ Runs(k, a) \/ Finishes(k, a)

ClaimSteps(c) == DeclaresIntent(c) \/ Holds(c) \/ GoesOn(c) \/ Finished(c) \/ Releases(c)

Resolves(a) ==
  AnsweredHere(a) \/ Connects(a) \/ \E k \in Keepers : Start(a, k)

Next ==
  \/ \E k \in Keepers :
       \/ KeeperSteps(k) \/ WorkSteps(k) \/ Heartbeat(k) \/ CannotBuild(k) \/ Rotates(k)
       \/ CannotPublish(k) \/ ModeChanges(k) \/ IdlesOut(k)
       \/ ShutsDown(k) \/ Killed(k)
  \/ \E c \in Claimants :
       \/ (\E kind \in {"own", "now", "nightly"} : Claims(c, kind))
       \/ ClaimSteps(c) \/ TakesLock(c) \/ AsksToHandOver(c) \/ GivesUp(c)
       \/ RunBeats(c) \/ ClaimStops(c)
  \/ \E a \in Calls :
       \/ (\E by \in {"app", "desktop"} : Asks(a, by))
       \/ Resolves(a) \/ NotSent(a) \/ Sends(a) \/ StopsWaiting(a)
       \/ Dropped(a) \/ Disconnects(a)
  \/ GoesStale

(***************************************************************************)
(* Fairness: every process that is running takes its next step, polls      *)
(* included, and a poll sooner or later meets what lasts only a moment; a  *)
(* record goes stale.  Nothing is assumed of time-outs, stops, failures,   *)
(* idle exits or changes of the subscription: they may come or not.        *)
(***************************************************************************)
Fairness ==
  /\ WF_vars(GoesStale)
  /\ \A k \in Keepers :
       WF_vars(KeeperSteps(k)) /\ \A a \in Calls : WF_vars(Admits(k, a) \/ Runs(k, a) \/ Finishes(k, a))
  /\ \A c \in Claimants :
       WF_vars(ClaimSteps(c)) /\ WF_vars(AsksToHandOver(c)) /\ SF_vars(TakesLock(c))
  /\ \A a \in Calls : SF_vars(Resolves(a)) /\ WF_vars(Sends(a))

Spec == Init /\ [][Next]_vars /\ Fairness

----------------------------------------------------------------------------

\* Processes that have the vault's stores open.
Opened ==
  {k \in Keepers : keeper[k].pc \notin {"off", "started", "probed", "locked", "announced"}}
    \cup {c \in Claimants : claim[c].pc = "running"}

\* One process at a time has the stores open, to the end of its last call.
OneOwner ==
  /\ \A p, q \in Opened : p = q
  /\ \A a \in Calls : call[a].work = "running" => call[a].to \in Opened

\* The discovery file names the keeper that serves and the run that holds the
\* vault (once it could be written), whatever earlier holders, their heartbeats
\* and their ends wrote.
RecordNamesOwner ==
  /\ \A k \in Keepers : At(k, "serving") =>
       record = [role |-> "keeper", of |-> k, fresh |-> TRUE]
  /\ \A c \in Claimants : ClaimAt(c, "running") /\ claim[c].told =>
       record = [role |-> "maintenance", of |-> c, fresh |-> TRUE]

\* Every variable has its shape, and the vault one owner, the one the discovery
\* file names, whoever starts, stops, is suspended, hands over or claims.
HandoverInv == TypeOK /\ OneOwner /\ RecordNamesOwner

\* Keepers that have got past both their probes.
Committed == {k \in Keepers : keeper[k].pc \notin {"off", "started", "probed", "locked"}}

\* Whoever declared the intent goes first: while the claim waits, a keeper that
\* was not on its way to open the vault does not set out any more.
IntentGoesFirst ==
  [][\A c \in Claimants :
       ClaimAt(c, "lock") /\ intent = c /\ intent' = c => Committed' \subseteq Committed]_vars

\* "It never left this process: safe to report, and to try again."
NotSentNeverRuns ==
  \A a \in Calls : call[a].pc = "notsent" => call[a].work = "none"

\* A keeper that hands over within its ten seconds leaves no call half done.
DrainedCleanly ==
  \A k \in Keepers : At(k, "drained") /\ keeper[k].stop = "handover" =>
    \A a \in Calls : call[a].to = k => call[a].work # "running"

\* Who has declared the intent gets the vault (or gives up when its time is
\* over), however many keepers are starting and being asked for.
ClaimTaken ==
  \A c \in Claimants : (ClaimAt(c, "lock") /\ intent = c) ~> ~ClaimAt(c, "lock")

\* A call is answered or its loss is noticed, although nothing is assumed of
\* its deadline: finding a keeper never goes on for ever.
CallEnds ==
  \A a \in Calls : CallAt(a, "resolving") ~> ~(call[a].pc \in {"resolving", "found", "sent"})

=============================================================================
