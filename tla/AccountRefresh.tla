---------------------------- MODULE AccountRefresh ----------------------------
(***************************************************************************)
(* The account on this computer.  The identity provider gives a new        *)
(* refresh token at every use and ends the whole grant when a spent one is *)
(* shown to it again.  The desktop and the keeper share the credential     *)
(* store and the account folder (signed-in, lease, state.json) under       *)
(* refresh.lock; each keeps in memory a token the store refused.           *)
(***************************************************************************)
EXTENDS Integers

CONSTANTS
  Processes,    \* processes that refresh
  Desktop,      \* the one of them that signs in, signs out and bills
  Refusing,     \* those whose writes the credential store may refuse
  Users,
  FirstUser,    \* the one of them, no matter which, who signs in first
  Nobody,       \* the holder of a lock nobody holds
  MaxWait,      \* bound: ticks between the reading of the clock and the lock
  Minute,       \* ticks between two refreshes
  Hour,         \* ticks between two after a signed end
  MaxGrants,    \* bound: sign-ins ever begun
  MaxTroubles   \* bound: stops, network and credential store failures

ASSUME AccountAssumption ==
  /\ Desktop \in Processes /\ Refusing \subseteq Processes
  /\ Nobody \notin Processes \cup Users /\ FirstUser \in Users
  /\ {MaxWait, Minute, Hour, MaxGrants, MaxTroubles} \subseteq Nat
  /\ MaxWait < Minute /\ Minute <= Hour

VARIABLES
  grants,   \* at the provider: whose each grant is, and whether it is alive
  stored,   \* the token in the credential store
  unsaved,  \* per process: the rotated token the store refused
  marker,   \* the signed-in file: the grant it was written for (0: none)
  lease,    \* the lease file: the grant it was fetched with (0: none), ended or not
  record,   \* state.json: age of the last attempt, last use
  lock,     \* who holds refresh.lock
  job,      \* per process: what it is doing
  called,   \* age of the last call a refresh made, since the record's reset (history)
  lost,     \* grants whose live token nobody has any more (history)
  troubles

vars == <<grants, stored, unsaved, marker, lease, record, lock, job, called, lost, troubles>>

Grants == 1..MaxGrants

\* A token is known by its grant and by whether it is the live one.
NoToken == [grant |-> 0, live |-> FALSE]
NoLease == [grant |-> 0, ended |-> FALSE]
NoGrant == [user |-> Nobody, alive |-> FALSE]
\* Ages are in ticks; what is older than any interval is LongAgo.
LongAgo == Hour + MaxWait
Age == 0..LongAgo
\* Of a call, what no interval, less a wait, reaches.
LongSince == Hour - MaxWait

NoRecord == [attempt |-> LongAgo, use |-> "unknown"]
Idle == [pc |-> "idle", for |-> "none", asked |-> 0, newer |-> FALSE, hand |-> NoToken,
         again |-> FALSE, ended |-> FALSE]

Token == {NoToken} \cup [grant : Grants, live : BOOLEAN]

Jobs ==
  [pc : {"idle", "wait", "locked", "rotate", "ask", "again", "save", "fetch", "lease",
         "record", "mark", "nolease", "reset", "clear", "clearlease", "clearstate",
         "forget", "revoke", "signedout"},
   for : {"none", "denial", "routine", "user", "refresh", "billing", "signin", "signout"},
   asked : 0..MaxWait, newer : BOOLEAN, hand : Token, again : BOOLEAN, ended : BOOLEAN]

\* Where a job has no lock: before it gets it, and while a sign-out revokes.
Unlocked == {"idle", "wait", "signedout"}

TypeOK ==
  /\ grants \in [Grants -> [user : Users \cup {Nobody}, alive : BOOLEAN]]
  /\ stored \in Token /\ unsaved \in [Processes -> Token]
  /\ marker \in 0..MaxGrants
  /\ lease \in [grant : 0..MaxGrants, ended : BOOLEAN]
  /\ record \in [attempt : Age, use : {"unknown", "recent", "month"}]
  /\ lock \in Processes \cup {Nobody}
  /\ job \in [Processes -> Jobs]
  /\ called \in 0..LongSince
  /\ lost \subseteq Grants
  /\ troubles \in 0..MaxTroubles
  /\ \A p \in Processes : lock = p <=> job[p].pc \notin Unlocked

Init ==
  /\ grants = [g \in Grants |-> NoGrant]
  /\ stored = NoToken /\ unsaved = [p \in Processes |-> NoToken]
  /\ marker = 0 /\ lease = NoLease /\ record = NoRecord
  /\ lock = Nobody
  /\ job = [p \in Processes |-> Idle]
  /\ called = LongSince /\ lost = {} /\ troubles = 0

----------------------------------------------------------------------------

Trouble == troubles < MaxTroubles /\ troubles' = troubles + 1

At(p, pc) == job[p].pc = pc
Goto(p, pc) == job' = [job EXCEPT ![p].pc = pc]
Refreshing(p) == job[p].for \in {"denial", "routine", "user", "refresh"}

\* A refresh that goes by what it saw before it had the lock.
Judging(p) == Refreshing(p) /\ job[p].pc \in {"wait", "locked"}

files == <<marker, lease, record>>
tokens == <<stored, unsaved>>

\* The lease on disk, if it verifies for the user the marker names.
Leased == /\ marker # 0 /\ lease.grant # 0
          /\ grants[lease.grant].user = grants[marker].user

Live(g) == [grant |-> g, live |-> TRUE]

\* Whose live token is gone when p drops what it works with.
Dropped(p) ==
  {g \in Grants : job[p].hand = Live(g) /\ Live(g) \notin {stored, unsaved[p]}}

\* The job ends and lets go of the lock.
Done(p) ==
  /\ job' = [job EXCEPT ![p] = Idle]
  /\ lock' = IF lock = p THEN Nobody ELSE lock

----------------------------------------------------------------------------
(* refresh, up to the rotation. *)

\* A refresh is asked for: the caller has read the clock, a moment ago, and which
\* lease is current is remembered.
Asks(p, for) ==
  /\ At(p, "idle")
  /\ for = "user" => p = Desktop
  /\ for = "denial" => p # Desktop
  /\ for # "user" => marker # 0
  /\ \E ago \in 0..MaxWait :
       job' = [job EXCEPT ![p] =
         [Idle EXCEPT !.pc = "wait", !.for = for, !.asked = ago, !.newer = ~Leased]]
  /\ UNCHANGED <<grants, tokens, files, lock, called, lost, troubles>>

\* A checkout, or a sign-out.
Wants(for) ==
  /\ At(Desktop, "idle")
  /\ job' = [job EXCEPT ![Desktop] = [Idle EXCEPT !.pc = "wait", !.for = for]]
  /\ UNCHANGED <<grants, tokens, files, lock, called, lost, troubles>>

Begins(p) ==
  IF job[p].for = "signout"
  THEN /\ job' = [job EXCEPT ![p].pc = "clear",
                            ![p].hand = IF unsaved[p] # NoToken THEN unsaved[p] ELSE stored]
       /\ unsaved' = [unsaved EXCEPT ![p] = NoToken]
  ELSE Goto(p, IF job[p].for = "signin" THEN "save" ELSE "locked") /\ UNCHANGED unsaved

\* A sign-out takes with it the token it will revoke: the refused one, which is
\* the live one, or the stored one.
Locks(p) ==
  /\ At(p, "wait") /\ lock = Nobody
  /\ lock' = p
  /\ Begins(p)
  /\ UNCHANGED <<grants, stored, files, called, lost, troubles>>

\* The lock stayed busy: skipped, or "Busy" for what the user did.
LockBusy(p) ==
  /\ At(p, "wait") /\ lock \notin {Nobody, p}
  /\ Done(p)
  /\ lost' = lost \cup Dropped(p)
  /\ UNCHANGED <<grants, tokens, files, called, troubles>>

Interval(p) == IF job[p].for = "denial" /\ Leased /\ lease.ended THEN Hour ELSE Minute

\* The record is judged by the clock as it was before the wait; an attempt later
\* than that counts as none.
RefreshAllowed(p) ==
  \/ job[p].for = "user"
  \/ record.attempt < job[p].asked
  \/ record.attempt >= job[p].asked + Interval(p)

\* Nobody is signed in, somebody else refreshed meanwhile, or it is too soon.
Skips(p) ==
  /\ At(p, "locked")
  /\ \/ marker = 0
     \/ Refreshing(p) /\ Leased /\ job[p].newer
     \/ Refreshing(p) /\ ~RefreshAllowed(p)
  /\ Done(p)
  /\ UNCHANGED <<grants, tokens, files, called, lost, troubles>>

Younger(a, b) == IF a < b THEN a ELSE b

\* Seeded fault: the attempt is recorded after the call only.
StartsUnrecorded(p) ==
  /\ At(p, "locked") /\ marker # 0
  /\ Refreshing(p) => ~(Leased /\ job[p].newer) /\ RefreshAllowed(p)
  /\ called' = IF Refreshing(p) THEN 0 ELSE called
  /\ Goto(p, "rotate")
  /\ UNCHANGED <<grants, tokens, files, lock, lost, troubles>>

\* The attempt is recorded before the network is touched (not for billing), at
\* the time the caller read.
Starts(p) ==
  /\ At(p, "locked") /\ marker # 0
  /\ IF Refreshing(p)
     THEN /\ ~(Leased /\ job[p].newer) /\ RefreshAllowed(p)
          /\ record' = [record EXCEPT !.attempt = Younger(@, job[p].asked)]
          /\ called' = 0
     ELSE UNCHANGED <<record, called>>
  /\ job' = [job EXCEPT ![p].pc = "rotate", ![p].asked = 0, ![p].newer = FALSE,
                        ![p].for = IF Refreshing(p) THEN "refresh" ELSE @]
  /\ UNCHANGED <<grants, tokens, marker, lease, lock, lost, troubles>>

----------------------------------------------------------------------------
(* rotate_under_lock. *)

\* Seeded fault: the token the store refused earlier is not thought of.
TakesStored(p) ==
  /\ At(p, "rotate")
  /\ job' = [job EXCEPT ![p].hand = stored, ![p].pc = IF stored = NoToken THEN "clear" ELSE "ask"]
  /\ UNCHANGED <<grants, tokens, files, lock, called, lost, troubles>>

\* The token the store refused earlier is stored now, or used unstored; then
\* the stored one.  None at all signs out.
TakesToken(p) ==
  /\ At(p, "rotate")
  /\ \/ /\ unsaved[p] = NoToken
        /\ UNCHANGED <<tokens, troubles>>
     \/ /\ unsaved[p] # NoToken
        /\ stored' = unsaved[p] /\ unsaved' = [unsaved EXCEPT ![p] = NoToken]
        /\ UNCHANGED troubles
     \/ /\ unsaved[p] # NoToken /\ p \in Refusing /\ Trouble
        /\ UNCHANGED tokens
  /\ LET token == IF unsaved[p] # NoToken THEN unsaved[p] ELSE stored IN
     job' = [job EXCEPT ![p].hand = token, ![p].pc = IF token = NoToken THEN "clear" ELSE "ask"]
  /\ UNCHANGED <<grants, files, lock, called, lost>>

Aged(token, g) == IF token.grant = g THEN [token EXCEPT !.live = FALSE] ELSE token

\* The provider gives a new token for the live one, which is spent.
Rotates(p) ==
  LET g == job[p].hand.grant IN
  /\ At(p, "ask") /\ job[p].hand.live /\ grants[g].alive
  /\ stored' = Aged(stored, g)
  /\ unsaved' = [q \in Processes |-> Aged(unsaved[q], g)]
  /\ \/ job' = [job EXCEPT ![p].pc = "save", ![p].again = FALSE] /\ UNCHANGED <<lock, lost, troubles>>
     \/ Trouble /\ Done(p) /\ lost' = lost \cup {g}      \* the answer is lost
  /\ UNCHANGED <<grants, files, called>>

\* A spent token, or one of a dead grant: invalid_grant, and the grant dies.
Refuses(p) ==
  /\ At(p, "ask") /\ ~(job[p].hand.live /\ grants[job[p].hand.grant].alive)
  /\ grants' = [grants EXCEPT ![job[p].hand.grant].alive = FALSE]
  /\ Goto(p, "again")
  /\ UNCHANGED <<tokens, files, lock, called, lost, troubles>>

\* Seeded fault: a refused token ends the job, and nothing else.
LooksOnce(p) ==
  /\ At(p, "again")
  /\ Done(p)
  /\ UNCHANGED <<grants, tokens, files, called, lost, troubles>>

\* The store is read once more: another token there is tried, else the sign-in
\* is over.
LooksAgain(p) ==
  /\ At(p, "again")
  /\ IF ~job[p].again /\ stored # NoToken /\ stored # job[p].hand
     THEN /\ job' = [job EXCEPT ![p].pc = "ask", ![p].hand = stored, ![p].again = TRUE]
          /\ UNCHANGED unsaved
     ELSE /\ job' = [job EXCEPT ![p].pc = "clear", ![p].hand = NoToken, ![p].again = FALSE]
          /\ unsaved' = [unsaved EXCEPT ![p] = NoToken]
  /\ UNCHANGED <<grants, stored, files, lock, called, lost, troubles>>

\* Seeded fault: a token the store refuses is thrown away.
ForgetsRefused(p) ==
  /\ At(p, "save")
  /\ \/ /\ stored' = job[p].hand
        /\ IF job[p].for = "billing" THEN Done(p)
           ELSE Goto(p, IF Refreshing(p) THEN "fetch" ELSE "mark") /\ UNCHANGED lock
        /\ UNCHANGED troubles
     \/ p \in Refusing /\ Trouble /\ Done(p) /\ UNCHANGED stored
  /\ UNCHANGED <<grants, unsaved, files, called, lost>>

\* Seeded fault: a new sign-in leaves the token an earlier refresh could not store.
SavesBeside(p) ==
  /\ At(p, "save")
  /\ \/ /\ stored' = job[p].hand
        /\ IF job[p].for = "billing" THEN Done(p)
           ELSE Goto(p, IF Refreshing(p) THEN "fetch" ELSE "mark") /\ UNCHANGED lock
        /\ UNCHANGED <<unsaved, troubles>>
     \/ /\ p \in Refusing /\ Trouble /\ Done(p)
        /\ unsaved' = [unsaved EXCEPT ![p] = job[p].hand]
        /\ UNCHANGED stored
  /\ UNCHANGED <<grants, files, called, lost>>

\* Stored, and confirmed, before anything else.  A rotated token the store
\* refuses is kept in memory; a new sign-in's is given up.
Saves(p) ==
  /\ At(p, "save")
  /\ \/ /\ stored' = job[p].hand
        /\ unsaved' = [unsaved EXCEPT ![p] = NoToken]
        /\ IF job[p].for = "billing" THEN Done(p)
           ELSE Goto(p, IF Refreshing(p) THEN "fetch" ELSE "mark") /\ UNCHANGED lock
        /\ UNCHANGED <<lost, troubles>>
     \/ /\ p \in Refusing /\ Trouble /\ Done(p)
        /\ IF job[p].for = "signin" THEN lost' = lost \cup {job[p].hand.grant} /\ UNCHANGED unsaved
           ELSE unsaved' = [unsaved EXCEPT ![p] = job[p].hand] /\ UNCHANGED lost
        /\ UNCHANGED stored
  /\ UNCHANGED <<grants, files, called>>

----------------------------------------------------------------------------
(* The lease. *)

\* A lease of the token's user; it must be the marker's.  A month unused signs
\* out; a sign-in does without a lease.
Fetches(p) ==
  /\ At(p, "fetch")
  /\ \E ended \in BOOLEAN :
       IF grants[job[p].hand.grant].user # grants[marker].user THEN Done(p)
       ELSE /\ IF Refreshing(p) /\ record.use = "month" THEN Goto(p, "clear")
               ELSE job' = [job EXCEPT ![p].ended = ended, ![p].pc = "lease"]
            /\ UNCHANGED lock
  /\ UNCHANGED <<grants, tokens, files, called, lost, troubles>>

\* Everybody that waits sees that the lease is newer than the one it saw.
WritesLease(p) ==
  /\ At(p, "lease")
  /\ lease' = [grant |-> job[p].hand.grant, ended |-> job[p].ended]
  /\ job' = [q \in Processes |-> IF q = p THEN [job[p] EXCEPT !.pc = "record", !.ended = FALSE]
                                 ELSE [job[q] EXCEPT !.newer = @ \/ Judging(q)]]
  /\ UNCHANGED <<grants, tokens, marker, record, lock, called, lost, troubles>>

WritesRecord(p) ==
  /\ At(p, "record")
  /\ record' = [record EXCEPT !.use = IF @ = "unknown" THEN "recent" ELSE @]
  /\ Done(p)
  /\ UNCHANGED <<grants, tokens, marker, lease, called, lost, troubles>>

----------------------------------------------------------------------------
(* complete_sign_in, sign_out, sign_out_locally. *)

\* The browser's code is exchanged: a new grant.
SignsIn(user) ==
  /\ At(Desktop, "idle")
  /\ \E g \in Grants :
       /\ grants[g] = NoGrant /\ \A h \in Grants : h < g => grants[h] # NoGrant
       /\ g = 1 => user = FirstUser
       /\ grants' = [grants EXCEPT ![g] = [user |-> user, alive |-> TRUE]]
       /\ job' = [job EXCEPT ![Desktop] =
            [Idle EXCEPT !.pc = "wait", !.for = "signin", !.hand = [grant |-> g, live |-> TRUE]]]
  /\ UNCHANGED <<tokens, files, lock, called, lost, troubles>>

\* The token is stored; then the marker, no lease, and a fresh record.
Marks(p) ==
  /\ \/ At(p, "mark") /\ marker' = job[p].hand.grant /\ Goto(p, "nolease") /\ UNCHANGED <<lease, record, called>>
     \/ At(p, "nolease") /\ lease' = NoLease /\ Goto(p, "reset") /\ UNCHANGED <<marker, record, called>>
     \/ /\ At(p, "reset") /\ record' = NoRecord /\ called' = LongSince
        /\ Goto(p, "fetch") /\ UNCHANGED <<marker, lease>>
  /\ UNCHANGED <<grants, tokens, lock, lost, troubles>>

\* The marker first, then the lease and the record; then the token, whose removal
\* may fail.  A file that cannot be removed ends it.
Clears(p) ==
  /\ \/ At(p, "clear") /\ marker' = 0 /\ Goto(p, "clearlease") /\ UNCHANGED <<stored, lease, record, called, troubles>>
     \/ At(p, "clearlease") /\ lease' = NoLease /\ Goto(p, "clearstate") /\ UNCHANGED <<stored, marker, record, called, troubles>>
     \/ /\ At(p, "clearstate") /\ record' = NoRecord /\ called' = LongSince
        /\ Goto(p, "forget") /\ UNCHANGED <<stored, marker, lease, troubles>>
  /\ UNCHANGED <<grants, unsaved, lock, lost>>

\* A sign-out lets go of the lock before it revokes.
Forgets(p) ==
  /\ At(p, "forget")
  /\ (stored' = NoToken /\ UNCHANGED troubles) \/ (Trouble /\ UNCHANGED stored)
  /\ IF job[p].for = "signout" THEN Goto(p, "signedout") /\ lock' = Nobody
     ELSE Goto(p, "revoke") /\ UNCHANGED lock
  /\ UNCHANGED <<grants, unsaved, files, called, lost>>

\* What the server or the month ended is over all the same.
CannotClear(p) ==
  /\ job[p].pc \in {"clear", "clearlease", "clearstate"} /\ job[p].for # "signout" /\ Trouble
  /\ Goto(p, "revoke")
  /\ UNCHANGED <<grants, tokens, files, lock, called, lost>>

\* Best effort: a sign-out's token, or the one just received after a month.
Revokes(p) ==
  /\ job[p].pc \in {"revoke", "signedout"}
  /\ grants' = IF job[p].hand.live THEN [grants EXCEPT ![job[p].hand.grant].alive = FALSE] ELSE grants
  /\ Done(p)
  /\ UNCHANGED <<tokens, files, called, lost, troubles>>

----------------------------------------------------------------------------

\* A step under the lock fails: a file, the network, the store's read.  The
\* job ends where it is; a sign-in is complete without its first lease.
Fails(p) ==
  /\ \/ job[p].pc \in {"locked", "rotate", "ask", "again", "fetch", "lease", "record", "revoke",
                      "signedout"}
     \/ job[p].pc \in {"mark", "nolease", "reset"}
     \/ job[p].pc \in {"clear", "clearlease", "clearstate"} /\ job[p].for = "signout"
  /\ Trouble
  /\ Done(p)
  /\ lost' = lost \cup Dropped(p)
  /\ UNCHANGED <<grants, tokens, files, called>>

\* The process stops.
Killed(p) ==
  /\ Trouble
  /\ Done(p)
  /\ unsaved' = [unsaved EXCEPT ![p] = NoToken]
  /\ lost' = lost \cup {g \in Grants : Live(g) # stored /\ Live(g) \in {job[p].hand, unsaved[p]}}
  /\ UNCHANGED <<grants, stored, files, called>>

\* A served call, when the folder is free.
RecordsUse ==
  /\ lock = Nobody /\ Leased /\ ~lease.ended
  /\ record' = [record EXCEPT !.use = "recent"]
  /\ UNCHANGED <<grants, tokens, marker, lease, lock, job, called, lost, troubles>>

Older(age, most) == IF age < most THEN age + 1 ELSE age

\* Time passes: a tick, within which no wait is over its limit, or, when nobody
\* does anything, a month.
TimePasses ==
  /\ \/ /\ \A p \in Processes : Judging(p) => job[p].asked < MaxWait
        /\ record' = [record EXCEPT !.attempt = Older(@, LongAgo)] /\ called' = Older(called, LongSince)
        /\ job' = [p \in Processes |->
                     IF Judging(p) THEN [job[p] EXCEPT !.asked = @ + 1] ELSE job[p]]
     \/ /\ record.use = "recent" /\ \A p \in Processes : job[p] = Idle
        /\ record' = [record EXCEPT !.use = "month", !.attempt = LongAgo] /\ called' = LongSince
        /\ UNCHANGED job
  /\ UNCHANGED <<grants, tokens, marker, lease, lock, lost, troubles>>

Steps(p) ==
  \/ Skips(p) \/ Starts(p) \/ TakesToken(p) \/ Rotates(p) \/ Refuses(p) \/ LooksAgain(p)
  \/ Saves(p) \/ Fetches(p) \/ WritesLease(p) \/ WritesRecord(p) \/ Marks(p) \/ Clears(p)
  \/ Forgets(p) \/ Revokes(p)

Next ==
  \/ \E p \in Processes :
       \/ (\E for \in {"denial", "routine", "user"} : Asks(p, for))
       \/ Locks(p) \/ LockBusy(p) \/ Steps(p) \/ Fails(p) \/ CannotClear(p)
       \/ Killed(p)
  \/ \E for \in {"billing", "signout"} : Wants(for)
  \/ \E user \in Users : SignsIn(user)
  \/ RecordsUse \/ TimePasses

(***************************************************************************)
(* Fairness: who holds the lock goes on.  The desktop may never run: a     *)
(* lease then arrives through the calls of the apps, who call again and    *)
(* again while there is none, also while nobody holds the lock; and the    *)
(* process they call gets the lock that is free again and again.  Time     *)
(* passes, until the last attempt is long ago.                             *)
(***************************************************************************)
Fairness ==
  /\ WF_vars(lock # Nobody /\ Steps(lock))
  /\ \A p \in Processes \ {Desktop} :
       SF_vars(Locks(p)) /\ SF_vars(lock = Nobody /\ ~Leased /\ Asks(p, "denial"))
  /\ []<>(record.attempt = LongAgo) \/ []<><<TimePasses>>_vars

Spec == Init /\ [][Next]_vars /\ Fairness

----------------------------------------------------------------------------

\* The live token of the stored grant is in the store, or in a process's
\* memory, or was lost to a stop or with an answer: no step drops it.
LiveTokenKept ==
  LET g == stored.grant IN
  g # 0 /\ grants[g].alive /\ g \notin lost =>
    \/ stored.live
    \/ \E p \in Processes : Live(g) \in {unsaved[p], job[p].hand}

\* Every variable has its shape, and the way back to the server is not lost,
\* whichever process refreshes, fails to store, stops or signs in or out.
TokenInv == TypeOK /\ LiveTokenKept

\* A grant is ended by showing a spent token only if the live one was lost, or
\* is in another process that could not store it.
ReplayNeedsLoss ==
  [][\A p \in Processes :
       At(p, "ask") /\ job'[p].pc = "again" /\ grants[job[p].hand.grant].alive =>
         \/ job[p].hand.grant \in lost
         \/ \E q \in Processes \ {p} : unsaved[q] = Live(job[p].hand.grant)]_vars

\* A denial or the timer calls no sooner after the last call than the interval,
\* less the time a caller may wait, unless it read the clock before that call:
\* also across stops and processes.
CallsLimited ==
  [][\A p \in Processes :
       At(p, "locked") /\ job'[p].pc = "rotate" /\ job[p].for \in {"denial", "routine"} =>
         called < job[p].asked \/ called + MaxWait >= Interval(p)]_vars

\* "At most one a minute, hourly after a signed ended".
OneAMinute ==
  [][\A p \in Processes :
       At(p, "locked") /\ job'[p].pc = "rotate" /\ job[p].for \in {"denial", "routine"} =>
         called + MaxWait >= Interval(p)]_vars

\* "A new grant supersedes any token an earlier refresh could not store": the
\* store never goes back to an older grant.
NewGrantSupersedes ==
  [][stored.grant # 0 /\ stored'.grant # 0 => stored'.grant >= stored.grant]_vars

\* Who is signed in without a lease gets one or is signed out, whether or not
\* the desktop runs again, while apps go on calling; unless a stop
\* left the token of another user in the store.
LeaseArrives ==
  (marker # 0 /\ ~Leased) ~>
    \/ Leased \/ marker = 0
    \/ stored.grant # 0 /\ grants[stored.grant].user # grants[marker].user

=============================================================================
