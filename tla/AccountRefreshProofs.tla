------------------------ MODULE AccountRefreshProofs ------------------------
(***************************************************************************)
(* What holds of the account's tokens for any number of processes, users,  *)
(* sign-ins, stops and failures: the live token of the stored grant is     *)
(* never dropped, a spent one is shown only when the live one was lost or  *)
(* is with another process, and the server is asked no sooner than the     *)
(* record of the last attempt allows.                                      *)
(***************************************************************************)
EXTENDS AccountRefresh, TLAPS

----------------------------------------------------------------------------
(* The inductive invariant *)

\* Grants the provider has given out.
Used(g) == grants[g] # NoGrant

\* Grants are given out in order, and every token is of one that was.
TokensOfGrants ==
  /\ \A g, h \in Grants : g < h /\ ~Used(g) => ~Used(h)
  /\ \A g \in Grants : Used(g) => grants[g].user \in Users
  /\ stored.grant # 0 => Used(stored.grant)
  /\ \A p \in Processes : unsaved[p].grant # 0 => Used(unsaved[p].grant)
  /\ \A p \in Processes : job[p].hand.grant # 0 => Used(job[p].hand.grant)

\* What a job works with at each of its steps.
HandsKnown ==
  \A p \in Processes :
    /\ job[p].for = "signin" => p = Desktop /\ job[p].pc \notin {"locked", "rotate", "ask", "again"}
    /\ job[p].pc \in {"idle", "locked", "rotate"} => job[p].hand = NoToken
    /\ job[p].pc = "wait" => IF job[p].for = "signin" THEN job[p].hand.live ELSE job[p].hand = NoToken
    /\ job[p].pc = "ask" => job[p].hand # NoToken /\ job[p].hand \in {stored, unsaved[p]}
    /\ job[p].pc = "again" => job[p].hand # NoToken /\ ~grants[job[p].hand.grant].alive
    /\ job[p].pc = "save" => job[p].hand.live
    /\ job[p].pc \in {"mark", "nolease", "reset", "fetch", "lease", "record"} => job[p].hand = stored

\* The token of a sign-in that is not stored yet is of the newest grant.
NewestInHand ==
  \A p \in Processes : job[p].for = "signin" /\ job[p].pc \in {"wait", "save"} =>
    /\ stored.grant < job[p].hand.grant
    /\ \A q \in Processes : unsaved[q].grant < job[p].hand.grant
    /\ \A q \in Processes \ {p} : job[q].hand.grant < job[p].hand.grant

\* A live token is in one place, but for the job that works with it.
OneLive ==
  /\ \A p \in Processes : unsaved[p].live => unsaved[p] # stored
  /\ \A p, q \in Processes : p # q /\ unsaved[p].live => unsaved[p] # unsaved[q]
  /\ \A p, q \in Processes : job[p].pc = "save" => job[p].hand # stored /\ job[p].hand # unsaved[q]

\* A token the store refused is spent only by its own process's rotation, or
\* when the grant's live token is lost.
SpentKnown ==
  \A p \in Processes : unsaved[p] # NoToken /\ ~unsaved[p].live =>
    \/ unsaved[p].grant \in lost
    \/ ~grants[unsaved[p].grant].alive
    \/ job[p].pc = "save" /\ job[p].hand = Live(unsaved[p].grant)

\* A job works with its process's refused token, or that one's grant is dead.
RefusedFirst ==
  \A p \in Processes : unsaved[p] # NoToken =>
    /\ job[p].pc = "ask" => unsaved[p] = job[p].hand \/ ~grants[unsaved[p].grant].alive
    /\ job[p].pc = "again" => ~grants[unsaved[p].grant].alive
    /\ job[p].pc = "save" /\ job[p].for # "signin" =>
         unsaved[p].grant = job[p].hand.grant \/ ~grants[unsaved[p].grant].alive

\* Only the desktop signs out, and while it revokes without the lock nobody is
\* signed in and nobody works with a token.
SignOutAlone ==
  \A p \in Processes :
    /\ job[p].for = "signout" =>
         p = Desktop /\ job[p].pc \in {"wait", "clear", "clearlease", "clearstate", "forget", "signedout"}
    /\ job[p].for = "none" => job[p].pc = "idle"
    /\ job[p].pc \in {"mark", "nolease", "reset"} => job[p].for = "signin"
    /\ job[p].pc = "signedout" => job[p].for = "signout"
    /\ job[p].pc \in {"clearlease", "clearstate", "forget", "signedout"} => marker = 0
    /\ job[p].pc = "signedout" =>
         \A q \in Processes \ {p} : job[q].pc \in {"idle", "wait", "locked"}

IInv ==
  /\ TypeOK /\ TokensOfGrants /\ HandsKnown /\ NewestInHand /\ OneLive
  /\ SpentKnown /\ RefusedFirst /\ SignOutAlone /\ LiveTokenKept

----------------------------------------------------------------------------
(* Tokens *)

\* A token is its grant and whether it is live; only NoToken has no grant.
LEMMA TokenFacts ==
  ASSUME NEW t \in Token
  PROVE  /\ t.grant \in Nat /\ t.live \in BOOLEAN
         /\ t.grant = 0 <=> t = NoToken
         /\ t # NoToken => t.grant \in Grants
         /\ t.live => t = Live(t.grant) /\ t # NoToken
         /\ \A u \in Token : u.grant = t.grant /\ u.live = t.live => u = t
<1>1. MaxGrants \in Nat
  BY AccountAssumption
<1>4. NoToken.grant = 0 /\ ~NoToken.live /\ 0 \notin Grants
  BY <1>1 DEF NoToken, Grants
<1>5. \A u \in [grant : Grants, live : BOOLEAN] : u.grant \in Grants
  OBVIOUS
<1>2. CASE t = NoToken
  <2>1. t.grant = 0 /\ ~t.live
    BY <1>2, <1>4
  <2>2. \A u \in Token : u.grant = t.grant => u = t
    BY <1>2, <1>4, <1>5, <2>1 DEF Token
  <2>3. t.live \in BOOLEAN
    BY <1>2 DEF NoToken
  <2> QED
    BY <1>2, <2>1, <2>2, <2>3
<1>3. CASE t \in [grant : Grants, live : BOOLEAN]
  BY <1>1, <1>3 DEF NoToken, Token, Grants, Live
<1> QED
  BY <1>2, <1>3 DEF Token

\* What the live token of a grant is.
LEMMA LiveFacts ==
  ASSUME NEW g \in Grants
  PROVE  /\ Live(g) \in Token /\ Live(g).grant = g /\ Live(g).live /\ Live(g) # NoToken
         /\ NoToken \in Token /\ NoToken.grant = 0 /\ ~NoToken.live
         /\ \A h \in Grants : Live(g) = Live(h) => g = h
<1>1. g # 0
  BY AccountAssumption DEF Grants
<1> QED
  BY <1>1 DEF Live, Token, NoToken

\* NoToken is a token of no grant.
LEMMA NoTokenFacts == NoToken \in Token /\ NoToken.grant = 0 /\ ~NoToken.live
BY DEF NoToken, Token

\* A rotation spends the tokens of its grant and leaves the others alone.
LEMMA AgedFacts ==
  ASSUME NEW t \in Token, NEW g \in Grants
  PROVE  /\ Aged(t, g) \in Token
         /\ Aged(t, g).grant = t.grant
         /\ Aged(t, g).live <=> t.live /\ t.grant # g
         /\ t.grant # g => Aged(t, g) = t
         /\ Aged(t, g) = NoToken <=> t = NoToken
<1>1. CASE t.grant = g
  <2>1. t \in [grant : Grants, live : BOOLEAN]
    BY <1>1, AccountAssumption DEF Token, NoToken, Grants
  <2>2. Aged(t, g) = [grant |-> g, live |-> FALSE]
    BY <1>1, <2>1 DEF Aged
  <2>3. g # 0
    BY AccountAssumption DEF Grants
  <2> QED
    BY <1>1, <2>1, <2>2, <2>3 DEF Token, NoToken
<1>2. CASE t.grant # g
  BY <1>2 DEF Aged
<1> QED
  BY <1>1, <1>2

----------------------------------------------------------------------------
(* What each step does to the jobs and the tokens *)

\* Where a job goes; nobody else's does.
Stays(q) == job'[q].pc = job[q].pc /\ job'[q].for = job[q].for /\ job'[q].hand = job[q].hand
OthersStay(p) == \A q \in Processes \ {p} : Stays(q)
Moves(p, pc, hand) ==
  job'[p].pc = pc /\ job'[p].for = job[p].for /\ job'[p].hand = hand /\ OthersStay(p)
Over(p) ==
  /\ job'[p].pc = "idle" /\ job'[p].for = "none" /\ job'[p].hand = NoToken /\ OthersStay(p)
  /\ lock' = IF lock = p THEN Nobody ELSE lock

\* Who is past the lock is alone there.
LEMMA Alone ==
  ASSUME TypeOK, NEW p \in Processes, job[p].pc \notin Unlocked
  PROVE  \A q \in Processes \ {p} : job[q].pc \in Unlocked
BY DEF TypeOK

\* The shape of what a process works with.
LEMMA JobFacts ==
  ASSUME TypeOK, NEW p \in Processes
  PROVE  /\ job[p] \in Jobs /\ job[p].hand \in Token
         /\ unsaved[p] \in Token /\ stored \in Token
BY DEF TypeOK, Jobs

\* An idle process's job has its shape.
LEMMA IdleFacts ==
  Idle \in Jobs /\ Idle.pc = "idle" /\ Idle.for = "none" /\ Idle.hand = NoToken
BY NoTokenFacts, AccountAssumption DEF Idle, Jobs

\* A job that ends leaves its process idle and the lock free.
LEMMA DoneFacts ==
  ASSUME TypeOK, NEW p \in Processes, Done(p)
  PROVE  /\ Over(p)
         /\ job' \in [Processes -> Jobs]
BY IdleFacts DEF TypeOK, Done, Over, OthersStay, Stays

\* The steps of a job.
Pcs ==
  {"idle", "wait", "locked", "rotate", "ask", "again", "save", "fetch", "lease",
   "record", "mark", "nolease", "reset", "clear", "clearlease", "clearstate",
   "forget", "revoke", "signedout"}

\* A step that moves only the program counter.
LEMMA GotoFacts ==
  ASSUME TypeOK, NEW p \in Processes, NEW pc \in Pcs, Goto(p, pc)
  PROVE  Moves(p, pc, job[p].hand) /\ job' \in [Processes -> Jobs]
BY DEF TypeOK, Goto, Moves, OthersStay, Stays, Jobs, Pcs

\* The steps that set more than the program counter.
LEMMA JobMoves ==
  ASSUME TypeOK, NEW p \in Processes, NEW pc \in Pcs, NEW hand \in Token, NEW b \in BOOLEAN
  PROVE  /\ job' = [job EXCEPT ![p].pc = pc, ![p].hand = hand] =>
              Moves(p, pc, hand) /\ job' \in [Processes -> Jobs]
         /\ job' = [job EXCEPT ![p].hand = hand, ![p].pc = pc] =>
              Moves(p, pc, hand) /\ job' \in [Processes -> Jobs]
         /\ job' = [job EXCEPT ![p].pc = pc, ![p].hand = hand, ![p].again = b] =>
              Moves(p, pc, hand) /\ job' \in [Processes -> Jobs]
         /\ job' = [job EXCEPT ![p].pc = pc, ![p].again = b] =>
              Moves(p, pc, job[p].hand) /\ job' \in [Processes -> Jobs]
         /\ job' = [job EXCEPT ![p].ended = b, ![p].pc = pc] =>
              Moves(p, pc, job[p].hand) /\ job' \in [Processes -> Jobs]
<1>0. \A q \in Processes : job[q] \in Jobs
  BY DEF TypeOK
<1>1. ASSUME job' = [job EXCEPT ![p].pc = pc, ![p].hand = hand]
      PROVE  Moves(p, pc, hand) /\ job' \in [Processes -> Jobs]
  <2>1. job'[p] = [job[p] EXCEPT !.pc = pc, !.hand = hand] /\ \A q \in Processes \ {p} : job'[q] = job[q]
    BY <1>0, <1>1 DEF TypeOK
  <2>2. job'[p] \in Jobs
    BY <1>0, <2>1 DEF Jobs, Pcs
  <2>3. Moves(p, pc, hand)
    BY <1>0, <2>1 DEF Moves, OthersStay, Stays, Jobs
  <2>4. DOMAIN job' = Processes /\ job' = [q \in Processes |-> job'[q]]
    BY <1>1 DEF TypeOK
  <2> QED
    BY <1>0, <2>1, <2>2, <2>3, <2>4
<1>2. ASSUME job' = [job EXCEPT ![p].hand = hand, ![p].pc = pc]
      PROVE  Moves(p, pc, hand) /\ job' \in [Processes -> Jobs]
  <2>1. job'[p] = [job[p] EXCEPT !.hand = hand, !.pc = pc] /\ \A q \in Processes \ {p} : job'[q] = job[q]
    BY <1>0, <1>2 DEF TypeOK
  <2>2. job'[p] \in Jobs
    BY <1>0, <2>1 DEF Jobs, Pcs
  <2>3. Moves(p, pc, hand)
    BY <1>0, <2>1 DEF Moves, OthersStay, Stays, Jobs
  <2>4. DOMAIN job' = Processes /\ job' = [q \in Processes |-> job'[q]]
    BY <1>2 DEF TypeOK
  <2> QED
    BY <1>0, <2>1, <2>2, <2>3, <2>4
<1>3. ASSUME job' = [job EXCEPT ![p].pc = pc, ![p].hand = hand, ![p].again = b]
      PROVE  Moves(p, pc, hand) /\ job' \in [Processes -> Jobs]
  <2>1. job'[p] = [job[p] EXCEPT !.pc = pc, !.hand = hand, !.again = b] /\ \A q \in Processes \ {p} : job'[q] = job[q]
    BY <1>0, <1>3 DEF TypeOK
  <2>2. job'[p] \in Jobs
    BY <1>0, <2>1 DEF Jobs, Pcs
  <2>3. Moves(p, pc, hand)
    BY <1>0, <2>1 DEF Moves, OthersStay, Stays, Jobs
  <2>4. DOMAIN job' = Processes /\ job' = [q \in Processes |-> job'[q]]
    BY <1>3 DEF TypeOK
  <2> QED
    BY <1>0, <2>1, <2>2, <2>3, <2>4
<1>5. ASSUME job' = [job EXCEPT ![p].pc = pc, ![p].again = b]
      PROVE  Moves(p, pc, job[p].hand) /\ job' \in [Processes -> Jobs]
  <2>1. job'[p] = [job[p] EXCEPT !.pc = pc, !.again = b] /\ \A q \in Processes \ {p} : job'[q] = job[q]
    BY <1>0, <1>5 DEF TypeOK
  <2>2. job'[p] \in Jobs
    BY <1>0, <2>1 DEF Jobs, Pcs
  <2>3. Moves(p, pc, job[p].hand)
    BY <1>0, <2>1 DEF Moves, OthersStay, Stays, Jobs
  <2>4. DOMAIN job' = Processes /\ job' = [q \in Processes |-> job'[q]]
    BY <1>5 DEF TypeOK
  <2> QED
    BY <1>0, <2>1, <2>2, <2>3, <2>4
<1>6. ASSUME job' = [job EXCEPT ![p].ended = b, ![p].pc = pc]
      PROVE  Moves(p, pc, job[p].hand) /\ job' \in [Processes -> Jobs]
  <2>1. job'[p] = [job[p] EXCEPT !.ended = b, !.pc = pc] /\ \A q \in Processes \ {p} : job'[q] = job[q]
    BY <1>0, <1>6 DEF TypeOK
  <2>2. job'[p] \in Jobs
    BY <1>0, <2>1 DEF Jobs, Pcs
  <2>3. Moves(p, pc, job[p].hand)
    BY <1>0, <2>1 DEF Moves, OthersStay, Stays, Jobs
  <2>4. DOMAIN job' = Processes /\ job' = [q \in Processes |-> job'[q]]
    BY <1>6 DEF TypeOK
  <2> QED
    BY <1>0, <2>1, <2>2, <2>3, <2>4
<1> QED
  BY <1>1, <1>2, <1>3, <1>5, <1>6

\* Only p's refused token changes.
UnsavedOnly(p, t) ==
  /\ unsaved'[p] = t /\ \A q \in Processes \ {p} : unsaved'[q] = unsaved[q]
  /\ unsaved' \in [Processes -> Token]

\* One process's refused token changes, and no other's.
LEMMA UnsavedFacts ==
  ASSUME TypeOK, NEW p \in Processes, NEW t \in Token, unsaved' = [unsaved EXCEPT ![p] = t]
  PROVE  UnsavedOnly(p, t)
BY DEF TypeOK, UnsavedOnly

\* The actions, one by one: what each leaves of the tokens, and where its job goes.
LEMMA AsksFacts ==
  ASSUME TypeOK, NEW p \in Processes,
         NEW for \in {"denial", "routine", "user"}, Asks(p, for)
  PROVE  /\ job[p].pc = "idle" /\ job'[p].pc = "wait" /\ job'[p].for = for
         /\ job'[p].hand = NoToken /\ OthersStay(p)
         /\ job' \in [Processes -> Jobs]
         /\ UNCHANGED <<grants, stored, unsaved, lost, record, called, lock>>
<1>1. PICK ago \in 0..MaxWait :
        job' = [job EXCEPT ![p] =
          [Idle EXCEPT !.pc = "wait", !.for = for, !.asked = ago, !.newer = ~Leased]]
  BY DEF Asks
<1>2. [Idle EXCEPT !.pc = "wait", !.for = for, !.asked = ago, !.newer = ~Leased] \in Jobs
  <2>1. (~Leased) = TRUE \/ (~Leased) = FALSE
    OBVIOUS
  <2> QED
    BY <2>1, NoTokenFacts DEF Idle, Jobs
<1> QED
  BY <1>1, <1>2 DEF Asks, TypeOK, At, OthersStay, Stays, tokens, files, Idle

LEMMA WantsFacts ==
  ASSUME TypeOK, NEW for \in {"billing", "signout"}, Wants(for)
  PROVE  /\ job[Desktop].pc = "idle" /\ job'[Desktop].pc = "wait" /\ job'[Desktop].for = for
         /\ job'[Desktop].hand = NoToken /\ OthersStay(Desktop)
         /\ job' \in [Processes -> Jobs]
         /\ UNCHANGED <<grants, stored, unsaved, lost, record, called, lock>>
<1>1. [Idle EXCEPT !.pc = "wait", !.for = for] \in Jobs
  BY IdleFacts DEF Jobs
<1> QED
  BY <1>1, AccountAssumption DEF Wants, TypeOK, At, OthersStay, Stays, tokens, files, Idle

LEMMA LocksFacts ==
  ASSUME TypeOK, NEW p \in Processes, Locks(p)
  PROVE  /\ job[p].pc = "wait" /\ lock = Nobody /\ lock' = p
         /\ job' \in [Processes -> Jobs]
         /\ UNCHANGED <<grants, stored, lost, record, called>>
         /\ \/ /\ job[p].for = "signout"
               /\ Moves(p, "clear", IF unsaved[p] # NoToken THEN unsaved[p] ELSE stored)
               /\ UnsavedOnly(p, NoToken)
            \/ job[p].for = "signin" /\ Moves(p, "save", job[p].hand) /\ UNCHANGED unsaved
            \/ /\ job[p].for \notin {"signin", "signout"}
               /\ Moves(p, "locked", job[p].hand) /\ UNCHANGED unsaved
<1>1. CASE job[p].for = "signout"
  <2> DEFINE hand == IF unsaved[p] # NoToken THEN unsaved[p] ELSE stored
  <2>1. hand \in Token
    BY JobFacts
  <2> HIDE DEF hand
  <2>2. job' = [job EXCEPT ![p].pc = "clear", ![p].hand = hand]
    BY <1>1 DEF Locks, Begins, hand
  <2>3. Moves(p, "clear", hand) /\ job' \in [Processes -> Jobs]
    BY <2>1, <2>2, JobMoves DEF Pcs
  <2>4. UnsavedOnly(p, NoToken)
    BY <1>1, UnsavedFacts, NoTokenFacts DEF Locks, Begins
  <2> QED
    BY <1>1, <2>3, <2>4 DEF Locks, At, files, hand
<1>2. CASE job[p].for # "signout"
  <2>1. Goto(p, IF job[p].for = "signin" THEN "save" ELSE "locked") /\ UNCHANGED unsaved
    BY <1>2 DEF Locks, Begins
  <2> QED
    BY <1>2, <2>1, GotoFacts DEF Pcs, Locks, At, files
<1> QED
  BY <1>1, <1>2

LEMMA LockBusyFacts ==
  ASSUME TypeOK, NEW p \in Processes, LockBusy(p)
  PROVE  /\ job[p].pc = "wait" /\ Over(p) /\ lost' = lost \cup Dropped(p)
         /\ job' \in [Processes -> Jobs]
         /\ UNCHANGED <<grants, stored, unsaved, record, called>>
BY DoneFacts DEF LockBusy, At, tokens, files

LEMMA SkipsFacts ==
  ASSUME TypeOK, NEW p \in Processes, Skips(p)
  PROVE  /\ job[p].pc = "locked" /\ Over(p)
         /\ job' \in [Processes -> Jobs]
         /\ UNCHANGED <<grants, stored, unsaved, record, called, lost>>
BY DoneFacts DEF Skips, At, tokens, files

LEMMA StartsFacts ==
  ASSUME TypeOK, NEW p \in Processes, Starts(p)
  PROVE  /\ job[p].pc = "locked" /\ job'[p].pc = "rotate" /\ job'[p].hand = job[p].hand
         /\ job'[p].for \in {"refresh", job[p].for} /\ OthersStay(p)
         /\ job' \in [Processes -> Jobs]
         /\ UNCHANGED <<grants, stored, unsaved, lost, lock>>
<1> DEFINE for == IF Refreshing(p) THEN "refresh" ELSE job[p].for
<1>1. job' = [job EXCEPT ![p].pc = "rotate", ![p].asked = 0, ![p].newer = FALSE, ![p].for = for]
  BY DEF Starts
<1>2. job[p] \in Jobs /\ for \in {"refresh", job[p].for} /\ 0 \in 0..MaxWait
  BY AccountAssumption DEF TypeOK
<1> HIDE DEF for
<1>3. job'[p] = [job[p] EXCEPT !.pc = "rotate", !.asked = 0, !.newer = FALSE, !.for = for]
  BY <1>1 DEF TypeOK
<1>4. /\ job'[p] \in Jobs /\ job'[p].pc = "rotate" /\ job'[p].hand = job[p].hand
      /\ job'[p].for = for
  BY <1>2, <1>3 DEF Jobs
<1>5. OthersStay(p) /\ job' \in [Processes -> Jobs]
  BY <1>1, <1>4 DEF TypeOK, OthersStay, Stays
<1> QED
  BY <1>2, <1>4, <1>5 DEF Starts, At, tokens

LEMMA TakesTokenFacts ==
  ASSUME TypeOK, NEW p \in Processes, TakesToken(p)
  PROVE  LET token == IF unsaved[p] # NoToken THEN unsaved[p] ELSE stored IN
         /\ job[p].pc = "rotate" /\ token \in Token
         /\ Moves(p, IF token = NoToken THEN "clear" ELSE "ask", token)
         /\ job' \in [Processes -> Jobs]
         /\ UNCHANGED <<grants, lost, record, called, lock>>
         /\ \/ UNCHANGED <<stored, unsaved>>
            \/ unsaved[p] # NoToken /\ stored' = unsaved[p] /\ UnsavedOnly(p, NoToken)
<1> DEFINE token == IF unsaved[p] # NoToken THEN unsaved[p] ELSE stored
<1>1. token \in Token
  BY JobFacts
<1>2. \/ UNCHANGED <<stored, unsaved>>
      \/ unsaved[p] # NoToken /\ stored' = unsaved[p] /\ UnsavedOnly(p, NoToken)
  BY UnsavedFacts, NoTokenFacts DEF TakesToken, tokens
<1>3. job' = [job EXCEPT ![p].hand = token, ![p].pc = IF token = NoToken THEN "clear" ELSE "ask"]
  BY DEF TakesToken
<1>4. job[p].pc = "rotate" /\ UNCHANGED <<grants, lost, record, called, lock>>
  BY DEF TakesToken, At, files
<1> HIDE DEF token
<1>5. Moves(p, IF token = NoToken THEN "clear" ELSE "ask", token) /\ job' \in [Processes -> Jobs]
  BY <1>1, <1>3, JobMoves DEF Pcs
<1> QED
  BY <1>1, <1>2, <1>4, <1>5 DEF token

LEMMA RotatesFacts ==
  ASSUME TypeOK, NEW p \in Processes, Rotates(p)
  PROVE  LET g == job[p].hand.grant IN
         /\ job[p].pc = "ask" /\ job[p].hand = Live(g) /\ g \in Grants /\ grants[g].alive
         /\ stored' = Aged(stored, g) /\ \A q \in Processes : unsaved'[q] = Aged(unsaved[q], g)
         /\ unsaved' \in [Processes -> Token] /\ stored' \in Token
         /\ job' \in [Processes -> Jobs]
         /\ UNCHANGED <<grants, record, called>>
         /\ \/ Moves(p, "save", job[p].hand) /\ UNCHANGED <<lost, lock>>
            \/ Over(p) /\ lost' = lost \cup {g}
<1> DEFINE g == job[p].hand.grant
<1>1. job[p].pc = "ask" /\ job[p].hand = Live(g) /\ g \in Grants /\ grants[g].alive
  BY JobFacts, TokenFacts DEF Rotates, At
<1>2. /\ stored' = Aged(stored, g) /\ \A q \in Processes : unsaved'[q] = Aged(unsaved[q], g)
      /\ unsaved' \in [Processes -> Token] /\ stored' \in Token
  BY <1>1, AgedFacts DEF Rotates, TypeOK
<1>3. UNCHANGED <<grants, record, called>>
  BY DEF Rotates, files
<1>4. \/ Moves(p, "save", job[p].hand) /\ job' \in [Processes -> Jobs] /\ UNCHANGED <<lost, lock>>
      \/ Over(p) /\ job' \in [Processes -> Jobs] /\ lost' = lost \cup {g}
  <2>1. CASE job' = [job EXCEPT ![p].pc = "save", ![p].again = FALSE] /\ UNCHANGED <<lost, lock>>
    BY <2>1, JobMoves, JobFacts DEF Pcs
  <2>2. CASE Done(p) /\ lost' = lost \cup {g}
    BY <2>2, DoneFacts
  <2> QED
    BY <2>1, <2>2 DEF Rotates
<1> QED
  BY <1>1, <1>2, <1>3, <1>4

LEMMA RefusesFacts ==
  ASSUME TypeOK, NEW p \in Processes, job[p].hand # NoToken, Refuses(p)
  PROVE  LET g == job[p].hand.grant IN
         /\ job[p].pc = "ask" /\ ~(job[p].hand.live /\ grants[g].alive) /\ g \in Grants
         /\ ~grants'[g].alive /\ grants'[g].user = grants[g].user
         /\ \A h \in Grants \ {g} : grants'[h] = grants[h]
         /\ grants' \in [Grants -> [user : Users \cup {Nobody}, alive : BOOLEAN]]
         /\ Moves(p, "again", job[p].hand)
         /\ job' \in [Processes -> Jobs]
         /\ UNCHANGED <<stored, unsaved, lost, record, called, lock>>
<1> DEFINE g == job[p].hand.grant
<1>1. g \in Grants
  BY JobFacts, TokenFacts
<1>2. grants' = [grants EXCEPT ![g].alive = FALSE]
  BY DEF Refuses
<1>3. /\ ~grants'[g].alive /\ grants'[g].user = grants[g].user
      /\ \A h \in Grants \ {g} : grants'[h] = grants[h]
      /\ grants' \in [Grants -> [user : Users \cup {Nobody}, alive : BOOLEAN]]
  <2> DEFINE ended == [grants[g] EXCEPT !.alive = FALSE]
             shape == [user : Users \cup {Nobody}, alive : BOOLEAN]
  <2>1. grants \in [Grants -> shape]
    BY DEF TypeOK
  <2>2. grants[g] \in shape
    BY <1>1, <2>1
  <2>3. ended \in shape /\ ended.alive = FALSE /\ ended.user = grants[g].user
    BY <2>2
  <2>4. grants' = [grants EXCEPT ![g] = ended]
    BY <1>2
  <2> HIDE DEF ended, shape
  <2>5. /\ grants'[g] = ended /\ grants' \in [Grants -> shape]
        /\ \A h \in Grants \ {g} : grants'[h] = grants[h]
    BY <1>1, <2>1, <2>3, <2>4
  <2> QED
    BY <2>3, <2>5 DEF shape
<1> QED
  BY <1>1, <1>3, GotoFacts DEF Pcs, Refuses, At, tokens, files

LEMMA LooksAgainFacts ==
  ASSUME TypeOK, NEW p \in Processes, LooksAgain(p)
  PROVE  /\ job[p].pc = "again" /\ job' \in [Processes -> Jobs]
         /\ UNCHANGED <<grants, stored, lost, record, called, lock>>
         /\ \/ Moves(p, "ask", stored) /\ stored # NoToken /\ UNCHANGED unsaved
            \/ Moves(p, "clear", NoToken) /\ UnsavedOnly(p, NoToken)
<1>1. CASE /\ job' = [job EXCEPT ![p].pc = "ask", ![p].hand = stored, ![p].again = TRUE]
           /\ stored # NoToken /\ UNCHANGED unsaved
  <2>1. Moves(p, "ask", stored) /\ job' \in [Processes -> Jobs]
    BY <1>1, JobMoves, JobFacts DEF Pcs
  <2> QED
    BY <1>1, <2>1 DEF LooksAgain, At, files
<1>2. CASE /\ job' = [job EXCEPT ![p].pc = "clear", ![p].hand = NoToken, ![p].again = FALSE]
           /\ unsaved' = [unsaved EXCEPT ![p] = NoToken]
  <2>1. Moves(p, "clear", NoToken) /\ job' \in [Processes -> Jobs]
    BY <1>2, NoTokenFacts, JobMoves DEF Pcs
  <2> QED
    BY <1>2, <2>1, UnsavedFacts, NoTokenFacts DEF LooksAgain, At, files
<1> QED
  BY <1>1, <1>2 DEF LooksAgain

LEMMA SavesFacts ==
  ASSUME TypeOK, NEW p \in Processes, Saves(p)
  PROVE  /\ job[p].pc = "save" /\ job' \in [Processes -> Jobs]
         /\ UNCHANGED <<grants, record, called>>
         /\ \/ /\ stored' = job[p].hand /\ UnsavedOnly(p, NoToken) /\ UNCHANGED lost
               /\ \/ Over(p)
                  \/ /\ \/ Moves(p, "fetch", job[p].hand)
                        \/ /\ Moves(p, "mark", job[p].hand)
                           /\ job[p].for \in {"none", "signin", "signout"}
                     /\ UNCHANGED lock
            \/ /\ p \in Refusing /\ Over(p) /\ UNCHANGED stored
               /\ \/ /\ job[p].for = "signin" /\ UNCHANGED unsaved
                     /\ lost' = lost \cup {job[p].hand.grant}
                  \/ job[p].for # "signin" /\ UnsavedOnly(p, job[p].hand) /\ UNCHANGED lost
<1>1. CASE stored' = job[p].hand
           /\ unsaved' = [unsaved EXCEPT ![p] = NoToken]
           /\ (IF job[p].for = "billing" THEN Done(p)
               ELSE Goto(p, IF Refreshing(p) THEN "fetch" ELSE "mark") /\ UNCHANGED lock)
           /\ UNCHANGED lost
  <2>1. UnsavedOnly(p, NoToken)
    BY <1>1, UnsavedFacts, NoTokenFacts
  <2>2. /\ job' \in [Processes -> Jobs]
        /\ \/ Over(p)
           \/ /\ \/ Moves(p, "fetch", job[p].hand)
                 \/ /\ Moves(p, "mark", job[p].hand)
                    /\ job[p].for \in {"none", "signin", "signout"}
              /\ UNCHANGED lock
    <3>1. job[p] \in Jobs
      BY DEF TypeOK
    <3>2. ~Refreshing(p) /\ job[p].for # "billing" => job[p].for \in {"none", "signin", "signout"}
      BY <3>1 DEF Refreshing, Jobs
    <3> QED
      BY <1>1, <3>2, DoneFacts, GotoFacts DEF Pcs
  <2> QED
    BY <1>1, <2>1, <2>2 DEF Saves, At, files
<1>2. CASE /\ p \in Refusing /\ Done(p) /\ UNCHANGED stored
           /\ IF job[p].for = "signin" THEN lost' = lost \cup {job[p].hand.grant} /\ UNCHANGED unsaved
              ELSE unsaved' = [unsaved EXCEPT ![p] = job[p].hand] /\ UNCHANGED lost
  <2>1. job[p].for # "signin" => UnsavedOnly(p, job[p].hand)
    BY <1>2, UnsavedFacts, JobFacts
  <2> QED
    BY <1>2, <2>1, DoneFacts DEF Saves, At, files
<1> QED
  BY <1>1, <1>2 DEF Saves

LEMMA FetchesFacts ==
  ASSUME TypeOK, NEW p \in Processes, Fetches(p)
  PROVE  /\ job[p].pc = "fetch" /\ job' \in [Processes -> Jobs]
         /\ UNCHANGED <<grants, stored, unsaved, lost, record, called>>
         /\ \/ Over(p)
            \/ /\ Moves(p, "clear", job[p].hand) \/ Moves(p, "lease", job[p].hand)
               /\ UNCHANGED lock
<1>1. CASE Done(p)
  BY <1>1, DoneFacts DEF Fetches, At, tokens, files
<1>2. CASE Goto(p, "clear") /\ UNCHANGED lock
  BY <1>2, GotoFacts DEF Fetches, At, tokens, files, Pcs
<1>3. CASE \E ended \in BOOLEAN : job' = [job EXCEPT ![p].ended = ended, ![p].pc = "lease"] /\ UNCHANGED lock
  <2>1. PICK ended \in BOOLEAN : job' = [job EXCEPT ![p].ended = ended, ![p].pc = "lease"] /\ UNCHANGED lock
    BY <1>3
  <2>2. Moves(p, "lease", job[p].hand) /\ job' \in [Processes -> Jobs]
    BY <2>1, JobMoves, JobFacts DEF Pcs
  <2> QED
    BY <2>1, <2>2 DEF Fetches, At, tokens, files
<1> QED
  BY <1>1, <1>2, <1>3 DEF Fetches

LEMMA WritesLeaseFacts ==
  ASSUME TypeOK, NEW p \in Processes, WritesLease(p)
  PROVE  /\ job[p].pc = "lease" /\ job' \in [Processes -> Jobs]
         /\ Moves(p, "record", job[p].hand)
         /\ UNCHANGED <<grants, stored, unsaved, lost, record, called, lock>>
<1> DEFINE after(q) == IF q = p THEN [job[p] EXCEPT !.pc = "record", !.ended = FALSE]
                       ELSE [job[q] EXCEPT !.newer = @ \/ Judging(q)]
<1>1. job' = [q \in Processes |-> after(q)]
  BY DEF WritesLease
<1>2. ASSUME NEW q \in Processes
      PROVE  /\ after(q) \in Jobs
             /\ after(q).pc = IF q = p THEN "record" ELSE job[q].pc
             /\ after(q).for = job[q].for /\ after(q).hand = job[q].hand
  <2>1. job[q] \in Jobs /\ (job[q].newer \/ Judging(q)) \in BOOLEAN
    BY DEF TypeOK, Jobs, Judging, Refreshing
  <2> QED
    BY <2>1 DEF Jobs
<1> HIDE DEF after
<1> QED
  BY <1>1, <1>2 DEF WritesLease, At, tokens, Moves, OthersStay, Stays

LEMMA WritesRecordFacts ==
  ASSUME TypeOK, NEW p \in Processes, WritesRecord(p)
  PROVE  /\ job[p].pc = "record" /\ job' \in [Processes -> Jobs] /\ Over(p)
         /\ UNCHANGED <<grants, stored, unsaved, lost, called>>
BY DoneFacts DEF WritesRecord, At, tokens

LEMMA SignsInFacts ==
  ASSUME TypeOK, NEW user \in Users, SignsIn(user)
  PROVE  /\ job[Desktop].pc = "idle"
         /\ UNCHANGED <<stored, unsaved, lost, record, called, lock>>
         /\ job' \in [Processes -> Jobs]
         /\ grants' \in [Grants -> [user : Users \cup {Nobody}, alive : BOOLEAN]]
         /\ \E g \in Grants :
              /\ ~Used(g) /\ \A h \in Grants : h < g => Used(h)
              /\ grants'[g] = [user |-> user, alive |-> TRUE]
              /\ \A h \in Grants \ {g} : grants'[h] = grants[h]
              /\ job'[Desktop].pc = "wait" /\ job'[Desktop].for = "signin"
              /\ job'[Desktop].hand = Live(g) /\ OthersStay(Desktop)
<1> USE AccountAssumption
<1>1. PICK g \in Grants :
        /\ grants[g] = NoGrant /\ \A h \in Grants : h < g => grants[h] # NoGrant
        /\ grants' = [grants EXCEPT ![g] = [user |-> user, alive |-> TRUE]]
        /\ job' = [job EXCEPT ![Desktop] = [Idle EXCEPT !.pc = "wait", !.for = "signin",
                                                        !.hand = [grant |-> g, live |-> TRUE]]]
  BY DEF SignsIn
<1>2. /\ grants'[g] = [user |-> user, alive |-> TRUE]
      /\ \A h \in Grants \ {g} : grants'[h] = grants[h]
      /\ grants' \in [Grants -> [user : Users \cup {Nobody}, alive : BOOLEAN]]
  BY <1>1 DEF TypeOK
<1>3. [Idle EXCEPT !.pc = "wait", !.for = "signin", !.hand = [grant |-> g, live |-> TRUE]] \in Jobs
  <2>1. [grant |-> g, live |-> TRUE] \in Token
    BY LiveFacts DEF Live
  <2> QED
    BY <2>1, IdleFacts DEF Jobs
<1>4. /\ job'[Desktop].pc = "wait" /\ job'[Desktop].for = "signin"
      /\ job'[Desktop].hand = Live(g) /\ OthersStay(Desktop) /\ job' \in [Processes -> Jobs]
  BY <1>1, <1>3 DEF TypeOK, Idle, Live, OthersStay, Stays
<1> QED
  BY <1>1, <1>2, <1>4 DEF SignsIn, At, Used, tokens, files

LEMMA MarksFacts ==
  ASSUME TypeOK, NEW p \in Processes, Marks(p)
  PROVE  /\ job[p].pc \in {"mark", "nolease", "reset"} /\ job' \in [Processes -> Jobs]
         /\ \E pc \in {"nolease", "reset", "fetch"} : Moves(p, pc, job[p].hand)
         /\ UNCHANGED <<grants, stored, unsaved, lost, lock>>
BY GotoFacts DEF Pcs, Marks, At, tokens

LEMMA ClearsFacts ==
  ASSUME TypeOK, NEW p \in Processes, Clears(p)
  PROVE  /\ job' \in [Processes -> Jobs]
         /\ \/ job[p].pc = "clear" /\ Moves(p, "clearlease", job[p].hand) /\ marker' = 0
            \/ job[p].pc = "clearlease" /\ Moves(p, "clearstate", job[p].hand) /\ UNCHANGED marker
            \/ job[p].pc = "clearstate" /\ Moves(p, "forget", job[p].hand) /\ UNCHANGED marker
         /\ UNCHANGED <<grants, stored, unsaved, lost, lock>>
BY GotoFacts DEF Pcs, Clears, At

LEMMA ForgetsFacts ==
  ASSUME TypeOK, NEW p \in Processes, Forgets(p)
  PROVE  /\ job[p].pc = "forget" /\ job' \in [Processes -> Jobs]
         /\ stored' = stored \/ stored' = NoToken
         /\ \/ job[p].for = "signout" /\ Moves(p, "signedout", job[p].hand) /\ lock' = Nobody
            \/ job[p].for # "signout" /\ Moves(p, "revoke", job[p].hand) /\ UNCHANGED lock
         /\ UNCHANGED <<grants, unsaved, lost, marker, record, called>>
BY GotoFacts DEF Pcs, Forgets, At, files

LEMMA CannotClearFacts ==
  ASSUME TypeOK, NEW p \in Processes, CannotClear(p)
  PROVE  /\ job[p].pc \in {"clear", "clearlease", "clearstate"} /\ job[p].for # "signout"
         /\ job' \in [Processes -> Jobs] /\ Moves(p, "revoke", job[p].hand)
         /\ UNCHANGED <<grants, stored, unsaved, lost, lock, record, called>>
BY GotoFacts DEF Pcs, CannotClear, tokens, files

LEMMA RevokesFacts ==
  ASSUME TypeOK, NEW p \in Processes, Revokes(p)
  PROVE  /\ job[p].pc \in {"revoke", "signedout"} /\ job' \in [Processes -> Jobs] /\ Over(p)
         /\ UNCHANGED <<stored, unsaved, lost, record, called>>
         /\ grants' \in [Grants -> [user : Users \cup {Nobody}, alive : BOOLEAN]]
         /\ \A g \in Grants :
              /\ grants'[g].user = grants[g].user
              /\ grants'[g].alive => grants[g].alive
              /\ job[p].hand = Live(g) => ~grants'[g].alive
<1>1. /\ grants' \in [Grants -> [user : Users \cup {Nobody}, alive : BOOLEAN]]
      /\ \A g \in Grants :
           /\ grants'[g].user = grants[g].user
           /\ grants'[g].alive => grants[g].alive
           /\ job[p].hand = Live(g) => ~grants'[g].alive
  <2>1. CASE job[p].hand.live
    <3>1. job[p].hand.grant \in Grants /\ job[p].hand = Live(job[p].hand.grant)
      BY <2>1, JobFacts, TokenFacts
    <3>2. grants' = [grants EXCEPT ![job[p].hand.grant].alive = FALSE]
      BY <2>1 DEF Revokes
    <3>3. \A g \in Grants : job[p].hand = Live(g) => g = job[p].hand.grant
      BY <3>1, LiveFacts
    <3>4. /\ grants' \in [Grants -> [user : Users \cup {Nobody}, alive : BOOLEAN]]
          /\ \A g \in Grants :
               /\ grants'[g].user = grants[g].user
               /\ grants'[g].alive => grants[g].alive
               /\ g = job[p].hand.grant => ~grants'[g].alive
      BY <3>1, <3>2, ZenonT(60) DEF TypeOK
    <3> QED
      BY <3>3, <3>4
  <2>2. CASE ~job[p].hand.live
    BY <2>2, LiveFacts DEF Revokes, TypeOK
  <2> QED
    BY <2>1, <2>2
<1> QED
  BY <1>1, DoneFacts DEF Revokes, At, tokens, files

LEMMA FailsFacts ==
  ASSUME TypeOK, NEW p \in Processes, Fails(p)
  PROVE  /\ job[p].pc \in {"locked", "rotate", "ask", "again", "fetch", "lease", "record", "revoke",
                           "signedout", "mark", "nolease", "reset", "clear", "clearlease", "clearstate"}
         /\ job' \in [Processes -> Jobs] /\ Over(p)
         /\ lost' = lost \cup Dropped(p)
         /\ UNCHANGED <<grants, stored, unsaved, record, called>>
BY DoneFacts DEF Fails, tokens, files

LEMMA KilledFacts ==
  ASSUME TypeOK, NEW p \in Processes, Killed(p)
  PROVE  /\ job' \in [Processes -> Jobs] /\ Over(p) /\ UnsavedOnly(p, NoToken)
         /\ lost' = lost \cup {g \in Grants : Live(g) # stored /\ Live(g) \in {job[p].hand, unsaved[p]}}
         /\ UNCHANGED <<grants, stored, record, called>>
BY DoneFacts, UnsavedFacts, NoTokenFacts DEF Killed, files

LEMMA TimeFacts ==
  ASSUME TypeOK, TimePasses
  PROVE  /\ \A q \in Processes : Stays(q)
         /\ job' \in [Processes -> Jobs]
         /\ record' \in [attempt : Age, use : {"unknown", "recent", "month"}] /\ called' \in 0..LongSince
         /\ UNCHANGED <<grants, stored, unsaved, lost, lock, marker, lease, troubles>>
<1> USE AccountAssumption
<1>1. LongAgo \in Nat /\ LongSince \in Nat /\ \A most \in Nat : \A age \in 0..most : Older(age, most) \in 0..most
  BY DEF Older, LongAgo, LongSince
<1>2. record' \in [attempt : Age, use : {"unknown", "recent", "month"}] /\ called' \in 0..LongSince
  <2>1. record \in [attempt : Age, use : {"unknown", "recent", "month"}] /\ called \in 0..LongSince
        /\ LongAgo \in Age /\ LongSince \in 0..LongSince
    BY <1>1 DEF TypeOK, Age
  <2>2. CASE record' = [record EXCEPT !.attempt = Older(@, LongAgo)] /\ called' = Older(called, LongSince)
    BY <1>1, <2>1, <2>2 DEF Age
  <2>3. CASE record' = [record EXCEPT !.use = "month", !.attempt = LongAgo] /\ called' = LongSince
    BY <2>1, <2>3
  <2> QED
    BY <2>2, <2>3 DEF TimePasses
<1>3. ASSUME \A p \in Processes : Judging(p) => job[p].asked < MaxWait,
             job' = [p \in Processes |-> IF Judging(p) THEN [job[p] EXCEPT !.asked = @ + 1] ELSE job[p]],
             NEW q \in Processes
      PROVE  Stays(q) /\ job'[q] \in Jobs
  <2>1. job[q] \in Jobs /\ (Judging(q) => job[q].asked + 1 \in 0..MaxWait)
    BY <1>3 DEF TypeOK, Jobs
  <2>2. job'[q] = IF Judging(q) THEN [job[q] EXCEPT !.asked = @ + 1] ELSE job[q]
    BY <1>3
  <2> QED
    BY <2>1, <2>2 DEF Jobs, Stays
<1>4. (\A q \in Processes : Stays(q)) /\ job' \in [Processes -> Jobs]
  BY <1>3 DEF TimePasses, TypeOK, Stays
<1> QED
  BY <1>2, <1>4 DEF TimePasses, tokens

\* Whose a used grant is; a revoked or refused one stays used.
LEMMA UsedFacts ==
  ASSUME TypeOK, TokensOfGrants, NEW g \in Grants
  PROVE  /\ Used(g) <=> grants[g].user \in Users
         /\ grants[g].alive => Used(g)
BY AccountAssumption DEF TypeOK, TokensOfGrants, Used, NoGrant

\* A provider that only ends grants leaves the same ones used.
LEMMA GrantsKept ==
  ASSUME TypeOK, TokensOfGrants,
         grants' \in [Grants -> [user : Users \cup {Nobody}, alive : BOOLEAN]],
         \A g \in Grants : grants'[g].user = grants[g].user /\ (grants'[g].alive => grants[g].alive)
  PROVE  \A g \in Grants : Used(g)' <=> Used(g)
<1> SUFFICES ASSUME NEW g \in Grants PROVE Used(g)' <=> Used(g)
  OBVIOUS
<1>1. CASE Used(g)
  <2>1. grants'[g].user # Nobody
    BY <1>1, UsedFacts, AccountAssumption
  <2> QED
    BY <1>1, <2>1 DEF Used, NoGrant
<1>2. CASE ~Used(g)
  <2>1. grants'[g].user = Nobody /\ ~grants'[g].alive
    BY <1>2 DEF Used, NoGrant
  <2>2. grants'[g] \in [user : Users \cup {Nobody}, alive : BOOLEAN]
    OBVIOUS
  <2>3. grants'[g] = [user |-> Nobody, alive |-> FALSE]
    BY <2>1, <2>2
  <2> QED
    BY <1>2, <2>3 DEF Used, NoGrant
<1> QED
  BY <1>1, <1>2

\* No step makes up a grant.
LEMMA TokensStep ==
  ASSUME TypeOK, HandsKnown, TokensOfGrants, Next
  PROVE  TokensOfGrants'
<1> USE NoTokenFacts, JobFacts DEF TokensOfGrants, Used, Moves, Over, OthersStay, Stays, UnsavedOnly
<1>0. UNCHANGED <<grants, stored, unsaved, job>> => TokensOfGrants'
  OBVIOUS
<1>1. ASSUME NEW p \in Processes, NEW for \in {"denial", "routine", "user"}, Asks(p, for)
      PROVE  TokensOfGrants'
  BY <1>1, AsksFacts
<1>2. ASSUME NEW p \in Processes, Locks(p)
      PROVE  TokensOfGrants'
  BY <1>2, LocksFacts
<1>3. ASSUME NEW p \in Processes, LockBusy(p)
      PROVE  TokensOfGrants'
  BY <1>3, LockBusyFacts
<1>4. ASSUME NEW p \in Processes, Skips(p)
      PROVE  TokensOfGrants'
  BY <1>4, SkipsFacts
<1>5. ASSUME NEW p \in Processes, Starts(p)
      PROVE  TokensOfGrants'
  BY <1>5, StartsFacts
<1>6. ASSUME NEW p \in Processes, TakesToken(p)
      PROVE  TokensOfGrants'
  BY <1>6, TakesTokenFacts
<1>7. ASSUME NEW p \in Processes, Rotates(p)
      PROVE  TokensOfGrants'
  <2> DEFINE g == job[p].hand.grant
  <2>1. /\ g \in Grants /\ UNCHANGED grants /\ OthersStay(p)
        /\ stored' = Aged(stored, g) /\ \A q \in Processes : unsaved'[q] = Aged(unsaved[q], g)
        /\ job'[p].hand = job[p].hand \/ job'[p].hand = NoToken
    BY <1>7, RotatesFacts
  <2> HIDE DEF g
  <2>2. stored'.grant = stored.grant
    BY <2>1, AgedFacts
  <2>3. \A q \in Processes : unsaved'[q].grant = unsaved[q].grant
    BY <2>1, AgedFacts
  <2> QED
    BY <2>1, <2>2, <2>3
<1>8. ASSUME NEW p \in Processes, Refuses(p)
      PROVE  TokensOfGrants'
  <2>1. job[p].hand # NoToken
    BY <1>8 DEF HandsKnown, Refuses, At
  <2>2. \A g \in Grants : Used(g)' <=> Used(g)
    BY <1>8, <2>1, RefusesFacts, GrantsKept
  <2>3. \A g \in Grants : grants'[g].user = grants[g].user
    BY <1>8, <2>1, RefusesFacts
  <2>4. UNCHANGED <<stored, unsaved>> /\ Moves(p, "again", job[p].hand)
    BY <1>8, <2>1, RefusesFacts
  <2> QED
    BY <2>2, <2>3, <2>4, TokenFacts
<1>9. ASSUME NEW p \in Processes, LooksAgain(p)
      PROVE  TokensOfGrants'
  BY <1>9, LooksAgainFacts
<1>10. ASSUME NEW p \in Processes, Saves(p)
      PROVE  TokensOfGrants'
  BY <1>10, SavesFacts
<1>11. ASSUME NEW p \in Processes, Fetches(p)
      PROVE  TokensOfGrants'
  BY <1>11, FetchesFacts
<1>12. ASSUME NEW p \in Processes, WritesLease(p)
      PROVE  TokensOfGrants'
  BY <1>12, WritesLeaseFacts
<1>13. ASSUME NEW p \in Processes, WritesRecord(p)
      PROVE  TokensOfGrants'
  BY <1>13, WritesRecordFacts
<1>14. ASSUME NEW p \in Processes, Marks(p)
      PROVE  TokensOfGrants'
  BY <1>14, MarksFacts
<1>15. ASSUME NEW p \in Processes, Clears(p)
      PROVE  TokensOfGrants'
  BY <1>15, ClearsFacts
<1>16. ASSUME NEW p \in Processes, Revokes(p)
      PROVE  TokensOfGrants'
  <2>2. \A g \in Grants : Used(g)' <=> Used(g)
    BY <1>16, RevokesFacts, GrantsKept
  <2> QED
    BY <1>16, <2>2, RevokesFacts, TokenFacts
<1>17. ASSUME NEW p \in Processes, Fails(p)
      PROVE  TokensOfGrants'
  BY <1>17, FailsFacts
<1>18. ASSUME NEW p \in Processes, CannotClear(p)
      PROVE  TokensOfGrants'
  BY <1>18, CannotClearFacts
<1>19. ASSUME NEW p \in Processes, Killed(p)
      PROVE  TokensOfGrants'
  BY <1>19, KilledFacts
<1>20. ASSUME NEW user \in Users, SignsIn(user)
      PROVE  TokensOfGrants'
  <2> USE AccountAssumption
  <2>1. UNCHANGED <<stored, unsaved>> /\ \A q \in Processes \ {Desktop} : Stays(q)
    BY <1>20, SignsInFacts
  <2>2. PICK g \in Grants :
          /\ ~Used(g) /\ \A h \in Grants : h < g => Used(h)
          /\ grants'[g] = [user |-> user, alive |-> TRUE]
          /\ \A h \in Grants \ {g} : grants'[h] = grants[h]
          /\ job'[Desktop].hand = Live(g)
    BY <1>20, SignsInFacts
  <2>3. Used(g)' /\ grants'[g].user \in Users
    BY <1>20, <2>2 DEF NoGrant
  <2>4. \A h \in Grants \ {g} : Used(h)' <=> Used(h)
    BY <2>2
  <2>5. \A h \in Grants : Used(h) => Used(h)'
    BY <2>3, <2>4
  <2>6. \A h, k \in Grants : h < k /\ ~Used(h)' => ~Used(k)'
    <3>1. ASSUME NEW h \in Grants, NEW k \in Grants, h < k, ~Used(h)' PROVE ~Used(k)'
      <4>1. h # g /\ ~Used(h)
        BY <2>3, <2>5, <3>1
      <4>2. k # g
        BY <2>2, <3>1, <4>1
      <4> QED
        BY <2>4, <3>1, <4>1, <4>2
    <3> QED
      BY <3>1
  <2>7. \A h \in Grants : Used(h)' => grants'[h].user \in Users
    BY <2>2, <2>3, <2>4
  <2>8. stored'.grant # 0 => grants'[stored'.grant] # NoGrant
    BY <2>1, <2>5, TokenFacts
  <2>9. \A q \in Processes : unsaved'[q].grant # 0 => grants'[unsaved'[q].grant] # NoGrant
    BY <2>1, <2>5, TokenFacts
  <2>10. \A q \in Processes : job'[q].hand.grant # 0 => grants'[job'[q].hand.grant] # NoGrant
    BY <2>1, <2>2, <2>3, <2>5, LiveFacts, TokenFacts
  <2> QED
    BY <2>6, <2>7, <2>8, <2>9, <2>10
<1>21. ASSUME RecordsUse
      PROVE  TokensOfGrants'
  BY <1>21, <1>0 DEF RecordsUse, tokens
<1>22. ASSUME TimePasses
      PROVE  TokensOfGrants'
  BY <1>22, TimeFacts
<1>23. ASSUME NEW for \in {"billing", "signout"}, Wants(for)
      PROVE  TokensOfGrants'
  BY <1>23, WantsFacts
<1>24. ASSUME NEW p \in Processes, Forgets(p)
      PROVE  TokensOfGrants'
  BY <1>24, ForgetsFacts
<1> HIDE DEF TokensOfGrants, Used, Moves, Over, OthersStay, Stays, UnsavedOnly, Unlocked
<1> QED
  BY <1>0, <1>1, <1>2, <1>3, <1>4, <1>5, <1>6, <1>7, <1>8, <1>9, <1>10, <1>11, <1>12,
     <1>13, <1>14, <1>15, <1>16, <1>17, <1>18, <1>19, <1>20, <1>21, <1>22, <1>23, <1>24 DEF Next, Steps

\* The grant of a job's token, if it has one.
LEMMA JobGrant ==
  ASSUME TypeOK, NEW p \in Processes
  PROVE  /\ job[p].hand.grant \in 0..MaxGrants
         /\ job[p].hand.live => job[p].hand.grant \in Grants
BY JobFacts, TokenFacts, AccountAssumption DEF Grants

\* Each variable keeps its shape, and the lock is held by who is past it.
LEMMA TypeStep ==
  ASSUME TypeOK, HandsKnown, TokensOfGrants, Next
  PROVE  TypeOK'
<1> USE AccountAssumption DEF TypeOK
<1> DEFINE Files == /\ marker \in 0..MaxGrants
                    /\ lease \in [grant : 0..MaxGrants, ended : BOOLEAN]
                    /\ record \in [attempt : Age, use : {"unknown", "recent", "month"}]
                    /\ called \in 0..LongSince /\ lost \subseteq Grants /\ troubles \in 0..MaxTroubles
           Tokens == /\ grants \in [Grants -> [user : Users \cup {Nobody}, alive : BOOLEAN]]
                     /\ stored \in Token /\ unsaved \in [Processes -> Token]
                     /\ job \in [Processes -> Jobs]
           Locked == /\ lock \in Processes \cup {Nobody}
                     /\ \A p \in Processes : lock = p <=> job[p].pc \notin Unlocked
<1>0. Files /\ Tokens /\ Locked
  OBVIOUS
<1>1. ASSUME NEW p \in Processes, NEW for \in {"denial", "routine", "user"}, Asks(p, for)
      PROVE  TypeOK'
  <2>1. marker' \in 0..MaxGrants /\ lease' \in [grant : 0..MaxGrants, ended : BOOLEAN]
    BY <1>1, <1>0, AsksFacts, JobFacts, TokenFacts, JobGrant DEF Asks, files, NoLease
  <2>2. record' \in [attempt : Age, use : {"unknown", "recent", "month"}] /\ called' \in 0..LongSince
    BY <1>1, <1>0, AsksFacts DEF Asks, files, NoRecord, Age, LongAgo, LongSince
  <2>3. lost' \subseteq Grants
    BY <1>1, <1>0, AsksFacts, JobGrant DEF Dropped
  <2>4. troubles' \in 0..MaxTroubles
    BY <1>1, <1>0 DEF Asks, Trouble
  <2>5. Tokens'
    BY <1>1, AsksFacts, JobFacts, NoTokenFacts, TokenFacts DEF UnsavedOnly
  <2>6. Locked'
    BY <1>1, <1>0, AsksFacts, Alone DEF Moves, Over, OthersStay, Stays, Unlocked
  <2> QED
    BY <2>1, <2>2, <2>3, <2>4, <2>5, <2>6
<1>2. ASSUME NEW p \in Processes, Locks(p)
      PROVE  TypeOK'
  <2>1. marker' \in 0..MaxGrants /\ lease' \in [grant : 0..MaxGrants, ended : BOOLEAN]
    BY <1>2, <1>0, LocksFacts, JobFacts, TokenFacts, JobGrant DEF Locks, files, NoLease
  <2>2. record' \in [attempt : Age, use : {"unknown", "recent", "month"}] /\ called' \in 0..LongSince
    BY <1>2, <1>0, LocksFacts DEF Locks, files, NoRecord, Age, LongAgo, LongSince
  <2>3. lost' \subseteq Grants
    BY <1>2, <1>0, LocksFacts, JobGrant DEF Dropped
  <2>4. troubles' \in 0..MaxTroubles
    BY <1>2, <1>0 DEF Locks, Trouble
  <2>5. Tokens'
    BY <1>2, LocksFacts, JobFacts, NoTokenFacts, TokenFacts DEF UnsavedOnly
  <2>6. Locked'
    BY <1>2, <1>0, LocksFacts, Alone DEF Moves, Over, OthersStay, Stays, Unlocked
  <2> QED
    BY <2>1, <2>2, <2>3, <2>4, <2>5, <2>6
<1>3. ASSUME NEW p \in Processes, LockBusy(p)
      PROVE  TypeOK'
  <2>1. marker' \in 0..MaxGrants /\ lease' \in [grant : 0..MaxGrants, ended : BOOLEAN]
    BY <1>3, <1>0, LockBusyFacts, JobFacts, TokenFacts, JobGrant DEF LockBusy, files,
       NoLease
  <2>2. record' \in [attempt : Age, use : {"unknown", "recent", "month"}] /\ called' \in 0..LongSince
    BY <1>3, <1>0, LockBusyFacts DEF LockBusy, files, NoRecord, Age, LongAgo, LongSince
  <2>3. lost' \subseteq Grants
    BY <1>3, <1>0, LockBusyFacts, JobGrant DEF Dropped
  <2>4. troubles' \in 0..MaxTroubles
    BY <1>3, <1>0 DEF LockBusy, Trouble
  <2>5. Tokens'
    BY <1>3, LockBusyFacts, JobFacts, NoTokenFacts, TokenFacts DEF UnsavedOnly
  <2>6. Locked'
    BY <1>3, <1>0, LockBusyFacts, Alone DEF Moves, Over, OthersStay, Stays, Unlocked
  <2> QED
    BY <2>1, <2>2, <2>3, <2>4, <2>5, <2>6
<1>4. ASSUME NEW p \in Processes, Skips(p)
      PROVE  TypeOK'
  <2>1. marker' \in 0..MaxGrants /\ lease' \in [grant : 0..MaxGrants, ended : BOOLEAN]
    BY <1>4, <1>0, SkipsFacts, JobFacts, TokenFacts, JobGrant DEF Skips, files, NoLease
  <2>2. record' \in [attempt : Age, use : {"unknown", "recent", "month"}] /\ called' \in 0..LongSince
    BY <1>4, <1>0, SkipsFacts DEF Skips, files, NoRecord, Age, LongAgo, LongSince
  <2>3. lost' \subseteq Grants
    BY <1>4, <1>0, SkipsFacts, JobGrant DEF Dropped
  <2>4. troubles' \in 0..MaxTroubles
    BY <1>4, <1>0 DEF Skips, Trouble
  <2>5. Tokens'
    BY <1>4, SkipsFacts, JobFacts, NoTokenFacts, TokenFacts DEF UnsavedOnly
  <2>6. Locked'
    BY <1>4, <1>0, SkipsFacts, Alone DEF Moves, Over, OthersStay, Stays, Unlocked
  <2> QED
    BY <2>1, <2>2, <2>3, <2>4, <2>5, <2>6
<1>5. ASSUME NEW p \in Processes, Starts(p)
      PROVE  TypeOK'
  <2>1. marker' \in 0..MaxGrants /\ lease' \in [grant : 0..MaxGrants, ended : BOOLEAN]
    BY <1>5, <1>0, StartsFacts, JobFacts, TokenFacts, JobGrant DEF Starts, files, NoLease
  <2>2. record' \in [attempt : Age, use : {"unknown", "recent", "month"}] /\ called' \in 0..LongSince
    <3>1. job[p].asked \in Age /\ called' \in 0..LongSince
      BY <1>5, <1>0 DEF Starts, Jobs, Age, LongAgo, LongSince
    <3>2. record' = record \/ record' = [record EXCEPT !.attempt = Younger(@, job[p].asked)]
      BY <1>5 DEF Starts
    <3>3. Younger(record.attempt, job[p].asked) \in Age
      BY <3>1 DEF Younger
    <3> QED
      BY <3>1, <3>2, <3>3
  <2>3. lost' \subseteq Grants
    BY <1>5, <1>0, StartsFacts, JobGrant DEF Dropped
  <2>4. troubles' \in 0..MaxTroubles
    BY <1>5, <1>0 DEF Starts, Trouble
  <2>5. Tokens'
    BY <1>5, StartsFacts, JobFacts, NoTokenFacts, TokenFacts DEF UnsavedOnly
  <2>6. Locked'
    BY <1>5, <1>0, StartsFacts, Alone DEF Moves, Over, OthersStay, Stays, Unlocked
  <2> QED
    BY <2>1, <2>2, <2>3, <2>4, <2>5, <2>6
<1>6. ASSUME NEW p \in Processes, TakesToken(p)
      PROVE  TypeOK'
  <2>1. marker' \in 0..MaxGrants /\ lease' \in [grant : 0..MaxGrants, ended : BOOLEAN]
    BY <1>6, <1>0, TakesTokenFacts, JobFacts, TokenFacts, JobGrant DEF TakesToken,
       files, NoLease
  <2>2. record' \in [attempt : Age, use : {"unknown", "recent", "month"}] /\ called' \in 0..LongSince
    BY <1>6, <1>0, TakesTokenFacts DEF TakesToken, files, NoRecord, Age, LongAgo, LongSince
  <2>3. lost' \subseteq Grants
    BY <1>6, <1>0, TakesTokenFacts, JobGrant DEF Dropped
  <2>4. troubles' \in 0..MaxTroubles
    BY <1>6, <1>0 DEF TakesToken, Trouble
  <2>5. Tokens'
    BY <1>6, TakesTokenFacts, JobFacts, NoTokenFacts, TokenFacts DEF UnsavedOnly
  <2>6. Locked'
    BY <1>6, <1>0, TakesTokenFacts, Alone DEF Moves, Over, OthersStay, Stays, Unlocked
  <2> QED
    BY <2>1, <2>2, <2>3, <2>4, <2>5, <2>6
<1>7. ASSUME NEW p \in Processes, Rotates(p)
      PROVE  TypeOK'
  <2>1. marker' \in 0..MaxGrants /\ lease' \in [grant : 0..MaxGrants, ended : BOOLEAN]
    BY <1>7, <1>0, RotatesFacts, JobFacts, TokenFacts, JobGrant DEF Rotates, files, NoLease
  <2>2. record' \in [attempt : Age, use : {"unknown", "recent", "month"}] /\ called' \in 0..LongSince
    BY <1>7, <1>0, RotatesFacts DEF Rotates, files, NoRecord, Age, LongAgo, LongSince
  <2>3. lost' \subseteq Grants
    BY <1>7, <1>0, RotatesFacts, JobGrant DEF Dropped
  <2>4. troubles' \in 0..MaxTroubles
    BY <1>7, <1>0 DEF Rotates, Trouble
  <2>5. Tokens'
    BY <1>7, RotatesFacts, JobFacts, NoTokenFacts, TokenFacts DEF UnsavedOnly
  <2>6. Locked'
    BY <1>7, <1>0, RotatesFacts, Alone, SMTT(60) DEF Moves, Over, OthersStay, Stays, Unlocked
  <2> QED
    BY <2>1, <2>2, <2>3, <2>4, <2>5, <2>6
<1>8. ASSUME NEW p \in Processes, Refuses(p)
      PROVE  TypeOK'
  <2>0. job[p].hand # NoToken
    BY <1>8 DEF HandsKnown, Refuses, At
  <2>1. marker' \in 0..MaxGrants /\ lease' \in [grant : 0..MaxGrants, ended : BOOLEAN]
    BY <1>8, <2>0, <1>0, RefusesFacts, JobFacts, TokenFacts, JobGrant DEF Refuses,
       files, NoLease
  <2>2. record' \in [attempt : Age, use : {"unknown", "recent", "month"}] /\ called' \in 0..LongSince
    BY <1>8, <2>0, <1>0, RefusesFacts DEF Refuses, files, NoRecord, Age, LongAgo, LongSince
  <2>3. lost' \subseteq Grants
    BY <1>8, <2>0, <1>0, RefusesFacts, JobGrant DEF Dropped
  <2>4. troubles' \in 0..MaxTroubles
    BY <1>8, <2>0, <1>0 DEF Refuses, Trouble
  <2>5. Tokens'
    BY <1>8, <2>0, RefusesFacts, JobFacts, NoTokenFacts, TokenFacts DEF UnsavedOnly
  <2>6. Locked'
    BY <1>8, <2>0, <1>0, RefusesFacts, Alone DEF Moves, Over, OthersStay, Stays, Unlocked
  <2> QED
    BY <2>1, <2>2, <2>3, <2>4, <2>5, <2>6
<1>9. ASSUME NEW p \in Processes, LooksAgain(p)
      PROVE  TypeOK'
  <2>1. marker' \in 0..MaxGrants /\ lease' \in [grant : 0..MaxGrants, ended : BOOLEAN]
    BY <1>9, <1>0, LooksAgainFacts, JobFacts, TokenFacts, JobGrant DEF LooksAgain,
       files, NoLease
  <2>2. record' \in [attempt : Age, use : {"unknown", "recent", "month"}] /\ called' \in 0..LongSince
    BY <1>9, <1>0, LooksAgainFacts DEF LooksAgain, files, NoRecord, Age, LongAgo, LongSince
  <2>3. lost' \subseteq Grants
    BY <1>9, <1>0, LooksAgainFacts, JobGrant DEF Dropped
  <2>4. troubles' \in 0..MaxTroubles
    BY <1>9, <1>0 DEF LooksAgain, Trouble
  <2>5. Tokens'
    BY <1>9, LooksAgainFacts, JobFacts, NoTokenFacts, TokenFacts DEF UnsavedOnly
  <2>6. Locked'
    BY <1>9, <1>0, LooksAgainFacts, Alone DEF Moves, Over, OthersStay, Stays, Unlocked
  <2> QED
    BY <2>1, <2>2, <2>3, <2>4, <2>5, <2>6
<1>10. ASSUME NEW p \in Processes, Saves(p)
      PROVE  TypeOK'
  <2>1. marker' \in 0..MaxGrants /\ lease' \in [grant : 0..MaxGrants, ended : BOOLEAN]
    BY <1>10, <1>0, SavesFacts, JobFacts, TokenFacts, JobGrant DEF Saves, files, NoLease
  <2>2. record' \in [attempt : Age, use : {"unknown", "recent", "month"}] /\ called' \in 0..LongSince
    BY <1>10, <1>0, SavesFacts DEF Saves, files, NoRecord, Age, LongAgo, LongSince
  <2>3. lost' \subseteq Grants
    BY <1>10, <1>0, SavesFacts, JobGrant DEF Dropped, HandsKnown
  <2>4. troubles' \in 0..MaxTroubles
    BY <1>10, <1>0 DEF Saves, Trouble
  <2>5. Tokens'
    BY <1>10, SavesFacts, JobFacts, NoTokenFacts, TokenFacts DEF UnsavedOnly
  <2>6. Locked'
    BY <1>10, <1>0, SavesFacts, Alone DEF Moves, Over, OthersStay, Stays, Unlocked
  <2> QED
    BY <2>1, <2>2, <2>3, <2>4, <2>5, <2>6
<1>11. ASSUME NEW p \in Processes, Fetches(p)
      PROVE  TypeOK'
  <2>1. marker' \in 0..MaxGrants /\ lease' \in [grant : 0..MaxGrants, ended : BOOLEAN]
    BY <1>11, <1>0, FetchesFacts, JobFacts, TokenFacts, JobGrant DEF Fetches, files, NoLease
  <2>2. record' \in [attempt : Age, use : {"unknown", "recent", "month"}] /\ called' \in 0..LongSince
    BY <1>11, <1>0, FetchesFacts DEF Fetches, files, NoRecord, Age, LongAgo, LongSince
  <2>3. lost' \subseteq Grants
    BY <1>11, <1>0, FetchesFacts, JobGrant DEF Dropped
  <2>4. troubles' \in 0..MaxTroubles
    BY <1>11, <1>0 DEF Fetches, Trouble
  <2>5. Tokens'
    BY <1>11, FetchesFacts, JobFacts, NoTokenFacts, TokenFacts DEF UnsavedOnly
  <2>6. Locked'
    BY <1>11, <1>0, FetchesFacts, Alone DEF Moves, Over, OthersStay, Stays, Unlocked
  <2> QED
    BY <2>1, <2>2, <2>3, <2>4, <2>5, <2>6
<1>12. ASSUME NEW p \in Processes, WritesLease(p)
      PROVE  TypeOK'
  <2>1. marker' \in 0..MaxGrants /\ lease' \in [grant : 0..MaxGrants, ended : BOOLEAN]
    BY <1>12, <1>0, WritesLeaseFacts, JobFacts, TokenFacts, JobGrant DEF WritesLease,
       files, NoLease, Jobs
  <2>2. record' \in [attempt : Age, use : {"unknown", "recent", "month"}] /\ called' \in 0..LongSince
    BY <1>12, <1>0, WritesLeaseFacts DEF WritesLease, files, NoRecord, Age, LongAgo, LongSince
  <2>3. lost' \subseteq Grants
    BY <1>12, <1>0, WritesLeaseFacts, JobGrant DEF Dropped
  <2>4. troubles' \in 0..MaxTroubles
    BY <1>12, <1>0 DEF WritesLease, Trouble
  <2>5. Tokens'
    BY <1>12, WritesLeaseFacts, JobFacts, NoTokenFacts, TokenFacts DEF UnsavedOnly
  <2>6. Locked'
    BY <1>12, <1>0, WritesLeaseFacts, Alone DEF Moves, Over, OthersStay, Stays, Unlocked
  <2> QED
    BY <2>1, <2>2, <2>3, <2>4, <2>5, <2>6
<1>13. ASSUME NEW p \in Processes, WritesRecord(p)
      PROVE  TypeOK'
  <2>1. marker' \in 0..MaxGrants /\ lease' \in [grant : 0..MaxGrants, ended : BOOLEAN]
    BY <1>13, <1>0, WritesRecordFacts, JobFacts, TokenFacts, JobGrant DEF WritesRecord,
       files, NoLease
  <2>2. record' \in [attempt : Age, use : {"unknown", "recent", "month"}] /\ called' \in 0..LongSince
    BY <1>13, <1>0, WritesRecordFacts DEF WritesRecord, files, NoRecord, Age, LongAgo, LongSince
  <2>3. lost' \subseteq Grants
    BY <1>13, <1>0, WritesRecordFacts, JobGrant DEF Dropped
  <2>4. troubles' \in 0..MaxTroubles
    BY <1>13, <1>0 DEF WritesRecord, Trouble
  <2>5. Tokens'
    BY <1>13, WritesRecordFacts, JobFacts, NoTokenFacts, TokenFacts DEF UnsavedOnly
  <2>6. Locked'
    BY <1>13, <1>0, WritesRecordFacts, Alone DEF Moves, Over, OthersStay, Stays, Unlocked
  <2> QED
    BY <2>1, <2>2, <2>3, <2>4, <2>5, <2>6
<1>14. ASSUME NEW p \in Processes, Marks(p)
      PROVE  TypeOK'
  <2>1. marker' \in 0..MaxGrants /\ lease' \in [grant : 0..MaxGrants, ended : BOOLEAN]
    <3>1. lease' = lease \/ lease' = NoLease
      BY <1>14 DEF Marks, files
    <3>2. marker' \in {marker, 0, job[p].hand.grant}
      BY <1>14 DEF Marks, files
    <3>3. MaxGrants \in Nat /\ NoLease \in [grant : 0..MaxGrants, ended : BOOLEAN]
      BY DEF NoLease
    <3>4. marker' \in 0..MaxGrants
      BY <1>0, <3>2, <3>3, JobGrant
    <3> QED
      BY <1>0, <3>1, <3>3, <3>4
  <2>2. record' \in [attempt : Age, use : {"unknown", "recent", "month"}] /\ called' \in 0..LongSince
    BY <1>14, <1>0, MarksFacts DEF Marks, files, NoRecord, Age, LongAgo, LongSince
  <2>3. lost' \subseteq Grants
    BY <1>14, <1>0, MarksFacts, JobGrant DEF Dropped
  <2>4. troubles' \in 0..MaxTroubles
    BY <1>14, <1>0 DEF Marks, Trouble
  <2>5. Tokens'
    BY <1>14, MarksFacts, JobFacts, NoTokenFacts, TokenFacts DEF UnsavedOnly
  <2>6. Locked'
    BY <1>14, <1>0, MarksFacts, Alone DEF Moves, Over, OthersStay, Stays, Unlocked
  <2> QED
    BY <2>1, <2>2, <2>3, <2>4, <2>5, <2>6
<1>15. ASSUME NEW p \in Processes, Clears(p)
      PROVE  TypeOK'
  <2>1. marker' \in 0..MaxGrants /\ lease' \in [grant : 0..MaxGrants, ended : BOOLEAN]
    <3>1. lease' = lease \/ lease' = NoLease
      BY <1>15 DEF Clears, files
    <3>2. marker' \in {marker, 0, job[p].hand.grant}
      BY <1>15 DEF Clears, files
    <3>3. MaxGrants \in Nat /\ NoLease \in [grant : 0..MaxGrants, ended : BOOLEAN]
      BY DEF NoLease
    <3>4. marker' \in 0..MaxGrants
      BY <1>0, <3>2, <3>3, JobGrant
    <3> QED
      BY <1>0, <3>1, <3>3, <3>4
  <2>2. record' \in [attempt : Age, use : {"unknown", "recent", "month"}] /\ called' \in 0..LongSince
    BY <1>15, <1>0, ClearsFacts DEF Clears, files, NoRecord, Age, LongAgo, LongSince
  <2>3. lost' \subseteq Grants
    BY <1>15, <1>0, ClearsFacts, JobGrant DEF Dropped
  <2>4. troubles' \in 0..MaxTroubles
    BY <1>15, <1>0 DEF Clears, Trouble
  <2>5. Tokens'
    BY <1>15, ClearsFacts, JobFacts, NoTokenFacts, TokenFacts DEF UnsavedOnly
  <2>6. Locked'
    BY <1>15, <1>0, ClearsFacts, Alone DEF Moves, Over, OthersStay, Stays, Unlocked
  <2> QED
    BY <2>1, <2>2, <2>3, <2>4, <2>5, <2>6
<1>16. ASSUME NEW p \in Processes, Revokes(p)
      PROVE  TypeOK'
  <2>1. marker' \in 0..MaxGrants /\ lease' \in [grant : 0..MaxGrants, ended : BOOLEAN]
    BY <1>16, <1>0, RevokesFacts, JobFacts, TokenFacts, JobGrant DEF Revokes, files, NoLease
  <2>2. record' \in [attempt : Age, use : {"unknown", "recent", "month"}] /\ called' \in 0..LongSince
    BY <1>16, <1>0, RevokesFacts DEF Revokes, files, NoRecord, Age, LongAgo, LongSince
  <2>3. lost' \subseteq Grants
    BY <1>16, <1>0, RevokesFacts, JobGrant DEF Dropped
  <2>4. troubles' \in 0..MaxTroubles
    BY <1>16, <1>0 DEF Revokes, Trouble
  <2>5. Tokens'
    BY <1>16, RevokesFacts, JobFacts, NoTokenFacts, TokenFacts DEF UnsavedOnly
  <2>6. Locked'
    BY <1>16, <1>0, RevokesFacts, Alone DEF Moves, Over, OthersStay, Stays, Unlocked
  <2> QED
    BY <2>1, <2>2, <2>3, <2>4, <2>5, <2>6
<1>17. ASSUME NEW p \in Processes, Fails(p)
      PROVE  TypeOK'
  <2>1. marker' \in 0..MaxGrants /\ lease' \in [grant : 0..MaxGrants, ended : BOOLEAN]
    BY <1>17, <1>0, FailsFacts, JobFacts, TokenFacts, JobGrant DEF Fails, files, NoLease
  <2>2. record' \in [attempt : Age, use : {"unknown", "recent", "month"}] /\ called' \in 0..LongSince
    BY <1>17, <1>0, FailsFacts DEF Fails, files, NoRecord, Age, LongAgo, LongSince
  <2>3. lost' \subseteq Grants
    BY <1>17, <1>0, FailsFacts, JobGrant DEF Dropped
  <2>4. troubles' \in 0..MaxTroubles
    BY <1>17, <1>0 DEF Fails, Trouble
  <2>5. Tokens'
    BY <1>17, FailsFacts, JobFacts, NoTokenFacts, TokenFacts DEF UnsavedOnly
  <2>6. Locked'
    BY <1>17, <1>0, FailsFacts, Alone DEF Moves, Over, OthersStay, Stays, Unlocked
  <2> QED
    BY <2>1, <2>2, <2>3, <2>4, <2>5, <2>6
<1>18. ASSUME NEW p \in Processes, CannotClear(p)
      PROVE  TypeOK'
  <2>1. marker' \in 0..MaxGrants /\ lease' \in [grant : 0..MaxGrants, ended : BOOLEAN]
    BY <1>18, <1>0, CannotClearFacts, JobFacts, TokenFacts, JobGrant DEF CannotClear,
       files, NoLease
  <2>2. record' \in [attempt : Age, use : {"unknown", "recent", "month"}] /\ called' \in 0..LongSince
    BY <1>18, <1>0, CannotClearFacts DEF CannotClear, files, NoRecord, Age, LongAgo, LongSince
  <2>3. lost' \subseteq Grants
    BY <1>18, <1>0, CannotClearFacts, JobGrant DEF Dropped
  <2>4. troubles' \in 0..MaxTroubles
    BY <1>18, <1>0 DEF CannotClear, Trouble
  <2>5. Tokens'
    BY <1>18, CannotClearFacts, JobFacts, NoTokenFacts, TokenFacts DEF UnsavedOnly
  <2>6. Locked'
    BY <1>18, <1>0, CannotClearFacts, Alone DEF Moves, Over, OthersStay, Stays, Unlocked
  <2> QED
    BY <2>1, <2>2, <2>3, <2>4, <2>5, <2>6
<1>19. ASSUME NEW p \in Processes, Killed(p)
      PROVE  TypeOK'
  <2>1. marker' \in 0..MaxGrants /\ lease' \in [grant : 0..MaxGrants, ended : BOOLEAN]
    BY <1>19, <1>0, KilledFacts, JobFacts, TokenFacts, JobGrant DEF Killed, files, NoLease
  <2>2. record' \in [attempt : Age, use : {"unknown", "recent", "month"}] /\ called' \in 0..LongSince
    BY <1>19, <1>0, KilledFacts DEF Killed, files, NoRecord, Age, LongAgo, LongSince
  <2>3. lost' \subseteq Grants
    BY <1>19, <1>0, KilledFacts, JobGrant DEF Dropped
  <2>4. troubles' \in 0..MaxTroubles
    BY <1>19, <1>0 DEF Killed, Trouble
  <2>5. Tokens'
    BY <1>19, KilledFacts, JobFacts, NoTokenFacts, TokenFacts DEF UnsavedOnly
  <2>6. Locked'
    BY <1>19, <1>0, KilledFacts, Alone DEF Moves, Over, OthersStay, Stays, Unlocked
  <2> QED
    BY <2>1, <2>2, <2>3, <2>4, <2>5, <2>6
<1>20. ASSUME NEW user \in Users, SignsIn(user)
      PROVE  TypeOK'
  <2>1. marker' \in 0..MaxGrants /\ lease' \in [grant : 0..MaxGrants, ended : BOOLEAN]
    BY <1>20, <1>0, SignsInFacts, JobFacts, TokenFacts, JobGrant DEF SignsIn, files, NoLease
  <2>2. record' \in [attempt : Age, use : {"unknown", "recent", "month"}] /\ called' \in 0..LongSince
    BY <1>20, <1>0, SignsInFacts DEF SignsIn, files, NoRecord, Age, LongAgo, LongSince
  <2>3. lost' \subseteq Grants
    BY <1>20, <1>0, SignsInFacts, JobGrant DEF Dropped
  <2>4. troubles' \in 0..MaxTroubles
    BY <1>20, <1>0 DEF SignsIn, Trouble
  <2>5. Tokens'
    BY <1>20, SignsInFacts, JobFacts, NoTokenFacts, TokenFacts DEF UnsavedOnly
  <2>6. Locked'
    <3>1. /\ job[Desktop].pc = "idle" /\ UNCHANGED lock
          /\ job'[Desktop].pc = "wait" /\ OthersStay(Desktop)
      BY <1>20, SignsInFacts
    <3> QED
      BY <1>0, <3>1 DEF OthersStay, Stays, Unlocked
  <2> QED
    BY <2>1, <2>2, <2>3, <2>4, <2>5, <2>6
<1>21. ASSUME RecordsUse
      PROVE  TypeOK'
  BY <1>21 DEF RecordsUse, tokens, files, Older, Age
<1>22. ASSUME TimePasses
      PROVE  TypeOK'
  BY <1>22, TimeFacts DEF Stays
<1>23. ASSUME NEW for \in {"billing", "signout"}, Wants(for)
      PROVE  TypeOK'
  BY <1>23, WantsFacts DEF Wants, files, OthersStay, Stays, Unlocked
<1>24. ASSUME NEW p \in Processes, Forgets(p)
      PROVE  TypeOK'
  <2>1. /\ marker' \in 0..MaxGrants /\ lease' \in [grant : 0..MaxGrants, ended : BOOLEAN]
        /\ record' \in [attempt : Age, use : {"unknown", "recent", "month"}] /\ called' \in 0..LongSince
        /\ lost' \subseteq Grants
    BY <1>24, <1>0 DEF Forgets, files
  <2>2. troubles' \in 0..MaxTroubles
    BY <1>24, <1>0 DEF Forgets, Trouble
  <2>3. Tokens'
    BY <1>24, ForgetsFacts, JobFacts, NoTokenFacts
  <2>4. Locked'
    BY <1>24, <1>0, ForgetsFacts, Alone DEF Moves, OthersStay, Stays, Unlocked
  <2> QED
    BY <2>1, <2>2, <2>3, <2>4
<1> HIDE DEF TypeOK
<1> QED
  BY <1>1, <1>2, <1>3, <1>4, <1>5, <1>6, <1>7, <1>8, <1>9, <1>10, <1>11, <1>12, <1>13,
     <1>14, <1>15, <1>16, <1>17, <1>18, <1>19, <1>20, <1>21, <1>22, <1>23, <1>24 DEF Next, Steps

\* The holder of the lock works alone, so that its token stays where it was.
LEMMA HandsStep ==
  ASSUME TypeOK, HandsKnown, TokensOfGrants, Next
  PROVE  HandsKnown'
<1> USE AccountAssumption, NoTokenFacts, JobFacts, Alone DEF HandsKnown, Moves, Over, OthersStay, Stays, UnsavedOnly, Unlocked
<1>0. UNCHANGED <<grants, stored, unsaved, job>> => HandsKnown'
  OBVIOUS
<1>1. ASSUME NEW p \in Processes, NEW for \in {"denial", "routine", "user"}, Asks(p, for)
      PROVE  HandsKnown'
  BY <1>1, AsksFacts
<1>2. ASSUME NEW p \in Processes, Locks(p)
      PROVE  HandsKnown'
  BY <1>2, LocksFacts
<1>3. ASSUME NEW p \in Processes, LockBusy(p)
      PROVE  HandsKnown'
  BY <1>3, LockBusyFacts
<1>4. ASSUME NEW p \in Processes, Skips(p)
      PROVE  HandsKnown'
  BY <1>4, SkipsFacts
<1>5. ASSUME NEW p \in Processes, Starts(p)
      PROVE  HandsKnown'
  BY <1>5, StartsFacts
<1>6. ASSUME NEW p \in Processes, TakesToken(p)
      PROVE  HandsKnown'
  BY <1>6, TakesTokenFacts
<1>7. ASSUME NEW p \in Processes, Rotates(p)
      PROVE  HandsKnown'
  <2>1. job[p].hand.live /\ job[p].pc = "ask"
    BY <1>7 DEF Rotates, At
  <2>2. \A q \in Processes \ {p} : job[q].pc \in Unlocked
    BY <2>1, Alone DEF Unlocked
  <2>3. UNCHANGED grants /\ OthersStay(p) /\ (Moves(p, "save", job[p].hand) \/ Over(p))
    BY <1>7, RotatesFacts
  <2> QED
    BY <2>1, <2>2, <2>3
<1>8. ASSUME NEW p \in Processes, Refuses(p)
      PROVE  HandsKnown'
  <2>1. job[p].hand # NoToken /\ job[p].pc = "ask"
    BY <1>8 DEF Refuses, At
  <2>2. \A q \in Processes \ {p} : job[q].pc \in Unlocked
    BY <2>1, Alone DEF Unlocked
  <2>3. /\ UNCHANGED <<stored, unsaved>> /\ Moves(p, "again", job[p].hand)
        /\ ~grants'[job[p].hand.grant].alive
    BY <1>8, <2>1, RefusesFacts
  <2> QED
    BY <2>1, <2>2, <2>3
<1>9. ASSUME NEW p \in Processes, LooksAgain(p)
      PROVE  HandsKnown'
  BY <1>9, LooksAgainFacts
<1>10. ASSUME NEW p \in Processes, Saves(p)
      PROVE  HandsKnown'
  BY <1>10, SavesFacts
<1>11. ASSUME NEW p \in Processes, Fetches(p)
      PROVE  HandsKnown'
  BY <1>11, FetchesFacts
<1>12. ASSUME NEW p \in Processes, WritesLease(p)
      PROVE  HandsKnown'
  BY <1>12, WritesLeaseFacts
<1>13. ASSUME NEW p \in Processes, WritesRecord(p)
      PROVE  HandsKnown'
  BY <1>13, WritesRecordFacts
<1>14. ASSUME NEW p \in Processes, Marks(p)
      PROVE  HandsKnown'
  BY <1>14, MarksFacts
<1>15. ASSUME NEW p \in Processes, Clears(p)
      PROVE  HandsKnown'
  BY <1>15, ClearsFacts
<1>16. ASSUME NEW p \in Processes, Revokes(p)
      PROVE  HandsKnown'
  <2>1. \A q \in Processes : job[q].hand # NoToken => job[q].hand.grant \in Grants
    BY TokenFacts
  <2> QED
    BY <1>16, <2>1, RevokesFacts
<1>17. ASSUME NEW p \in Processes, Fails(p)
      PROVE  HandsKnown'
  BY <1>17, FailsFacts
<1>18. ASSUME NEW p \in Processes, CannotClear(p)
      PROVE  HandsKnown'
  BY <1>18, CannotClearFacts
<1>19. ASSUME NEW p \in Processes, Killed(p)
      PROVE  HandsKnown'
  BY <1>19, KilledFacts
<1>20. ASSUME NEW user \in Users, SignsIn(user)
      PROVE  HandsKnown'
  <2>1. UNCHANGED <<stored, unsaved>> /\ \A q \in Processes \ {Desktop} : Stays(q)
    BY <1>20, SignsInFacts
  <2>2. PICK g \in Grants :
          /\ ~Used(g) /\ \A h \in Grants \ {g} : grants'[h] = grants[h]
          /\ job'[Desktop].pc = "wait" /\ job'[Desktop].for = "signin"
          /\ job'[Desktop].hand = Live(g)
    BY <1>20, SignsInFacts
  <2>3. ASSUME NEW q \in Processes \ {Desktop}, job[q].pc = "again"
        PROVE  ~grants'[job[q].hand.grant].alive
    <3>1. job[q].hand # NoToken /\ ~grants[job[q].hand.grant].alive
      BY <2>3
    <3>2. job[q].hand.grant \in Grants /\ Used(job[q].hand.grant)
      BY <3>1, TokenFacts DEF TokensOfGrants
    <3> QED
      BY <2>2, <3>1, <3>2
  <2> QED
    BY <2>1, <2>2, <2>3, LiveFacts
<1>21. ASSUME RecordsUse
      PROVE  HandsKnown'
  BY <1>21, <1>0 DEF RecordsUse, tokens
<1>22. ASSUME TimePasses
      PROVE  HandsKnown'
  BY <1>22, TimeFacts
<1>23. ASSUME NEW for \in {"billing", "signout"}, Wants(for)
      PROVE  HandsKnown'
  BY <1>23, WantsFacts
<1>24. ASSUME NEW p \in Processes, Forgets(p)
      PROVE  HandsKnown'
  BY <1>24, ForgetsFacts
<1> HIDE DEF HandsKnown, Moves, Over, OthersStay, Stays, UnsavedOnly, Unlocked
<1> QED
  BY <1>0, <1>1, <1>2, <1>3, <1>4, <1>5, <1>6, <1>7, <1>8, <1>9, <1>10, <1>11, <1>12,
     <1>13, <1>14, <1>15, <1>16, <1>17, <1>18, <1>19, <1>20, <1>21, <1>22, <1>23, <1>24 DEF Next, Steps

\* Every token's grant is a number.
LEMMA TokenNat ==
  ASSUME TypeOK, NEW p \in Processes
  PROVE  job[p].hand.grant \in Nat /\ unsaved[p].grant \in Nat /\ stored.grant \in Nat
BY JobFacts, TokenFacts

\* A sign-in's grant is given out after every grant that anybody has a token of.
LEMMA NewestStep ==
  ASSUME TypeOK, HandsKnown, TokensOfGrants, NewestInHand, Next
  PROVE  NewestInHand'
<1> USE AccountAssumption, NoTokenFacts, JobFacts, TokenNat, Alone DEF HandsKnown, NewestInHand, Moves, Over, OthersStay, Stays, UnsavedOnly, Unlocked
<1>0. UNCHANGED <<stored, unsaved, job>> => NewestInHand'
  OBVIOUS
<1>1. ASSUME NEW p \in Processes, NEW for \in {"denial", "routine", "user"}, Asks(p, for)
      PROVE  NewestInHand'
  BY <1>1, AsksFacts
<1>2. ASSUME NEW p \in Processes, Locks(p)
      PROVE  NewestInHand'
  BY <1>2, LocksFacts
<1>3. ASSUME NEW p \in Processes, LockBusy(p)
      PROVE  NewestInHand'
  BY <1>3, LockBusyFacts
<1>4. ASSUME NEW p \in Processes, Skips(p)
      PROVE  NewestInHand'
  BY <1>4, SkipsFacts
<1>5. ASSUME NEW p \in Processes, Starts(p)
      PROVE  NewestInHand'
  BY <1>5, StartsFacts
<1>6. ASSUME NEW p \in Processes, TakesToken(p)
      PROVE  NewestInHand'
  BY <1>6, TakesTokenFacts
<1>7. ASSUME NEW p \in Processes, Rotates(p)
      PROVE  NewestInHand'
  <2> DEFINE g == job[p].hand.grant
  <2>1. /\ g \in Grants /\ (Moves(p, "save", job[p].hand) \/ Over(p)) /\ job[p].for # "signin"
        /\ stored' = Aged(stored, g) /\ \A q \in Processes : unsaved'[q] = Aged(unsaved[q], g)
    BY <1>7, RotatesFacts
  <2> HIDE DEF g
  <2>2. stored'.grant = stored.grant
    BY <2>1, AgedFacts
  <2>3. \A q \in Processes : unsaved'[q].grant = unsaved[q].grant
    BY <2>1, AgedFacts
  <2> QED
    BY <2>1, <2>2, <2>3
<1>8. ASSUME NEW p \in Processes, Refuses(p)
      PROVE  NewestInHand'
  <2>1. job[p].hand # NoToken
    BY <1>8 DEF Refuses, At
  <2> QED
    BY <1>8, <2>1, RefusesFacts
<1>9. ASSUME NEW p \in Processes, LooksAgain(p)
      PROVE  NewestInHand'
  BY <1>9, LooksAgainFacts
<1>10. ASSUME NEW p \in Processes, Saves(p)
      PROVE  NewestInHand'
  BY <1>10, SavesFacts
<1>11. ASSUME NEW p \in Processes, Fetches(p)
      PROVE  NewestInHand'
  BY <1>11, FetchesFacts
<1>12. ASSUME NEW p \in Processes, WritesLease(p)
      PROVE  NewestInHand'
  BY <1>12, WritesLeaseFacts
<1>13. ASSUME NEW p \in Processes, WritesRecord(p)
      PROVE  NewestInHand'
  BY <1>13, WritesRecordFacts
<1>14. ASSUME NEW p \in Processes, Marks(p)
      PROVE  NewestInHand'
  BY <1>14, MarksFacts
<1>15. ASSUME NEW p \in Processes, Clears(p)
      PROVE  NewestInHand'
  BY <1>15, ClearsFacts
<1>16. ASSUME NEW p \in Processes, Revokes(p)
      PROVE  NewestInHand'
  BY <1>16, RevokesFacts
<1>17. ASSUME NEW p \in Processes, Fails(p)
      PROVE  NewestInHand'
  BY <1>17, FailsFacts
<1>18. ASSUME NEW p \in Processes, CannotClear(p)
      PROVE  NewestInHand'
  BY <1>18, CannotClearFacts
<1>19. ASSUME NEW p \in Processes, Killed(p)
      PROVE  NewestInHand'
  BY <1>19, KilledFacts
<1>20. ASSUME NEW user \in Users, SignsIn(user)
      PROVE  NewestInHand'
  <2>1. UNCHANGED <<stored, unsaved>> /\ \A q \in Processes \ {Desktop} : Stays(q)
    BY <1>20, SignsInFacts
  <2>2. PICK g \in Grants : ~Used(g) /\ job'[Desktop].hand = Live(g)
    BY <1>20, SignsInFacts
  <2>3. \A h \in Grants : Used(h) => h < g
    BY <2>2, AccountAssumption DEF TokensOfGrants, Grants
  <2>4. \A t \in Token : (t.grant # 0 => Used(t.grant)) => t.grant < g
    BY <2>3, TokenFacts, AccountAssumption DEF Grants
  <2>5. /\ stored.grant < g
        /\ \A q \in Processes : unsaved[q].grant < g /\ job[q].hand.grant < g
    BY <2>4 DEF TokensOfGrants
  <2> QED
    BY <2>1, <2>2, <2>5, LiveFacts
<1>21. ASSUME RecordsUse
      PROVE  NewestInHand'
  BY <1>21, <1>0 DEF RecordsUse, tokens
<1>22. ASSUME TimePasses
      PROVE  NewestInHand'
  BY <1>22, TimeFacts
<1>23. ASSUME NEW for \in {"billing", "signout"}, Wants(for)
      PROVE  NewestInHand'
  BY <1>23, WantsFacts
<1>24. ASSUME NEW p \in Processes, Forgets(p)
      PROVE  NewestInHand'
  BY <1>24, ForgetsFacts
<1> HIDE DEF HandsKnown, NewestInHand, Moves, Over, OthersStay, Stays, UnsavedOnly, Unlocked
<1> QED
  BY <1>0, <1>1, <1>2, <1>3, <1>4, <1>5, <1>6, <1>7, <1>8, <1>9, <1>10, <1>11, <1>12,
     <1>13, <1>14, <1>15, <1>16, <1>17, <1>18, <1>19, <1>20, <1>21, <1>22, <1>23, <1>24 DEF Next, Steps

\* A rotation spends every copy of the old token before the new one is kept.
LEMMA OneLiveStep ==
  ASSUME TypeOK, HandsKnown, NewestInHand, OneLive, Next
  PROVE  OneLive'
<1> USE AccountAssumption, NoTokenFacts, JobFacts, TokenNat, Alone DEF HandsKnown, NewestInHand, OneLive, Moves, Over, OthersStay, Stays, UnsavedOnly, Unlocked
<1>0. UNCHANGED <<stored, unsaved, job>> => OneLive'
  OBVIOUS
<1>1. ASSUME NEW p \in Processes, NEW for \in {"denial", "routine", "user"}, Asks(p, for)
      PROVE  OneLive'
  BY <1>1, AsksFacts
<1>2. ASSUME NEW p \in Processes, Locks(p)
      PROVE  OneLive'
  BY <1>2, LocksFacts
<1>3. ASSUME NEW p \in Processes, LockBusy(p)
      PROVE  OneLive'
  BY <1>3, LockBusyFacts
<1>4. ASSUME NEW p \in Processes, Skips(p)
      PROVE  OneLive'
  BY <1>4, SkipsFacts
<1>5. ASSUME NEW p \in Processes, Starts(p)
      PROVE  OneLive'
  BY <1>5, StartsFacts
<1>6. ASSUME NEW p \in Processes, TakesToken(p)
      PROVE  OneLive'
  BY <1>6, TakesTokenFacts
<1>7. ASSUME NEW p \in Processes, Rotates(p)
      PROVE  OneLive'
  <2> DEFINE g == job[p].hand.grant
  <2>1. /\ job[p].hand = Live(g) /\ g \in Grants /\ (Moves(p, "save", job[p].hand) \/ Over(p))
        /\ stored' = Aged(stored, g) /\ \A q \in Processes : unsaved'[q] = Aged(unsaved[q], g)
        /\ job[p].pc = "ask"
    BY <1>7, RotatesFacts
  <2> HIDE DEF g
  <2>2. Live(g).live /\ Live(g).grant = g
    BY <2>1, LiveFacts
  <2>3. stored' # Live(g) /\ \A q \in Processes : unsaved'[q] # Live(g)
    BY <2>1, <2>2, AgedFacts
  <2>4. \A t \in Token, u \in Token : Aged(t, g).live /\ Aged(t, g) = Aged(u, g) => t.live /\ t = u
    BY <2>1, AgedFacts
  <2>5. \A q \in Processes : unsaved'[q].live => unsaved'[q] # stored'
    BY <2>1, <2>4
  <2>6. \A q, r \in Processes : q # r /\ unsaved'[q].live => unsaved'[q] # unsaved'[r]
    BY <2>1, <2>4
  <2>7. \A q, r \in Processes : job'[q].pc = "save" => job'[q].hand # stored' /\ job'[q].hand # unsaved'[r]
    BY <2>1, <2>3
  <2> QED
    BY <2>5, <2>6, <2>7
<1>8. ASSUME NEW p \in Processes, Refuses(p)
      PROVE  OneLive'
  <2>1. job[p].hand # NoToken
    BY <1>8 DEF Refuses, At
  <2> QED
    BY <1>8, <2>1, RefusesFacts
<1>9. ASSUME NEW p \in Processes, LooksAgain(p)
      PROVE  OneLive'
  BY <1>9, LooksAgainFacts
<1>10. ASSUME NEW p \in Processes, Saves(p)
      PROVE  OneLive'
  BY <1>10, SavesFacts
<1>11. ASSUME NEW p \in Processes, Fetches(p)
      PROVE  OneLive'
  BY <1>11, FetchesFacts
<1>12. ASSUME NEW p \in Processes, WritesLease(p)
      PROVE  OneLive'
  BY <1>12, WritesLeaseFacts
<1>13. ASSUME NEW p \in Processes, WritesRecord(p)
      PROVE  OneLive'
  BY <1>13, WritesRecordFacts
<1>14. ASSUME NEW p \in Processes, Marks(p)
      PROVE  OneLive'
  BY <1>14, MarksFacts
<1>15. ASSUME NEW p \in Processes, Clears(p)
      PROVE  OneLive'
  BY <1>15, ClearsFacts
<1>16. ASSUME NEW p \in Processes, Revokes(p)
      PROVE  OneLive'
  BY <1>16, RevokesFacts
<1>17. ASSUME NEW p \in Processes, Fails(p)
      PROVE  OneLive'
  BY <1>17, FailsFacts
<1>18. ASSUME NEW p \in Processes, CannotClear(p)
      PROVE  OneLive'
  BY <1>18, CannotClearFacts
<1>19. ASSUME NEW p \in Processes, Killed(p)
      PROVE  OneLive'
  BY <1>19, KilledFacts
<1>20. ASSUME NEW user \in Users, SignsIn(user)
      PROVE  OneLive'
  <2>1. /\ UNCHANGED <<stored, unsaved>> /\ OthersStay(Desktop)
        /\ job'[Desktop].pc = "wait"
    BY <1>20, SignsInFacts
  <2> QED
    BY <2>1
<1>21. ASSUME RecordsUse
      PROVE  OneLive'
  BY <1>21, <1>0 DEF RecordsUse, tokens
<1>22. ASSUME TimePasses
      PROVE  OneLive'
  BY <1>22, TimeFacts
<1>23. ASSUME NEW for \in {"billing", "signout"}, Wants(for)
      PROVE  OneLive'
  BY <1>23, WantsFacts
<1>24. ASSUME NEW p \in Processes, Forgets(p)
      PROVE  OneLive'
  BY <1>24, ForgetsFacts
<1> HIDE DEF HandsKnown, NewestInHand, OneLive, Moves, Over, OthersStay, Stays, UnsavedOnly, Unlocked
<1> QED
  BY <1>0, <1>1, <1>2, <1>3, <1>4, <1>5, <1>6, <1>7, <1>8, <1>9, <1>10, <1>11, <1>12,
     <1>13, <1>14, <1>15, <1>16, <1>17, <1>18, <1>19, <1>20, <1>21, <1>22, <1>23, <1>24 DEF Next, Steps

\* Only the process itself spends what the store refused it, and then it saves the next.
LEMMA SpentStep ==
  ASSUME TypeOK, HandsKnown, TokensOfGrants, OneLive, SpentKnown, Next
  PROVE  SpentKnown'
<1> USE AccountAssumption, NoTokenFacts, JobFacts, Alone DEF HandsKnown, SpentKnown, Moves, Over, OthersStay, Stays, UnsavedOnly, Unlocked
<1>0. UNCHANGED <<grants, stored, unsaved, job, lost>> => SpentKnown'
  OBVIOUS
<1>1. ASSUME NEW p \in Processes, NEW for \in {"denial", "routine", "user"}, Asks(p, for)
      PROVE  SpentKnown'
  BY <1>1, AsksFacts
<1>2. ASSUME NEW p \in Processes, Locks(p)
      PROVE  SpentKnown'
  BY <1>2, LocksFacts
<1>3. ASSUME NEW p \in Processes, LockBusy(p)
      PROVE  SpentKnown'
  BY <1>3, LockBusyFacts
<1>4. ASSUME NEW p \in Processes, Skips(p)
      PROVE  SpentKnown'
  BY <1>4, SkipsFacts
<1>5. ASSUME NEW p \in Processes, Starts(p)
      PROVE  SpentKnown'
  BY <1>5, StartsFacts
<1>6. ASSUME NEW p \in Processes, TakesToken(p)
      PROVE  SpentKnown'
  BY <1>6, TakesTokenFacts
<1>7. ASSUME NEW p \in Processes, Rotates(p)
      PROVE  SpentKnown'
  <2> DEFINE g == job[p].hand.grant
  <2>1. /\ job[p].hand = Live(g) /\ g \in Grants /\ job[p].pc = "ask" /\ UNCHANGED grants
        /\ \A q \in Processes : unsaved'[q] = Aged(unsaved[q], g)
        /\ \/ Moves(p, "save", job[p].hand) /\ UNCHANGED lost
           \/ Over(p) /\ lost' = lost \cup {g}
    BY <1>7, RotatesFacts
  <2> HIDE DEF g
  <2>2. \A q \in Processes \ {p} : job[q].pc \in Unlocked
    BY <2>1, Alone DEF Unlocked
  <2>3. \A q \in Processes \ {p} : unsaved[q] # Live(g)
    <3>1. job[p].hand \in {stored, unsaved[p]}
      BY <2>1
    <3> QED
      BY <2>1, <3>1, LiveFacts DEF OneLive
  <2>4. ASSUME NEW q \in Processes, unsaved'[q] # NoToken, ~unsaved'[q].live
        PROVE  \/ unsaved'[q].grant \in lost'
               \/ ~grants'[unsaved'[q].grant].alive
               \/ job'[q].pc = "save" /\ job'[q].hand = Live(unsaved'[q].grant)
    <3>1. unsaved[q] # NoToken /\ unsaved'[q].grant = unsaved[q].grant
      BY <2>1, <2>4, AgedFacts
    <3>2. CASE unsaved[q].live
      <4>1. unsaved[q].grant = g /\ unsaved[q] = Live(g)
        BY <2>1, <2>4, <3>2, AgedFacts, TokenFacts
      <4> QED
        BY <2>1, <2>3, <3>1, <4>1
    <3>3. CASE ~unsaved[q].live
      <4>1. unsaved[q].grant \in lost \/ ~grants[unsaved[q].grant].alive
        BY <2>1, <2>2, <3>1, <3>3
      <4> QED
        BY <2>1, <3>1, <4>1
    <3> QED
      BY <3>2, <3>3
  <2> QED
    BY <2>4
<1>8. ASSUME NEW p \in Processes, Refuses(p)
      PROVE  SpentKnown'
  <2>1. job[p].hand # NoToken
    BY <1>8 DEF Refuses, At
  <2>2. /\ job[p].pc = "ask" /\ Moves(p, "again", job[p].hand)
        /\ UNCHANGED <<stored, unsaved, lost>>
    BY <1>8, <2>1, RefusesFacts
  <2>3. \A h \in Grants : grants'[h].alive => grants[h].alive
    BY <1>8, <2>1, RefusesFacts
  <2>4. \A q \in Processes : unsaved[q] # NoToken => unsaved[q].grant \in Grants
    BY TokenFacts
  <2> QED
    BY <2>2, <2>3, <2>4
<1>9. ASSUME NEW p \in Processes, LooksAgain(p)
      PROVE  SpentKnown'
  BY <1>9, LooksAgainFacts
<1>10. ASSUME NEW p \in Processes, Saves(p)
      PROVE  SpentKnown'
  <2>1. CASE UnsavedOnly(p, NoToken)
    BY <1>10, <2>1, SavesFacts
  <2>2. CASE job[p].for # "signin" /\ UnsavedOnly(p, job[p].hand)
    BY <1>10, <2>2, SavesFacts
  <2>3. CASE UNCHANGED unsaved /\ Over(p) /\ lost' = lost \cup {job[p].hand.grant}
    <3>1. \A q \in Processes : unsaved[q] # NoToken => unsaved[q].grant \in Grants
      BY TokenFacts
    <3> QED
      BY <1>10, <2>3, <3>1, SavesFacts, LiveFacts
  <2> QED
    BY <1>10, <2>1, <2>2, <2>3, SavesFacts
<1>11. ASSUME NEW p \in Processes, Fetches(p)
      PROVE  SpentKnown'
  BY <1>11, FetchesFacts
<1>12. ASSUME NEW p \in Processes, WritesLease(p)
      PROVE  SpentKnown'
  BY <1>12, WritesLeaseFacts
<1>13. ASSUME NEW p \in Processes, WritesRecord(p)
      PROVE  SpentKnown'
  BY <1>13, WritesRecordFacts
<1>14. ASSUME NEW p \in Processes, Marks(p)
      PROVE  SpentKnown'
  BY <1>14, MarksFacts
<1>15. ASSUME NEW p \in Processes, Clears(p)
      PROVE  SpentKnown'
  BY <1>15, ClearsFacts
<1>16. ASSUME NEW p \in Processes, Revokes(p)
      PROVE  SpentKnown'
  <2>1. \A q \in Processes : unsaved[q] # NoToken => unsaved[q].grant \in Grants
    BY TokenFacts
  <2> QED
    BY <1>16, <2>1, RevokesFacts
<1>17. ASSUME NEW p \in Processes, Fails(p)
      PROVE  SpentKnown'
  BY <1>17, FailsFacts
<1>18. ASSUME NEW p \in Processes, CannotClear(p)
      PROVE  SpentKnown'
  BY <1>18, CannotClearFacts
<1>19. ASSUME NEW p \in Processes, Killed(p)
      PROVE  SpentKnown'
  BY <1>19, KilledFacts
<1>20. ASSUME NEW user \in Users, SignsIn(user)
      PROVE  SpentKnown'
  <2>1. /\ UNCHANGED <<stored, unsaved, lost>> /\ OthersStay(Desktop)
        /\ job[Desktop].pc = "idle" /\ job'[Desktop].pc = "wait"
    BY <1>20, SignsInFacts
  <2>2. PICK g \in Grants : ~Used(g) /\ \A h \in Grants \ {g} : grants'[h] = grants[h]
    BY <1>20, SignsInFacts
  <2>3. ASSUME NEW q \in Processes, unsaved[q] # NoToken
        PROVE  grants'[unsaved[q].grant] = grants[unsaved[q].grant]
    <3>1. unsaved[q].grant \in Grants /\ Used(unsaved[q].grant)
      BY <2>3, TokenFacts DEF TokensOfGrants
    <3> QED
      BY <2>2, <3>1
  <2> QED
    BY <2>1, <2>3
<1>21. ASSUME RecordsUse
      PROVE  SpentKnown'
  BY <1>21, <1>0 DEF RecordsUse, tokens
<1>22. ASSUME TimePasses
      PROVE  SpentKnown'
  BY <1>22, TimeFacts
<1>23. ASSUME NEW for \in {"billing", "signout"}, Wants(for)
      PROVE  SpentKnown'
  BY <1>23, WantsFacts
<1>24. ASSUME NEW p \in Processes, Forgets(p)
      PROVE  SpentKnown'
  BY <1>24, ForgetsFacts
<1> HIDE DEF HandsKnown, SpentKnown, Moves, Over, OthersStay, Stays, UnsavedOnly, Unlocked
<1> QED
  BY <1>0, <1>1, <1>2, <1>3, <1>4, <1>5, <1>6, <1>7, <1>8, <1>9, <1>10, <1>11, <1>12,
     <1>13, <1>14, <1>15, <1>16, <1>17, <1>18, <1>19, <1>20, <1>21, <1>22, <1>23, <1>24 DEF Next, Steps

\* The refused token is tried first, and the stored one only when its grant is dead.
LEMMA RefusedStep ==
  ASSUME TypeOK, HandsKnown, TokensOfGrants, RefusedFirst, Next
  PROVE  RefusedFirst'
<1> USE AccountAssumption, NoTokenFacts, JobFacts, Alone DEF HandsKnown, RefusedFirst, Moves, Over, OthersStay, Stays, UnsavedOnly, Unlocked
<1>0. UNCHANGED <<grants, stored, unsaved, job>> => RefusedFirst'
  OBVIOUS
<1>1. ASSUME NEW p \in Processes, NEW for \in {"denial", "routine", "user"}, Asks(p, for)
      PROVE  RefusedFirst'
  BY <1>1, AsksFacts
<1>2. ASSUME NEW p \in Processes, Locks(p)
      PROVE  RefusedFirst'
  BY <1>2, LocksFacts
<1>3. ASSUME NEW p \in Processes, LockBusy(p)
      PROVE  RefusedFirst'
  BY <1>3, LockBusyFacts
<1>4. ASSUME NEW p \in Processes, Skips(p)
      PROVE  RefusedFirst'
  BY <1>4, SkipsFacts
<1>5. ASSUME NEW p \in Processes, Starts(p)
      PROVE  RefusedFirst'
  BY <1>5, StartsFacts
<1>6. ASSUME NEW p \in Processes, TakesToken(p)
      PROVE  RefusedFirst'
  BY <1>6, TakesTokenFacts
<1>7. ASSUME NEW p \in Processes, Rotates(p)
      PROVE  RefusedFirst'
  <2> DEFINE g == job[p].hand.grant
  <2>1. /\ g \in Grants /\ job[p].pc = "ask" /\ UNCHANGED grants
        /\ \A q \in Processes : unsaved'[q] = Aged(unsaved[q], g)
        /\ Moves(p, "save", job[p].hand) \/ Over(p)
    BY <1>7, RotatesFacts
  <2>2. \A q \in Processes \ {p} : job[q].pc \in Unlocked
    BY <2>1, Alone DEF Unlocked
  <2> HIDE DEF g
  <2>3. \A q \in Processes : /\ unsaved'[q].grant = unsaved[q].grant
                             /\ unsaved'[q] # NoToken => unsaved[q] # NoToken
    BY <2>1, AgedFacts
  <2> QED
    BY <2>1, <2>2, <2>3
<1>8. ASSUME NEW p \in Processes, Refuses(p)
      PROVE  RefusedFirst'
  <2>1. job[p].hand # NoToken
    BY <1>8 DEF Refuses, At
  <2>2. /\ job[p].pc = "ask" /\ Moves(p, "again", job[p].hand)
        /\ ~grants'[job[p].hand.grant].alive
        /\ UNCHANGED <<stored, unsaved, lost>>
    BY <1>8, <2>1, RefusesFacts
  <2>3. \A h \in Grants : grants'[h].alive => grants[h].alive
    BY <1>8, <2>1, RefusesFacts
  <2>4. \A q \in Processes : unsaved[q] # NoToken => unsaved[q].grant \in Grants
    BY TokenFacts
  <2> QED
    BY <2>2, <2>3, <2>4
<1>9. ASSUME NEW p \in Processes, LooksAgain(p)
      PROVE  RefusedFirst'
  BY <1>9, LooksAgainFacts
<1>10. ASSUME NEW p \in Processes, Saves(p)
      PROVE  RefusedFirst'
  BY <1>10, SavesFacts
<1>11. ASSUME NEW p \in Processes, Fetches(p)
      PROVE  RefusedFirst'
  BY <1>11, FetchesFacts
<1>12. ASSUME NEW p \in Processes, WritesLease(p)
      PROVE  RefusedFirst'
  BY <1>12, WritesLeaseFacts
<1>13. ASSUME NEW p \in Processes, WritesRecord(p)
      PROVE  RefusedFirst'
  BY <1>13, WritesRecordFacts
<1>14. ASSUME NEW p \in Processes, Marks(p)
      PROVE  RefusedFirst'
  BY <1>14, MarksFacts
<1>15. ASSUME NEW p \in Processes, Clears(p)
      PROVE  RefusedFirst'
  BY <1>15, ClearsFacts
<1>16. ASSUME NEW p \in Processes, Revokes(p)
      PROVE  RefusedFirst'
  <2>1. \A q \in Processes : unsaved[q] # NoToken => unsaved[q].grant \in Grants
    BY TokenFacts
  <2> QED
    BY <1>16, <2>1, RevokesFacts
<1>17. ASSUME NEW p \in Processes, Fails(p)
      PROVE  RefusedFirst'
  BY <1>17, FailsFacts
<1>18. ASSUME NEW p \in Processes, CannotClear(p)
      PROVE  RefusedFirst'
  BY <1>18, CannotClearFacts
<1>19. ASSUME NEW p \in Processes, Killed(p)
      PROVE  RefusedFirst'
  BY <1>19, KilledFacts
<1>20. ASSUME NEW user \in Users, SignsIn(user)
      PROVE  RefusedFirst'
  <2>1. /\ UNCHANGED <<stored, unsaved, lost>> /\ OthersStay(Desktop)
        /\ job[Desktop].pc = "idle" /\ job'[Desktop].pc = "wait"
    BY <1>20, SignsInFacts
  <2>2. PICK g \in Grants : ~Used(g) /\ \A h \in Grants \ {g} : grants'[h] = grants[h]
    BY <1>20, SignsInFacts
  <2>3. ASSUME NEW q \in Processes, unsaved[q] # NoToken
        PROVE  grants'[unsaved[q].grant] = grants[unsaved[q].grant]
    <3>1. unsaved[q].grant \in Grants /\ Used(unsaved[q].grant)
      BY <2>3, TokenFacts DEF TokensOfGrants
    <3> QED
      BY <2>2, <3>1
  <2> QED
    BY <2>1, <2>3
<1>21. ASSUME RecordsUse
      PROVE  RefusedFirst'
  BY <1>21, <1>0 DEF RecordsUse, tokens
<1>22. ASSUME TimePasses
      PROVE  RefusedFirst'
  BY <1>22, TimeFacts
<1>23. ASSUME NEW for \in {"billing", "signout"}, Wants(for)
      PROVE  RefusedFirst'
  BY <1>23, WantsFacts
<1>24. ASSUME NEW p \in Processes, Forgets(p)
      PROVE  RefusedFirst'
  BY <1>24, ForgetsFacts
<1> HIDE DEF HandsKnown, RefusedFirst, Moves, Over, OthersStay, Stays, UnsavedOnly, Unlocked
<1> QED
  BY <1>0, <1>1, <1>2, <1>3, <1>4, <1>5, <1>6, <1>7, <1>8, <1>9, <1>10, <1>11, <1>12,
     <1>13, <1>14, <1>15, <1>16, <1>17, <1>18, <1>19, <1>20, <1>21, <1>22, <1>23, <1>24 DEF Next, Steps

\* No step drops the live token of the stored grant.
LEMMA KeptStep ==
  ASSUME TypeOK, HandsKnown, TokensOfGrants, SpentKnown, RefusedFirst, LiveTokenKept, Next
  PROVE  LiveTokenKept'
<1> USE AccountAssumption, NoTokenFacts, JobFacts, LiveFacts, TokenFacts, Alone DEF HandsKnown, LiveTokenKept, Moves, Over, OthersStay, Stays, UnsavedOnly, Unlocked
<1>0. UNCHANGED <<grants, stored, unsaved, job, lost>> => LiveTokenKept'
  OBVIOUS
<1>1. ASSUME NEW p \in Processes, NEW for \in {"denial", "routine", "user"}, Asks(p, for)
      PROVE  LiveTokenKept'
  BY <1>1, AsksFacts
<1>2. ASSUME NEW p \in Processes, Locks(p)
      PROVE  LiveTokenKept'
  BY <1>2, LocksFacts
<1>3. ASSUME NEW p \in Processes, LockBusy(p)
      PROVE  LiveTokenKept'
  <2>1. /\ UNCHANGED <<grants, stored, unsaved>> /\ Over(p)
        /\ lost' = lost \cup Dropped(p)
    BY <1>3, LockBusyFacts
  <2>2. ASSUME stored.grant # 0, grants[stored.grant].alive, stored.grant \notin lost'
        PROVE  \/ stored.live
               \/ \E q \in Processes : Live(stored.grant) \in {unsaved[q], job'[q].hand}
    <3>1. stored.grant \in Grants /\ stored.grant \notin lost
      BY <2>1, <2>2
    <3>2. CASE \E q \in Processes \ {p} : job[q].hand = Live(stored.grant)
      BY <2>1, <3>2
    <3>3. CASE job[p].hand = Live(stored.grant)
      <4>1. Live(stored.grant) \in {stored, unsaved[p]}
        BY <2>1, <2>2, <3>1, <3>3 DEF Dropped
      <4> QED
        BY <3>1, <4>1
    <3> QED
      BY <2>1, <2>2, <3>1, <3>2, <3>3
  <2> QED
    BY <2>1, <2>2
<1>4. ASSUME NEW p \in Processes, Skips(p)
      PROVE  LiveTokenKept'
  BY <1>4, SkipsFacts
<1>5. ASSUME NEW p \in Processes, Starts(p)
      PROVE  LiveTokenKept'
  BY <1>5, StartsFacts
<1>6. ASSUME NEW p \in Processes, TakesToken(p)
      PROVE  LiveTokenKept'
  <2>1. UNCHANGED <<grants, lost>> /\ OthersStay(p) /\ job[p].pc = "rotate"
    BY <1>6, TakesTokenFacts
  <2>2. CASE UNCHANGED <<stored, unsaved>>
    <3>1. job[p].hand = NoToken
      BY <2>1
    <3> QED
      BY <2>1, <2>2, <3>1
  <2>3. CASE unsaved[p] # NoToken /\ stored' = unsaved[p]
    <3>1. \/ unsaved[p].live \/ unsaved[p].grant \in lost
          \/ ~grants[unsaved[p].grant].alive
      BY <2>1, <2>3 DEF SpentKnown
    <3> QED
      BY <2>1, <2>3, <3>1
  <2> QED
    BY <1>6, <2>2, <2>3, TakesTokenFacts
<1>7. ASSUME NEW p \in Processes, Rotates(p)
      PROVE  LiveTokenKept'
  <2> DEFINE g == job[p].hand.grant
  <2>1. /\ job[p].hand = Live(g) /\ g \in Grants /\ UNCHANGED grants
        /\ stored' = Aged(stored, g) /\ \A q \in Processes : unsaved'[q] = Aged(unsaved[q], g)
        /\ \/ Moves(p, "save", job[p].hand) /\ UNCHANGED lost
           \/ Over(p) /\ lost' = lost \cup {g}
    BY <1>7, RotatesFacts
  <2> HIDE DEF g
  <2>2. stored'.grant = stored.grant /\ lost \subseteq lost'
    BY <2>1, AgedFacts
  <2>3. CASE stored.grant = g
    <3>1. job'[p].hand = Live(stored.grant) \/ stored.grant \in lost'
      BY <2>1, <2>3
    <3> QED
      BY <2>2, <3>1
  <2>4. CASE stored.grant # g
    <3>1. stored' = stored
      BY <2>1, <2>4, AgedFacts
    <3>2. ASSUME NEW q \in Processes, stored.grant # 0, unsaved[q] = Live(stored.grant)
          PROVE  unsaved'[q] = Live(stored.grant)
      <4>1. unsaved[q].grant # g /\ unsaved[q] \in Token
        BY <2>4, <3>2
      <4>2. unsaved'[q] = Aged(unsaved[q], g)
        BY <2>1
      <4>3. Aged(unsaved[q], g) = unsaved[q]
        BY <2>1, <4>1, AgedFacts
      <4> QED
        BY <3>2, <4>2, <4>3
    <3>3. stored.grant # 0 => job[p].hand # Live(stored.grant)
      BY <2>1, <2>4
    <3> QED
      BY <2>1, <2>2, <3>1, <3>2, <3>3
  <2> QED
    BY <2>3, <2>4
<1>8. ASSUME NEW p \in Processes, Refuses(p)
      PROVE  LiveTokenKept'
  <2>1. job[p].hand # NoToken
    BY <1>8 DEF Refuses, At
  <2>2. Moves(p, "again", job[p].hand) /\ UNCHANGED <<stored, unsaved, lost>>
    BY <1>8, <2>1, RefusesFacts
  <2>3. \A h \in Grants : grants'[h].alive => grants[h].alive
    BY <1>8, <2>1, RefusesFacts
  <2> QED
    BY <2>2, <2>3
<1>9. ASSUME NEW p \in Processes, LooksAgain(p)
      PROVE  LiveTokenKept'
  <2>1. /\ UNCHANGED <<grants, stored, lost>> /\ OthersStay(p) /\ job[p].pc = "again"
        /\ \A q \in Processes \ {p} : unsaved'[q] = unsaved[q]
        /\ unsaved'[p] \in {unsaved[p], NoToken}
    BY <1>9, LooksAgainFacts
  <2>2. ~grants[job[p].hand.grant].alive
    BY <2>1
  <2>3. unsaved[p] # NoToken => ~grants[unsaved[p].grant].alive
    BY <2>1 DEF RefusedFirst
  <2>4. UNCHANGED unsaved \/ unsaved'[p] = NoToken
    BY <1>9, LooksAgainFacts
  <2>5. ASSUME stored.grant # 0, grants[stored.grant].alive, stored.grant \notin lost,
               ~stored.live
        PROVE  \E q \in Processes : Live(stored.grant) \in {unsaved'[q], job'[q].hand}
    <3>1. PICK q \in Processes : Live(stored.grant) \in {unsaved[q], job[q].hand}
      BY <2>5
    <3>2. stored.grant \in Grants
      BY <2>5
    <3>3. job[p].hand # Live(stored.grant) /\ unsaved[p] # Live(stored.grant)
      BY <2>2, <2>3, <2>5, <3>2
    <3> QED
      BY <2>1, <3>1, <3>3
  <2> QED
    BY <2>1, <2>5
<1>10. ASSUME NEW p \in Processes, Saves(p)
      PROVE  LiveTokenKept'
  <2>1. job[p].hand.live /\ job[p].pc = "save" /\ UNCHANGED grants
    BY <1>10, SavesFacts
  <2>2. CASE stored' = job[p].hand
    BY <2>1, <2>2
  <2>3. CASE UNCHANGED <<stored, unsaved>> /\ Over(p) /\ lost' = lost \cup {job[p].hand.grant}
    BY <2>1, <2>3
  <2>4. CASE /\ UNCHANGED <<stored, lost>> /\ Over(p) /\ UnsavedOnly(p, job[p].hand)
             /\ job[p].for # "signin"
    <3>1. unsaved[p] # NoToken =>
            unsaved[p].grant = job[p].hand.grant \/ ~grants[unsaved[p].grant].alive
      BY <2>1, <2>4 DEF RefusedFirst
    <3>2. ASSUME stored.grant # 0, grants[stored.grant].alive, stored.grant \notin lost,
                 ~stored.live
          PROVE  \E q \in Processes : Live(stored.grant) \in {unsaved'[q], job'[q].hand}
      <4>1. stored.grant \in Grants
        BY <3>2
      <4>2. PICK q \in Processes : Live(stored.grant) \in {unsaved[q], job[q].hand}
        BY <3>2
      <4>3. CASE q # p
        BY <2>4, <4>2, <4>3
      <4>4. CASE q = p /\ Live(stored.grant) = job[p].hand
        BY <2>4, <4>4
      <4>5. CASE q = p /\ Live(stored.grant) = unsaved[p]
        <5>1. job[p].hand.grant = stored.grant
          BY <3>1, <3>2, <4>1, <4>5
        <5>2. job[p].hand = Live(stored.grant)
          BY <2>1, <5>1
        <5> QED
          BY <2>4, <5>2
      <4> QED
        BY <4>2, <4>3, <4>4, <4>5
    <3> QED
      BY <2>1, <2>4, <3>2
  <2> QED
    BY <1>10, <2>2, <2>3, <2>4, SavesFacts
<1>11. ASSUME NEW p \in Processes, Fetches(p)
      PROVE  LiveTokenKept'
  BY <1>11, FetchesFacts
<1>12. ASSUME NEW p \in Processes, WritesLease(p)
      PROVE  LiveTokenKept'
  BY <1>12, WritesLeaseFacts
<1>13. ASSUME NEW p \in Processes, WritesRecord(p)
      PROVE  LiveTokenKept'
  BY <1>13, WritesRecordFacts
<1>14. ASSUME NEW p \in Processes, Marks(p)
      PROVE  LiveTokenKept'
  BY <1>14, MarksFacts
<1>15. ASSUME NEW p \in Processes, Clears(p)
      PROVE  LiveTokenKept'
  BY <1>15, ClearsFacts
<1>16. ASSUME NEW p \in Processes, Revokes(p)
      PROVE  LiveTokenKept'
  BY <1>16, RevokesFacts
<1>17. ASSUME NEW p \in Processes, Fails(p)
      PROVE  LiveTokenKept'
  <2>1. /\ UNCHANGED <<grants, stored, unsaved>> /\ Over(p)
        /\ lost' = lost \cup Dropped(p)
    BY <1>17, FailsFacts
  <2>2. ASSUME stored.grant # 0, grants[stored.grant].alive, stored.grant \notin lost'
        PROVE  \/ stored.live
               \/ \E q \in Processes : Live(stored.grant) \in {unsaved[q], job'[q].hand}
    <3>1. stored.grant \in Grants /\ stored.grant \notin lost
      BY <2>1, <2>2
    <3>2. CASE \E q \in Processes \ {p} : job[q].hand = Live(stored.grant)
      BY <2>1, <3>2
    <3>3. CASE job[p].hand = Live(stored.grant)
      <4>1. Live(stored.grant) \in {stored, unsaved[p]}
        BY <2>1, <2>2, <3>1, <3>3 DEF Dropped
      <4> QED
        BY <3>1, <4>1
    <3> QED
      BY <2>1, <2>2, <3>1, <3>2, <3>3
  <2> QED
    BY <2>1, <2>2
<1>18. ASSUME NEW p \in Processes, CannotClear(p)
      PROVE  LiveTokenKept'
  BY <1>18, CannotClearFacts
<1>19. ASSUME NEW p \in Processes, Killed(p)
      PROVE  LiveTokenKept'
  BY <1>19, KilledFacts
<1>20. ASSUME NEW user \in Users, SignsIn(user)
      PROVE  LiveTokenKept'
  <2>1. /\ UNCHANGED <<stored, unsaved, lost>> /\ OthersStay(Desktop)
        /\ job[Desktop].pc = "idle"
    BY <1>20, SignsInFacts
  <2>2. PICK g \in Grants : ~Used(g) /\ \A h \in Grants \ {g} : grants'[h] = grants[h]
    BY <1>20, SignsInFacts
  <2>3. stored.grant # 0 => stored.grant \in Grants /\ stored.grant # g
    BY <2>2 DEF TokensOfGrants
  <2>4. job[Desktop].hand = NoToken
    BY <2>1
  <2> QED
    BY <2>1, <2>2, <2>3, <2>4
<1>21. ASSUME RecordsUse
      PROVE  LiveTokenKept'
  BY <1>21, <1>0 DEF RecordsUse, tokens
<1>22. ASSUME TimePasses
      PROVE  LiveTokenKept'
  BY <1>22, TimeFacts
<1>23. ASSUME NEW for \in {"billing", "signout"}, Wants(for)
      PROVE  LiveTokenKept'
  BY <1>23, WantsFacts
<1>24. ASSUME NEW p \in Processes, Forgets(p)
      PROVE  LiveTokenKept'
  BY <1>24, ForgetsFacts
<1> HIDE DEF HandsKnown, LiveTokenKept, Moves, Over, OthersStay, Stays, UnsavedOnly, Unlocked
<1> QED
  BY <1>0, <1>1, <1>2, <1>3, <1>4, <1>5, <1>6, <1>7, <1>8, <1>9, <1>10, <1>11, <1>12,
     <1>13, <1>14, <1>15, <1>16, <1>17, <1>18, <1>19, <1>20, <1>21, <1>22, <1>23, <1>24 DEF Next, Steps

\* While a sign-out revokes without the lock, nobody can start: no marker names anybody.
LEMMA SignOutStep ==
  ASSUME TypeOK, HandsKnown, SignOutAlone, Next
  PROVE  SignOutAlone'
<1> USE AccountAssumption, Alone DEF HandsKnown, SignOutAlone, Moves, Over, OthersStay, Stays, Unlocked
<1>0. UNCHANGED <<marker, job>> => SignOutAlone'
  OBVIOUS
<1>1. ASSUME NEW p \in Processes, NEW for \in {"denial", "routine", "user"}, Asks(p, for)
      PROVE  SignOutAlone'
  <2>1. UNCHANGED marker
    BY <1>1 DEF Asks, files
  <2> QED
    BY <1>1, <2>1, AsksFacts
<1>2. ASSUME NEW p \in Processes, Locks(p)
      PROVE  SignOutAlone'
  <2>1. UNCHANGED marker
    BY <1>2 DEF Locks, files
  <2> QED
    BY <1>2, <2>1, LocksFacts
<1>3. ASSUME NEW p \in Processes, LockBusy(p)
      PROVE  SignOutAlone'
  <2>1. UNCHANGED marker
    BY <1>3 DEF LockBusy, files
  <2> QED
    BY <1>3, <2>1, LockBusyFacts
<1>4. ASSUME NEW p \in Processes, Skips(p)
      PROVE  SignOutAlone'
  <2>1. UNCHANGED marker
    BY <1>4 DEF Skips, files
  <2> QED
    BY <1>4, <2>1, SkipsFacts
<1>5. ASSUME NEW p \in Processes, Starts(p)
      PROVE  SignOutAlone'
  <2>1. \A q \in Processes : job[q].pc # "signedout"
    BY <1>5 DEF Starts
  <2>2. UNCHANGED marker /\ job[p].pc = "locked"
    BY <1>5, StartsFacts DEF Starts
  <2>3. /\ job'[p].pc = "rotate" /\ OthersStay(p)
        /\ job'[p].for \in {"refresh", job[p].for}
    BY <1>5, StartsFacts
  <2> QED
    BY <2>1, <2>2, <2>3
<1>6. ASSUME NEW p \in Processes, TakesToken(p)
      PROVE  SignOutAlone'
  <2>1. UNCHANGED marker
    BY <1>6 DEF TakesToken, files
  <2> QED
    BY <1>6, <2>1, TakesTokenFacts
<1>7. ASSUME NEW p \in Processes, Rotates(p)
      PROVE  SignOutAlone'
  <2>1. UNCHANGED marker
    BY <1>7 DEF Rotates, files
  <2> QED
    BY <1>7, <2>1, RotatesFacts
<1>8. ASSUME NEW p \in Processes, Refuses(p)
      PROVE  SignOutAlone'
  <2>1. job[p].hand # NoToken
    BY <1>8 DEF Refuses, At
  <2>2. UNCHANGED marker
    BY <1>8 DEF Refuses, files
  <2>3. job[p].pc = "ask" /\ Moves(p, "again", job[p].hand)
    BY <1>8, <2>1, RefusesFacts
  <2> QED
    BY <2>2, <2>3
<1>9. ASSUME NEW p \in Processes, LooksAgain(p)
      PROVE  SignOutAlone'
  <2>1. UNCHANGED marker
    BY <1>9 DEF LooksAgain, files
  <2> QED
    BY <1>9, <2>1, LooksAgainFacts
<1>10. ASSUME NEW p \in Processes, Saves(p)
      PROVE  SignOutAlone'
  <2>1. UNCHANGED marker
    BY <1>10 DEF Saves, files
  <2> QED
    BY <1>10, <2>1, SavesFacts
<1>11. ASSUME NEW p \in Processes, Fetches(p)
      PROVE  SignOutAlone'
  <2>1. UNCHANGED marker
    BY <1>11 DEF Fetches, files
  <2> QED
    BY <1>11, <2>1, FetchesFacts
<1>12. ASSUME NEW p \in Processes, WritesLease(p)
      PROVE  SignOutAlone'
  <2>1. UNCHANGED marker
    BY <1>12 DEF WritesLease
  <2> QED
    BY <1>12, <2>1, WritesLeaseFacts
<1>13. ASSUME NEW p \in Processes, WritesRecord(p)
      PROVE  SignOutAlone'
  <2>1. UNCHANGED marker
    BY <1>13 DEF WritesRecord
  <2> QED
    BY <1>13, <2>1, WritesRecordFacts
<1>14. ASSUME NEW p \in Processes, Marks(p)
      PROVE  SignOutAlone'
  BY <1>14, MarksFacts DEF Marks, At
<1>15. ASSUME NEW p \in Processes, Clears(p)
      PROVE  SignOutAlone'
  BY <1>15, ClearsFacts
<1>16. ASSUME NEW p \in Processes, Revokes(p)
      PROVE  SignOutAlone'
  <2>1. UNCHANGED marker
    BY <1>16 DEF Revokes, files
  <2> QED
    BY <1>16, <2>1, RevokesFacts
<1>17. ASSUME NEW p \in Processes, Fails(p)
      PROVE  SignOutAlone'
  <2>1. UNCHANGED marker
    BY <1>17 DEF Fails, files
  <2> QED
    BY <1>17, <2>1, FailsFacts
<1>18. ASSUME NEW p \in Processes, CannotClear(p)
      PROVE  SignOutAlone'
  <2>1. UNCHANGED marker
    BY <1>18 DEF CannotClear, files
  <2> QED
    BY <1>18, <2>1, CannotClearFacts
<1>19. ASSUME NEW p \in Processes, Killed(p)
      PROVE  SignOutAlone'
  <2>1. UNCHANGED marker
    BY <1>19 DEF Killed, files
  <2> QED
    BY <1>19, <2>1, KilledFacts
<1>20. ASSUME NEW user \in Users, SignsIn(user)
      PROVE  SignOutAlone'
  <2>1. UNCHANGED marker
    BY <1>20 DEF SignsIn, files
  <2>2. /\ job[Desktop].pc = "idle" /\ OthersStay(Desktop)
        /\ job'[Desktop].pc = "wait" /\ job'[Desktop].for = "signin"
    BY <1>20, SignsInFacts
  <2> QED
    BY <2>1, <2>2
<1>21. ASSUME RecordsUse
      PROVE  SignOutAlone'
  BY <1>21, <1>0 DEF RecordsUse
<1>22. ASSUME TimePasses
      PROVE  SignOutAlone'
  BY <1>22, TimeFacts
<1>23. ASSUME NEW for \in {"billing", "signout"}, Wants(for)
      PROVE  SignOutAlone'
  <2>1. UNCHANGED marker
    BY <1>23 DEF Wants, files
  <2> QED
    BY <1>23, <2>1, WantsFacts
<1>24. ASSUME NEW p \in Processes, Forgets(p)
      PROVE  SignOutAlone'
  BY <1>24, ForgetsFacts
<1> HIDE DEF HandsKnown, SignOutAlone, Moves, Over, OthersStay, Stays, Unlocked
<1> QED
  BY <1>0, <1>1, <1>2, <1>3, <1>4, <1>5, <1>6, <1>7, <1>8, <1>9, <1>10, <1>11, <1>12,
     <1>13, <1>14, <1>15, <1>16, <1>17, <1>18, <1>19, <1>20, <1>21, <1>22, <1>23, <1>24 DEF Next, Steps

----------------------------------------------------------------------------
(* The theorems *)

\* No grant is used at first, so every part holds.
LEMMA InitIInv ==
  ASSUME Init PROVE IInv
<1> USE AccountAssumption, NoTokenFacts DEF Init
<1>1. TypeOK
  BY DEF TypeOK, NoGrant, NoLease, NoRecord, Age, LongAgo, LongSince, Idle, Jobs, Grants, Unlocked
<1>2. \A g \in Grants : ~Used(g) /\ ~grants[g].alive
  BY DEF Used, NoGrant
<1>3. \A p \in Processes : job[p].pc = "idle" /\ job[p].for = "none" /\ job[p].hand = NoToken
                           /\ unsaved[p] = NoToken
  BY DEF Idle
<1>4. /\ TokensOfGrants /\ HandsKnown /\ NewestInHand /\ OneLive /\ SpentKnown /\ RefusedFirst
      /\ SignOutAlone
  BY <1>2, <1>3 DEF TokensOfGrants, HandsKnown, NewestInHand, OneLive, SpentKnown,
     RefusedFirst, SignOutAlone
<1>5. LiveTokenKept
  BY DEF LiveTokenKept
<1> QED
  BY <1>1, <1>4, <1>5 DEF IInv

\* Every step keeps every part.
LEMMA StepIInv ==
  ASSUME IInv, [Next]_vars
  PROVE  IInv'
<1>1. CASE Next
  BY <1>1, TypeStep, TokensStep, HandsStep, NewestStep, OneLiveStep, SpentStep, RefusedStep,
     SignOutStep, KeptStep DEF IInv
<1>2. CASE UNCHANGED vars
  BY <1>2 DEF vars, IInv, TypeOK, TokensOfGrants, HandsKnown, NewestInHand, OneLive,
     SpentKnown, RefusedFirst, SignOutAlone, LiveTokenKept, Used
<1> QED
  BY <1>1, <1>2

\* The parts of IInv hold of every reachable state.
LEMMA Invariant == Spec => []IInv
BY InitIInv, StepIInv, PTL DEF Spec

\* The way back to the server is not lost: whichever process refreshes, fails
\* to store, stops, signs in or signs out, the live token of the stored grant
\* is in the store or in a process's memory, or was lost with a stop or an answer.
THEOREM LiveTokenIsKept == Spec => []TokenInv
<1>1. IInv => TokenInv
  BY DEF IInv, TokenInv
<1> QED
  BY <1>1, Invariant, PTL

\* Only a refusal takes a job from "ask" to "again", and only a recorded start
\* takes one from "locked" to the network.
LEMMA WhoMoves ==
  ASSUME TypeOK, HandsKnown, Next, NEW a \in Processes
  PROVE  /\ job[a].pc = "ask" /\ job'[a].pc = "again" => Refuses(a)
         /\ job[a].pc = "locked" /\ job'[a].pc = "rotate" => Starts(a)
<1> USE AccountAssumption DEF Moves, Over, OthersStay, Stays
<1> DEFINE Goal == /\ job[a].pc = "ask" /\ job'[a].pc = "again" => Refuses(a)
                   /\ job[a].pc = "locked" /\ job'[a].pc = "rotate" => Starts(a)
<1>1. ASSUME NEW p \in Processes, NEW for \in {"denial", "routine", "user"}, Asks(p, for)
      PROVE  Goal
  BY <1>1, AsksFacts
<1>2. ASSUME NEW p \in Processes, Locks(p)
      PROVE  Goal
  BY <1>2, LocksFacts
<1>3. ASSUME NEW p \in Processes, LockBusy(p)
      PROVE  Goal
  BY <1>3, LockBusyFacts
<1>4. ASSUME NEW p \in Processes, Skips(p)
      PROVE  Goal
  BY <1>4, SkipsFacts
<1>5. ASSUME NEW p \in Processes, Starts(p)
      PROVE  Goal
  BY <1>5, StartsFacts
<1>6. ASSUME NEW p \in Processes, TakesToken(p)
      PROVE  Goal
  BY <1>6, TakesTokenFacts
<1>7. ASSUME NEW p \in Processes, Rotates(p)
      PROVE  Goal
  BY <1>7, RotatesFacts
<1>8. ASSUME NEW p \in Processes, Refuses(p)
      PROVE  Goal
  <2>1. job[p].hand # NoToken
    BY <1>8 DEF Refuses, At, HandsKnown
  <2>2. Moves(p, "again", job[p].hand) /\ job[p].pc = "ask"
    BY <1>8, <2>1, RefusesFacts
  <2> QED
    BY <1>8, <2>2
<1>9. ASSUME NEW p \in Processes, LooksAgain(p)
      PROVE  Goal
  BY <1>9, LooksAgainFacts
<1>10. ASSUME NEW p \in Processes, Saves(p)
      PROVE  Goal
  BY <1>10, SavesFacts
<1>11. ASSUME NEW p \in Processes, Fetches(p)
      PROVE  Goal
  BY <1>11, FetchesFacts
<1>12. ASSUME NEW p \in Processes, WritesLease(p)
      PROVE  Goal
  BY <1>12, WritesLeaseFacts
<1>13. ASSUME NEW p \in Processes, WritesRecord(p)
      PROVE  Goal
  BY <1>13, WritesRecordFacts
<1>14. ASSUME NEW p \in Processes, Marks(p)
      PROVE  Goal
  BY <1>14, MarksFacts
<1>15. ASSUME NEW p \in Processes, Clears(p)
      PROVE  Goal
  BY <1>15, ClearsFacts
<1>16. ASSUME NEW p \in Processes, Revokes(p)
      PROVE  Goal
  BY <1>16, RevokesFacts
<1>17. ASSUME NEW p \in Processes, Fails(p)
      PROVE  Goal
  BY <1>17, FailsFacts
<1>18. ASSUME NEW p \in Processes, CannotClear(p)
      PROVE  Goal
  BY <1>18, CannotClearFacts
<1>19. ASSUME NEW p \in Processes, Killed(p)
      PROVE  Goal
  BY <1>19, KilledFacts
<1>20. ASSUME NEW user \in Users, SignsIn(user)
      PROVE  Goal
  BY <1>20, SignsInFacts
<1>21. ASSUME RecordsUse
      PROVE  Goal
  BY <1>21 DEF RecordsUse
<1>22. ASSUME TimePasses
      PROVE  Goal
  BY <1>22, TimeFacts
<1>23. ASSUME NEW for \in {"billing", "signout"}, Wants(for)
      PROVE  Goal
  BY <1>23, WantsFacts
<1>24. ASSUME NEW p \in Processes, Forgets(p)
      PROVE  Goal
  BY <1>24, ForgetsFacts
<1> HIDE DEF Goal
<1>25. Goal
  BY <1>1, <1>2, <1>3, <1>4, <1>5, <1>6, <1>7, <1>8, <1>9, <1>10, <1>11, <1>12, <1>13,
     <1>14, <1>15, <1>16, <1>17, <1>18, <1>19, <1>20, <1>21, <1>22, <1>23, <1>24 DEF Next, Steps
<1> QED
  BY <1>25 DEF Goal

\* A grant is ended by showing a spent token only if its live one was lost, or
\* is with another process that could not store it.
THEOREM SpentOnlyWhenLost == Spec => ReplayNeedsLoss
<1> DEFINE Step ==
      \A p \in Processes :
        At(p, "ask") /\ job'[p].pc = "again" /\ grants[job[p].hand.grant].alive =>
          \/ job[p].hand.grant \in lost
          \/ \E q \in Processes \ {p} : unsaved[q] = Live(job[p].hand.grant)
<1>1. ASSUME IInv, [Next]_vars PROVE [Step]_vars
  <2> SUFFICES ASSUME Next, NEW p \in Processes, job[p].pc = "ask", job'[p].pc = "again",
                      grants[job[p].hand.grant].alive
               PROVE  \/ job[p].hand.grant \in lost
                      \/ \E q \in Processes \ {p} : unsaved[q] = Live(job[p].hand.grant)
    BY <1>1 DEF At
  <2> DEFINE g == job[p].hand.grant
  <2>1. /\ TypeOK /\ TokensOfGrants /\ HandsKnown /\ NewestInHand /\ SpentKnown /\ RefusedFirst
        /\ SignOutAlone /\ LiveTokenKept
    BY <1>1 DEF IInv
  <2>2. Refuses(p)
    BY <2>1, WhoMoves
  <2>3. job[p].hand # NoToken /\ job[p].hand \in {stored, unsaved[p]}
    BY <2>1 DEF HandsKnown
  <2>4. ~job[p].hand.live /\ g \in Grants
    BY <2>1, <2>2, <2>3, JobFacts, TokenFacts DEF Refuses
  <2>5. CASE job[p].hand = unsaved[p]
    BY <2>1, <2>3, <2>4, <2>5 DEF SpentKnown
  <2>6. CASE job[p].hand = stored /\ g \notin lost
    <3>1. PICK q \in Processes : Live(g) \in {unsaved[q], job[q].hand}
      BY <2>1, <2>4, <2>6, AccountAssumption DEF LiveTokenKept, Grants
    <3>2. job[q].hand # Live(g)
      <4>1. CASE q = p
        BY <2>4, <4>1, LiveFacts
      <4>2. CASE q # p
        <5>1. job[q].pc \in {"idle", "wait"}
          BY <2>1, <4>2, Alone DEF SignOutAlone, Unlocked
        <5>2. CASE job[q].for = "signin" /\ job[q].pc = "wait"
          BY <2>1, <2>4, <2>6, <5>2, TokenNat, LiveFacts DEF NewestInHand
        <5>3. CASE ~(job[q].for = "signin" /\ job[q].pc = "wait")
          BY <2>1, <2>4, <5>1, <5>3, LiveFacts DEF HandsKnown
        <5> QED
          BY <5>2, <5>3
      <4> QED
        BY <4>1, <4>2
    <3>3. q # p
      <4>1. unsaved[p] # NoToken => unsaved[p] = job[p].hand \/ ~grants[unsaved[p].grant].alive
        BY <2>1 DEF RefusedFirst
      <4> QED
        BY <2>4, <3>1, <3>2, <4>1, LiveFacts
    <3> QED
      BY <3>1, <3>2, <3>3
  <2> QED
    BY <2>3, <2>5, <2>6
<1> QED
  BY <1>1, Invariant, PTL DEF Spec, ReplayNeedsLoss

\* The record is of the last call, as old as its clock reading then was, or that
\* is long ago.
CalledBefore ==
  called <= record.attempt /\ (called = LongSince \/ record.attempt <= called + MaxWait)

\* The attempt is recorded before the call, and the two age together.
LEMMA CalledStep ==
  ASSUME TypeOK, HandsKnown, CalledBefore, Next
  PROVE  CalledBefore'
<1> USE AccountAssumption DEF CalledBefore, TypeOK
<1>0. UNCHANGED <<record, called>> => CalledBefore'
  OBVIOUS
<1>1. ASSUME NEW p \in Processes, NEW for \in {"denial", "routine", "user"}, Asks(p, for)
      PROVE  CalledBefore'
  BY <1>1, <1>0, AsksFacts
<1>2. ASSUME NEW p \in Processes, Locks(p)
      PROVE  CalledBefore'
  BY <1>2, <1>0, LocksFacts
<1>3. ASSUME NEW p \in Processes, LockBusy(p)
      PROVE  CalledBefore'
  BY <1>3, <1>0, LockBusyFacts
<1>4. ASSUME NEW p \in Processes, Skips(p)
      PROVE  CalledBefore'
  BY <1>4, <1>0, SkipsFacts
<1>5. ASSUME NEW p \in Processes, Starts(p)
      PROVE  CalledBefore'
  <2>1. job[p].asked \in 0..MaxWait /\ record.attempt \in Nat
    BY DEF Jobs, Age, LongAgo
  <2>2. CASE Refreshing(p)
    <3>1. record'.attempt = Younger(record.attempt, job[p].asked) /\ called' = 0
      BY <1>5, <2>2 DEF Starts
    <3> QED
      BY <2>1, <3>1 DEF Younger
  <2>3. CASE ~Refreshing(p)
    BY <1>5, <2>3, <1>0 DEF Starts
  <2> QED
    BY <2>2, <2>3
<1>6. ASSUME NEW p \in Processes, TakesToken(p)
      PROVE  CalledBefore'
  BY <1>6, <1>0, TakesTokenFacts
<1>7. ASSUME NEW p \in Processes, Rotates(p)
      PROVE  CalledBefore'
  BY <1>7, <1>0, RotatesFacts
<1>8. ASSUME NEW p \in Processes, Refuses(p)
      PROVE  CalledBefore'
  BY <1>8, <1>0 DEF Refuses, files
<1>9. ASSUME NEW p \in Processes, LooksAgain(p)
      PROVE  CalledBefore'
  BY <1>9, <1>0, LooksAgainFacts
<1>10. ASSUME NEW p \in Processes, Saves(p)
      PROVE  CalledBefore'
  BY <1>10, <1>0, SavesFacts
<1>11. ASSUME NEW p \in Processes, Fetches(p)
      PROVE  CalledBefore'
  BY <1>11, <1>0, FetchesFacts
<1>12. ASSUME NEW p \in Processes, WritesLease(p)
      PROVE  CalledBefore'
  BY <1>12, <1>0, WritesLeaseFacts
<1>13. ASSUME NEW p \in Processes, WritesRecord(p)
      PROVE  CalledBefore'
  BY <1>13 DEF WritesRecord
<1>14. ASSUME NEW p \in Processes, Marks(p)
      PROVE  CalledBefore'
  BY <1>14 DEF Marks, NoRecord, LongAgo, LongSince
<1>15. ASSUME NEW p \in Processes, Clears(p)
      PROVE  CalledBefore'
  BY <1>15 DEF Clears, NoRecord, LongAgo, LongSince, files
<1>16. ASSUME NEW p \in Processes, Revokes(p)
      PROVE  CalledBefore'
  BY <1>16, <1>0, RevokesFacts
<1>17. ASSUME NEW p \in Processes, Fails(p)
      PROVE  CalledBefore'
  BY <1>17, <1>0, FailsFacts
<1>18. ASSUME NEW p \in Processes, CannotClear(p)
      PROVE  CalledBefore'
  BY <1>18, <1>0, CannotClearFacts
<1>19. ASSUME NEW p \in Processes, Killed(p)
      PROVE  CalledBefore'
  BY <1>19, <1>0, KilledFacts
<1>20. ASSUME NEW user \in Users, SignsIn(user)
      PROVE  CalledBefore'
  BY <1>20, <1>0, SignsInFacts
<1>21. ASSUME RecordsUse
      PROVE  CalledBefore'
  BY <1>21 DEF RecordsUse, Older, Age
<1>22. ASSUME TimePasses
      PROVE  CalledBefore'
  <2>1. /\ record.attempt \in 0..LongAgo /\ called \in 0..LongSince
        /\ LongSince \in Nat /\ LongAgo = LongSince + 2 * MaxWait
    BY DEF Age, LongAgo, LongSince
  <2>2. CASE record'.attempt = Older(record.attempt, LongAgo) /\ called' = Older(called, LongSince)
    BY <2>1, <2>2 DEF Older
  <2>3. CASE record'.attempt = LongAgo /\ called' = LongSince
    BY <2>1, <2>3
  <2> QED
    BY <1>22, <2>2, <2>3 DEF TimePasses
<1>23. ASSUME NEW for \in {"billing", "signout"}, Wants(for)
      PROVE  CalledBefore'
  BY <1>23, WantsFacts
<1>24. ASSUME NEW p \in Processes, Forgets(p)
      PROVE  CalledBefore'
  BY <1>24, ForgetsFacts
<1> HIDE DEF CalledBefore, TypeOK
<1> QED
  BY <1>0, <1>1, <1>2, <1>3, <1>4, <1>5, <1>6, <1>7, <1>8, <1>9, <1>10, <1>11, <1>12,
     <1>13, <1>14, <1>15, <1>16, <1>17, <1>18, <1>19, <1>20, <1>21, <1>22, <1>23, <1>24 DEF Next, Steps

\* For a denial or by the timer the server is asked no sooner after the last
\* call than the interval, less the time a caller may wait for the lock, unless
\* the caller read the clock before that call: whoever asks, waits and stops.
THEOREM ServerAskedAtMost == Spec => CallsLimited
<1> DEFINE Step ==
      \A p \in Processes :
        At(p, "locked") /\ job'[p].pc = "rotate" /\ job[p].for \in {"denial", "routine"} =>
          called < job[p].asked \/ called + MaxWait >= Interval(p)
<1>1. Init => CalledBefore
  BY AccountAssumption DEF Init, CalledBefore, NoRecord, LongAgo, LongSince
<1>2. ASSUME IInv, CalledBefore, [Next]_vars PROVE CalledBefore'
  BY <1>2, CalledStep DEF IInv, vars, CalledBefore
<1>3. ASSUME IInv, CalledBefore, [Next]_vars PROVE [Step]_vars
  <2> SUFFICES ASSUME Next, NEW p \in Processes, job[p].pc = "locked", job'[p].pc = "rotate",
                      job[p].for \in {"denial", "routine"}
               PROVE  called < job[p].asked \/ called + MaxWait >= Interval(p)
    BY <1>3 DEF At
  <2>1. TypeOK /\ HandsKnown /\ Starts(p)
    BY <1>3, WhoMoves DEF IInv
  <2>2. \/ record.attempt < job[p].asked
        \/ record.attempt >= job[p].asked + Interval(p)
    BY <2>1 DEF Starts, Refreshing, RefreshAllowed
  <2>3. /\ job[p].asked \in Nat /\ Interval(p) \in Nat
        /\ called \in Nat /\ record.attempt \in Nat /\ MaxWait \in Nat
        /\ called = LongSince => called + MaxWait >= Interval(p)
    BY <2>1, AccountAssumption DEF TypeOK, Jobs, Age, LongAgo, LongSince, Interval
  <2> QED
    BY <1>3, <2>2, <2>3 DEF CalledBefore
<1> QED
  BY <1>1, <1>2, <1>3, Invariant, PTL DEF Spec, CallsLimited

\* When only the desktop's store refuses writes, what is kept in memory or in
\* hand to be stored is never older than what is stored.
Forward ==
  /\ \A p \in Processes \ {Desktop} : unsaved[p] = NoToken
  /\ unsaved[Desktop] # NoToken => stored.grant <= unsaved[Desktop].grant
  /\ \A p \in Processes : job[p].pc \in {"ask", "save"} => stored.grant <= job[p].hand.grant
  /\ \A p \in Processes \ {Desktop} : job[p].pc \in {"ask", "save"} => stored.grant = job[p].hand.grant

\* Only the desktop stores a grant that was not the stored one.
LEMMA ForwardStep ==
  ASSUME Refusing \subseteq {Desktop}, TypeOK, HandsKnown, NewestInHand, Forward, Next
  PROVE  Forward'
<1> USE AccountAssumption, NoTokenFacts, JobFacts, TokenNat, Alone DEF HandsKnown, NewestInHand, Forward, Moves, Over, OthersStay, Stays, UnsavedOnly, Unlocked
<1>0. UNCHANGED <<stored, unsaved, job>> => Forward'
  OBVIOUS
<1>1. ASSUME NEW p \in Processes, NEW for \in {"denial", "routine", "user"}, Asks(p, for)
      PROVE  Forward'
  BY <1>1, AsksFacts
<1>2. ASSUME NEW p \in Processes, Locks(p)
      PROVE  Forward'
  BY <1>2, LocksFacts
<1>3. ASSUME NEW p \in Processes, LockBusy(p)
      PROVE  Forward'
  BY <1>3, LockBusyFacts
<1>4. ASSUME NEW p \in Processes, Skips(p)
      PROVE  Forward'
  BY <1>4, SkipsFacts
<1>5. ASSUME NEW p \in Processes, Starts(p)
      PROVE  Forward'
  BY <1>5, StartsFacts
<1>6. ASSUME NEW p \in Processes, TakesToken(p)
      PROVE  Forward'
  BY <1>6, TakesTokenFacts
<1>7. ASSUME NEW p \in Processes, Rotates(p)
      PROVE  Forward'
  <2> DEFINE g == job[p].hand.grant
  <2>1. /\ g \in Grants /\ (Moves(p, "save", job[p].hand) \/ Over(p)) /\ job[p].pc = "ask"
        /\ stored' = Aged(stored, g) /\ \A q \in Processes : unsaved'[q] = Aged(unsaved[q], g)
    BY <1>7, RotatesFacts
  <2> HIDE DEF g
  <2>2. stored'.grant = stored.grant
    BY <2>1, AgedFacts
  <2>3. \A q \in Processes : /\ unsaved'[q].grant = unsaved[q].grant
                             /\ unsaved'[q] = NoToken <=> unsaved[q] = NoToken
    BY <2>1, AgedFacts
  <2> QED
    BY <2>1, <2>2, <2>3
<1>8. ASSUME NEW p \in Processes, Refuses(p)
      PROVE  Forward'
  <2>1. job[p].hand # NoToken
    BY <1>8 DEF Refuses, At
  <2> QED
    BY <1>8, <2>1, RefusesFacts
<1>9. ASSUME NEW p \in Processes, LooksAgain(p)
      PROVE  Forward'
  BY <1>9, LooksAgainFacts
<1>10. ASSUME NEW p \in Processes, Saves(p)
      PROVE  Forward'
  BY <1>10, SavesFacts
<1>11. ASSUME NEW p \in Processes, Fetches(p)
      PROVE  Forward'
  BY <1>11, FetchesFacts
<1>12. ASSUME NEW p \in Processes, WritesLease(p)
      PROVE  Forward'
  BY <1>12, WritesLeaseFacts
<1>13. ASSUME NEW p \in Processes, WritesRecord(p)
      PROVE  Forward'
  BY <1>13, WritesRecordFacts
<1>14. ASSUME NEW p \in Processes, Marks(p)
      PROVE  Forward'
  BY <1>14, MarksFacts
<1>15. ASSUME NEW p \in Processes, Clears(p)
      PROVE  Forward'
  BY <1>15, ClearsFacts
<1>16. ASSUME NEW p \in Processes, Revokes(p)
      PROVE  Forward'
  BY <1>16, RevokesFacts
<1>17. ASSUME NEW p \in Processes, Fails(p)
      PROVE  Forward'
  BY <1>17, FailsFacts
<1>18. ASSUME NEW p \in Processes, CannotClear(p)
      PROVE  Forward'
  BY <1>18, CannotClearFacts
<1>19. ASSUME NEW p \in Processes, Killed(p)
      PROVE  Forward'
  BY <1>19, KilledFacts
<1>20. ASSUME NEW user \in Users, SignsIn(user)
      PROVE  Forward'
  <2>1. /\ UNCHANGED <<stored, unsaved>> /\ OthersStay(Desktop)
        /\ job'[Desktop].pc = "wait"
    BY <1>20, SignsInFacts
  <2> QED
    BY <2>1
<1>21. ASSUME RecordsUse
      PROVE  Forward'
  BY <1>21, <1>0 DEF RecordsUse, tokens
<1>22. ASSUME TimePasses
      PROVE  Forward'
  BY <1>22, TimeFacts
<1>23. ASSUME NEW for \in {"billing", "signout"}, Wants(for)
      PROVE  Forward'
  BY <1>23, WantsFacts
<1>24. ASSUME NEW p \in Processes, Forgets(p)
      PROVE  Forward'
  BY <1>24, ForgetsFacts
<1> HIDE DEF HandsKnown, NewestInHand, Forward, Moves, Over, OthersStay, Stays, UnsavedOnly, Unlocked
<1> QED
  BY <1>0, <1>1, <1>2, <1>3, <1>4, <1>5, <1>6, <1>7, <1>8, <1>9, <1>10, <1>11, <1>12,
     <1>13, <1>14, <1>15, <1>16, <1>17, <1>18, <1>19, <1>20, <1>21, <1>22, <1>23, <1>24 DEF Next, Steps

\* The store never goes back to an older grant, if no other process than the
\* desktop can be refused: "a new grant supersedes any token an earlier refresh
\* could not store".
THEOREM StoreGoesForward ==
  ASSUME Refusing \subseteq {Desktop}
  PROVE  Spec => NewGrantSupersedes
<1> DEFINE Step == stored.grant # 0 /\ stored'.grant # 0 => stored'.grant >= stored.grant
<1>1. Init => Forward
  BY NoTokenFacts, AccountAssumption DEF Init, Forward, Idle
<1>2. ASSUME IInv, Forward, [Next]_vars PROVE Forward'
  <2>1. CASE Next
    BY <1>2, <2>1, ForwardStep DEF IInv
  <2>2. CASE UNCHANGED vars
    BY <1>2, <2>2 DEF vars, Forward
  <2> QED
    BY <1>2, <2>1, <2>2
<1>3. ASSUME IInv, Forward, [Next]_vars PROVE [Step]_vars
  <2> SUFFICES ASSUME Next PROVE Step
    BY <1>3
  <2> USE AccountAssumption, NoTokenFacts
  <2>0. TypeOK /\ HandsKnown /\ stored.grant \in Nat /\ (UNCHANGED stored => Step)
    BY <1>3, TokenNat DEF IInv
  <2>1. ASSUME NEW p \in Processes, NEW for \in {"denial", "routine", "user"}, Asks(p, for)
        PROVE  Step
    BY <2>1, <2>0, AsksFacts
  <2>2. ASSUME NEW p \in Processes, Locks(p)
        PROVE  Step
    BY <2>2, <2>0, LocksFacts
  <2>3. ASSUME NEW p \in Processes, LockBusy(p)
        PROVE  Step
    BY <2>3, <2>0, LockBusyFacts
  <2>4. ASSUME NEW p \in Processes, Skips(p)
        PROVE  Step
    BY <2>4, <2>0, SkipsFacts
  <2>5. ASSUME NEW p \in Processes, Starts(p)
        PROVE  Step
    BY <2>5, <2>0, StartsFacts
  <2>6. ASSUME NEW p \in Processes, TakesToken(p)
        PROVE  Step
    <3>1. UNCHANGED stored \/ (unsaved[p] # NoToken /\ stored' = unsaved[p])
      BY <2>6 DEF TakesToken, tokens
    <3> QED
      BY <1>3, <2>0, <3>1, TokenNat DEF Forward
  <2>7. ASSUME NEW p \in Processes, Rotates(p)
        PROVE  Step
    <3>1. stored'.grant = stored.grant
      BY <2>7, <2>0, RotatesFacts, AgedFacts, JobFacts
    <3> QED
      BY <2>0, <3>1
  <2>8. ASSUME NEW p \in Processes, Refuses(p)
        PROVE  Step
    BY <2>8, <2>0 DEF Refuses, tokens
  <2>9. ASSUME NEW p \in Processes, LooksAgain(p)
        PROVE  Step
    BY <2>9, <2>0, LooksAgainFacts
  <2>10. ASSUME NEW p \in Processes, Saves(p)
        PROVE  Step
    <3>1. job[p].pc = "save" /\ (UNCHANGED stored \/ stored' = job[p].hand)
      BY <2>10, <2>0, SavesFacts
    <3> QED
      BY <1>3, <2>0, <3>1, TokenNat DEF Forward
  <2>11. ASSUME NEW p \in Processes, Fetches(p)
        PROVE  Step
    BY <2>11, <2>0, FetchesFacts
  <2>12. ASSUME NEW p \in Processes, WritesLease(p)
        PROVE  Step
    BY <2>12, <2>0, WritesLeaseFacts
  <2>13. ASSUME NEW p \in Processes, WritesRecord(p)
        PROVE  Step
    BY <2>13, <2>0, WritesRecordFacts
  <2>14. ASSUME NEW p \in Processes, Marks(p)
        PROVE  Step
    BY <2>14, <2>0, MarksFacts
  <2>15. ASSUME NEW p \in Processes, Clears(p)
        PROVE  Step
    BY <2>15, <2>0, ClearsFacts
  <2>16. ASSUME NEW p \in Processes, Revokes(p)
        PROVE  Step
    BY <2>16, <2>0, RevokesFacts
  <2>17. ASSUME NEW p \in Processes, Fails(p)
        PROVE  Step
    BY <2>17, <2>0, FailsFacts
  <2>18. ASSUME NEW p \in Processes, CannotClear(p)
        PROVE  Step
    BY <2>18, <2>0, CannotClearFacts
  <2>19. ASSUME NEW p \in Processes, Killed(p)
        PROVE  Step
    BY <2>19, <2>0, KilledFacts
  <2>20. ASSUME NEW user \in Users, SignsIn(user)
        PROVE  Step
    BY <2>20, <2>0, SignsInFacts
  <2>21. ASSUME RecordsUse
        PROVE  Step
    BY <2>21, <2>0 DEF RecordsUse, tokens
  <2>22. ASSUME TimePasses
        PROVE  Step
    BY <2>22, <2>0, TimeFacts
  <2>23. ASSUME NEW for \in {"billing", "signout"}, Wants(for)
        PROVE  Step
    BY <2>23, <2>0, WantsFacts
  <2>24. ASSUME NEW p \in Processes, Forgets(p)
        PROVE  Step
    BY <2>24, <2>0, ForgetsFacts
  <2> HIDE DEF Step
  <2> QED
    BY <2>1, <2>2, <2>3, <2>4, <2>5, <2>6, <2>7, <2>8, <2>9, <2>10, <2>11, <2>12, <2>13,
       <2>14, <2>15, <2>16, <2>17, <2>18, <2>19, <2>20, <2>21, <2>22, <2>23, <2>24 DEF Next, Steps
<1> QED
  BY <1>1, <1>2, <1>3, Invariant, PTL DEF Spec, NewGrantSupersedes

=============================================================================
