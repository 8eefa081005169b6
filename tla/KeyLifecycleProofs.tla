------------------------- MODULE KeyLifecycleProofs -------------------------
(***************************************************************************)
(* What holds of the vault key for any number of stops, erasures, faults   *)
(* and keys: type correctness; with a store that does not both ignore      *)
(* deletes and deny what it holds, that no key stands beside an erasure's  *)
(* marker and that an erased key never comes back; with two faults of any  *)
(* kind, that no process is handed an erased key; with a store that does   *)
(* not lie as often as the program asks, that no key is lost, that the     *)
(* lifecycle implements VaultKey, and that the key in force opens          *)
(* everything in the vault's folder.                                       *)
(***************************************************************************)
EXTENDS KeyLifecycle, TLAPS

USE DEF keyVars, cred, bounds, place

----------------------------------------------------------------------------
(* The store's outcomes *)

MaybeCredential == Credential \cup {NoEntry}

LEMMA IfKind ==
  ASSUME NEW kind, NEW outcomes, NEW o \in If(kind, outcomes)
  PROVE  kind \in Faults /\ o \in outcomes
BY DEF If

LEMMA AnswerFacts ==
  ASSUME NEW n \in Nat, NEW c \in MaybeCredential, NEW a \in Answers(n, c)
  PROVE  /\ a.is \in {c, NoEntry}
         /\ a.cost \in Nat
         /\ a.is = NoEntry /\ c # NoEntry => a.cost = n /\ "no_entry" \in Faults
<1>1. CASE a = [is |-> c, cost |-> 0]
  BY <1>1
<1>2. CASE a # [is |-> c, cost |-> 0]
  <2>1. a \in If("no_entry", {[is |-> NoEntry, cost |-> IF c = NoEntry THEN 0 ELSE n]})
    BY <1>2 DEF Answers
  <2>2. a = [is |-> NoEntry, cost |-> IF c = NoEntry THEN 0 ELSE n] /\ "no_entry" \in Faults
    BY <2>1, IfKind
  <2> QED
    BY <2>2
<1> QED
  BY <1>1, <1>2

LEMMA ReadFacts ==
  ASSUME NEW c \in MaybeCredential
  PROVE  /\ \A a \in Read(c) : /\ a.is \in {c, NoEntry} /\ a.cost \in Nat
                               /\ a.is = NoEntry /\ c # NoEntry
                                    => "no_entry" \in Faults /\ a.cost = 1
         /\ \A a \in Believed(c) : /\ a.is \in {c, NoEntry} /\ a.cost \in Nat
                                   /\ a.is = NoEntry /\ c # NoEntry => a.cost = Reads
<1>1. Reads \in Nat /\ 1 \in Nat
  BY KeyAssumption
<1> QED
  BY <1>1, AnswerFacts DEF Read, Believed

\* A write that reads back stored what it was given; one that does not stored
\* it, garbled it, or changed nothing.
LEMMA WriteFacts ==
  ASSUME NEW c \in MaybeCredential, NEW k \in Keys \cup {Garbled}, NEW w \in Writes(c, k)
  PROVE  /\ w.left \in MaybeCredential
         /\ w.cost \in Nat
         /\ w.ok => w.left = [key |-> k, local |-> TRUE] /\ w.left # NoEntry
         /\ \/ w.left = c
            \/ w.left # NoEntry /\ w.left.key = k
            \/ w.left # NoEntry /\ w.left.key = Garbled /\ w.left.local
<1>0. Reads \in Nat /\ MaxKeys \in Nat
  BY KeyAssumption
<1>1. \A l \in BOOLEAN, j \in Keys \cup {Garbled} :
        /\ [key |-> j, local |-> l] \in Credential
        /\ [key |-> j, local |-> l] # NoEntry
  BY <1>0 DEF Credential, NoEntry, Keys, Garbled
<1>2. CASE w = [left |-> [key |-> k, local |-> TRUE], ok |-> TRUE, cost |-> 0]
  BY <1>2, <1>1 DEF MaybeCredential
<1>3. CASE w \in If("no_entry", {[left |-> [key |-> k, local |-> TRUE], ok |-> FALSE, cost |-> Reads]})
  <2>1. w = [left |-> [key |-> k, local |-> TRUE], ok |-> FALSE, cost |-> Reads]
    BY <1>3, IfKind
  <2> QED
    BY <2>1, <1>0, <1>1 DEF MaybeCredential
<1>4. CASE w \in If("garbled", {[left |-> [key |-> Garbled, local |-> TRUE], ok |-> FALSE, cost |-> 1]})
  <2>1. w = [left |-> [key |-> Garbled, local |-> TRUE], ok |-> FALSE, cost |-> 1]
    BY <1>4, IfKind
  <2> QED
    BY <2>1, <1>1 DEF MaybeCredential
<1>5. CASE w \in If("roaming", {[left |-> [key |-> k, local |-> FALSE], ok |-> FALSE, cost |-> 1]})
  <2>1. w = [left |-> [key |-> k, local |-> FALSE], ok |-> FALSE, cost |-> 1]
    BY <1>5, IfKind
  <2> QED
    BY <2>1, <1>1 DEF MaybeCredential
<1>6. CASE w \in If("refused", {[left |-> c, ok |-> FALSE, cost |-> 1]})
  <2>1. w = [left |-> c, ok |-> FALSE, cost |-> 1]
    BY <1>6, IfKind
  <2> QED
    BY <2>1
<1> QED
  BY <1>2, <1>3, <1>4, <1>5, <1>6 DEF Writes

LEMMA DeleteFacts ==
  ASSUME NEW c \in MaybeCredential
  PROVE  \A d \in Deletes(c) :
           /\ d.left \in {c, NoEntry} /\ d.cost \in Nat
           /\ d.left # NoEntry => "no_delete" \in Faults /\ d.cost = 1
<1> SUFFICES ASSUME NEW d \in Deletes(c)
             PROVE  /\ d.left \in {c, NoEntry} /\ d.cost \in Nat
                    /\ d.left # NoEntry => "no_delete" \in Faults /\ d.cost = 1
  OBVIOUS
<1>1. CASE d = [left |-> NoEntry, cost |-> 0]
  BY <1>1
<1>2. CASE d \in If("no_delete", {[left |-> c, cost |-> IF c = NoEntry THEN 0 ELSE 1]})
  <2>1. d = [left |-> c, cost |-> IF c = NoEntry THEN 0 ELSE 1] /\ "no_delete" \in Faults
    BY <1>2, IfKind
  <2> QED
    BY <2>1
<1> QED
  BY <1>1, <1>2 DEF Deletes

(***************************************************************************)
(* A deletion is confirmed by one read: only a store that ignores deletes  *)
(* and also denies holding the credential leaves one that counts as gone.  *)
(***************************************************************************)
LEMMA ConfirmFacts ==
  ASSUME NEW c \in MaybeCredential
  PROVE  \A d \in DeletesConfirmed(c) :
           /\ d.left \in {c, NoEntry} /\ d.cost \in Nat
           /\ d.gone /\ d.left # NoEntry
                => {"no_delete", "no_entry"} \subseteq Faults /\ d.cost = 2
<1> SUFFICES ASSUME NEW d \in DeletesConfirmed(c)
             PROVE  /\ d.left \in {c, NoEntry} /\ d.cost \in Nat
                    /\ d.gone /\ d.left # NoEntry
                         => {"no_delete", "no_entry"} \subseteq Faults /\ d.cost = 2
  OBVIOUS
<1>1. PICK e \in Deletes(c) : \E r \in Read(e.left) :
        d = [left |-> e.left, gone |-> r.is = NoEntry, cost |-> e.cost + r.cost]
  BY DEF DeletesConfirmed
<1>7. PICK r \in Read(e.left) :
        d = [left |-> e.left, gone |-> r.is = NoEntry, cost |-> e.cost + r.cost]
  BY <1>1
<1>2. /\ e.left \in {c, NoEntry} /\ e.cost \in Nat
      /\ e.left # NoEntry => "no_delete" \in Faults /\ e.cost = 1
  BY DeleteFacts
<1>3. e.left \in MaybeCredential
  BY <1>2 DEF MaybeCredential
<1>4. /\ r.cost \in Nat
      /\ r.is = NoEntry /\ e.left # NoEntry => "no_entry" \in Faults /\ r.cost = 1
  BY <1>3, ReadFacts
<1>5. d.left = e.left /\ d.cost = e.cost + r.cost /\ d.gone = (r.is = NoEntry)
  BY <1>7
<1>6. d.gone => r.is = NoEntry
  BY <1>5, Zenon
<1> QED
  BY <1>2, <1>4, <1>5, <1>6

LEMMA RecheckFacts ==
  ASSUME NEW c \in MaybeCredential
  PROVE  \A d \in Rechecks(c) : d.left \in {c, NoEntry} /\ d.cost \in Nat
<1> SUFFICES ASSUME NEW d \in Rechecks(c) PROVE d.left \in {c, NoEntry} /\ d.cost \in Nat
  OBVIOUS
<1>1. PICK r \in Read(c) :
        d \in IF r.is = NoEntry THEN {[left |-> c, gone |-> TRUE, cost |-> r.cost]}
              ELSE DeletesConfirmed(c)
  BY DEF Rechecks
<1>2. r.cost \in Nat
  BY ReadFacts
<1>3. CASE d \in DeletesConfirmed(c)
  BY <1>3, ConfirmFacts
<1>4. CASE d = [left |-> c, gone |-> TRUE, cost |-> r.cost]
  BY <1>2, <1>4
<1> QED
  BY <1>1, <1>3, <1>4

\* The file step leaves all of a folder's data or none of it.
LEMMA CleanFacts ==
  ASSUME NEW f
  PROVE  \A c \in Cleans(f) : c.data \in {{}, data[f]} /\ c.cost \in Nat /\ c.left \in BOOLEAN
<1> SUFFICES ASSUME NEW c \in Cleans(f)
             PROVE  c.data \in {{}, data[f]} /\ c.cost \in Nat /\ c.left \in BOOLEAN
  OBVIOUS
<1>1. CASE c = [left |-> TRUE, data |-> data[f], cost |-> 0]
  BY <1>1
<1>2. CASE c = [left |-> FALSE, data |-> {}, cost |-> 0]
  BY <1>2
<1>3. CASE c \in If("denied", [left : {TRUE}, data : {{}, data[f]}, cost : {1}])
  <2>1. c \in [left : {TRUE}, data : {{}, data[f]}, cost : {1}]
    BY <1>3, IfKind
  <2>2. c.data \in {{}, data[f]} /\ c.cost = 1
    BY <2>1
  <2>3. c.left \in {TRUE}
    BY <2>1
  <2>4. c.left \in BOOLEAN
    BY <2>3, Zenon
  <2> QED
    BY <2>2, <2>4
<1> QED
  BY <1>1, <1>2, <1>3 DEF Cleans

----------------------------------------------------------------------------
(* Types *)

(***************************************************************************)
(* What the steps between two reads rely on: the credentials an operation  *)
(* is about to copy or hand out are there, and the bound on keys was seen. *)
(***************************************************************************)
StepFits ==
  /\ op.at \in {"c2_main", "c2_spare", "m2", "m3", "m3_again", "m4"} => main # NoEntry
  /\ op.at \in {"c2_main", "restore", "m3", "m3_again"} => spare # NoEntry
  /\ op.at = "create" => made < MaxKeys

TypeInv == TypeOK /\ StepFits

\* An operation that is somewhere is one.
LEMMA OpTyped ==
  ASSUME TypeOK, op.at # "idle"
  PROVE  op \in Operation
BY DEF TypeOK, Idle

\* Moving on keeps what the operation remembers.
LEMMA GoFacts ==
  ASSUME TypeOK, op.at # "idle", NEW at \in Steps, Go(at)
  PROVE  /\ op' \in Operation /\ op'.at = at
         /\ op'.own = op.own /\ op'.seen = op.seen /\ op'.pending = op.pending
BY OpTyped DEF Go, Operation

LEMMA StepsAre ==
  /\ "idle" \notin Steps /\ Idle.at = "idle" /\ Idle \notin Operation
  /\ \A c \in Credential : c # NoEntry /\ c.key \in Keys \cup {Garbled} /\ c.local \in BOOLEAN
<1>1. MaxKeys \in Nat
  BY KeyAssumption
<1>2. "idle" \notin Steps
  BY DEF Steps
<1>3. \A c \in Credential : c # NoEntry /\ c.key \in Keys \cup {Garbled}
  BY <1>1 DEF Credential, NoEntry, Keys, Garbled
<1>4. \A c \in Credential : c.local \in BOOLEAN
  BY DEF Credential
<1> QED
  BY <1>2, <1>3, <1>4 DEF Idle, Operation

LEMMA InitType == Init => TypeInv
<1> SUFFICES ASSUME Init PROVE TypeInv
  OBVIOUS
<1>1. /\ {Reads, MaxFaults, MaxStops, MaxKeys, MaxErasures, MaxTrips} \subseteq Nat
      /\ MaxKeys > 0
  BY KeyAssumption
<1>2. [key |-> 1, local |-> FALSE] \in Credential
  BY <1>1 DEF Credential, Keys
<1>3. {main, spare} \subseteq Credential \cup {NoEntry}
  BY <1>2 DEF Init
<1>4. data \in [Folders -> SUBSET (Keys \cup {Garbled})]
  BY <1>1 DEF Init, Keys
<1>5. made \in 0..MaxKeys /\ faults \in 0..MaxFaults /\ stops \in 0..MaxStops
      /\ erasures \in 0..MaxErasures /\ trips \in 0..MaxTrips
  BY <1>1 DEF Init
<1>6. vault_dir \in Folders
  BY KeyAssumption DEF Init
<1> QED
  BY <1>3, <1>4, <1>5, <1>6 DEF Init, TypeInv, TypeOK, StepFits, Idle

\* What is spent on an outcome stays within the bound.
LEMMA Budget ==
  ASSUME TypeOK, UNCHANGED faults \/ \E n \in Nat : Spend(n)
  PROVE  faults' \in 0..MaxFaults
BY KeyAssumption DEF TypeOK, Spend

\* Cleaning a folder keeps the data typed.
LEMMA CleanedTyped ==
  ASSUME TypeOK, NEW f, NEW d \in {{}, data[f]}
  PROVE  [data EXCEPT ![f] = d] \in [Folders -> SUBSET (Keys \cup {Garbled})]
<1>1. CASE f \in Folders
  BY <1>1 DEF TypeOK
<1>2. CASE f \notin Folders
  BY <1>2 DEF TypeOK
<1> QED
  BY <1>1, <1>2

\* The first steps of an open: an unfinished erasure (C1).
LEMMA FinishingType ==
  ASSUME TypeInv, FinishErasure \/ C1Spare \/ D4Spare \/ E2Spare \/ C1Clean \/ C1Marker
  PROVE  TypeInv'
<1>1. CASE FinishErasure
  <2>1. op.at = "finish_erasure" /\ op \in Operation
    BY <1>1, OpTyped DEF FinishErasure, TypeInv
  <2>2. op' \in Operation /\ op'.at \in {"recover", "c1_clean", "c1_spare"}
    BY <1>1, <2>1 DEF FinishErasure, Go, Operation, Steps
  <2>3. faults' \in 0..MaxFaults
    <3>1. main \in MaybeCredential /\ spare \in MaybeCredential
      BY DEF TypeInv, TypeOK, MaybeCredential
    <3>2. \A a \in Believed(main), b \in Read(spare) :
            a.cost \in Nat /\ b.cost \in Nat /\ a.cost + b.cost \in Nat
      BY <3>1, ReadFacts
    <3>3. \A a \in Believed(main) : a.cost \in Nat
      BY <3>1, ReadFacts
    <3>4. UNCHANGED faults \/ \E n \in Nat : Spend(n)
      BY <1>1, <3>2, <3>3 DEF FinishErasure
    <3> QED
      BY <3>4, Budget DEF TypeInv
  <2> QED
    BY <1>1, <2>2, <2>3 DEF FinishErasure, TypeInv, TypeOK, StepFits
<1>2. ASSUME NEW at \in Steps, NEW then \in {"c1_clean", "d4_data", "e2_main"},
             DropsSpare(at, then)
      PROVE  TypeInv'
  <2>1. op.at = at /\ op \in Operation
    BY <1>2, OpTyped, StepsAre DEF DropsSpare, TypeInv
  <2>2. then \in Steps
    BY DEF Steps
  <2>3. \/ op' = Idle
        \/ op' \in Operation /\ op'.at = then
    BY <1>2, <2>1, <2>2, GoFacts, StepsAre DEF DropsSpare, End, TypeInv
  <2>4. spare' \in MaybeCredential /\ faults' \in 0..MaxFaults
    BY <1>2, ConfirmFacts, KeyAssumption DEF DropsSpare, TypeInv, TypeOK, Spend, MaybeCredential
  <2> QED
    BY <1>2, <2>3, <2>4, StepsAre DEF DropsSpare, TypeInv, TypeOK, StepFits, MaybeCredential
<1>3. CASE C1Clean
  <2>1. op.at = "c1_clean" /\ op \in Operation
    BY <1>3, OpTyped DEF C1Clean, TypeInv
  <2>2. \/ op' = Idle
        \/ op' \in Operation /\ op'.at \in {"recover", "c1_marker"}
    BY <1>3, <2>1, ZenonT(60) DEF C1Clean, Go, End, Operation, Steps
  <2>3. data' \in [Folders -> SUBSET (Keys \cup {Garbled})] /\ faults' \in 0..MaxFaults
    <3>1. PICK c \in Cleans(marker) : Spend(c.cost) /\ data' = [data EXCEPT ![marker] = c.data]
      BY <1>3 DEF C1Clean
    <3>2. c.data \in {{}, data[marker]} /\ c.cost \in Nat
      BY CleanFacts
    <3> QED
      BY <3>1, <3>2, Budget, CleanedTyped DEF TypeInv
  <2> QED
    BY <1>3, <2>2, <2>3, StepsAre DEF C1Clean, TypeInv, TypeOK, StepFits
<1>4. CASE C1Marker
  <2>1. op' \in Operation /\ op'.at = "recover"
    BY <1>4, GoFacts DEF C1Marker, TypeInv, Steps
  <2> QED
    BY <1>4, <2>1 DEF C1Marker, TypeInv, TypeOK, StepFits
<1> QED
  BY <1>1, <1>2, <1>3, <1>4 DEF C1Spare, D4Spare, E2Spare, Steps

\* The credentials, and what the store may answer or spend on them.
LEMMA CredentialsTyped ==
  ASSUME TypeOK
  PROVE  /\ main \in MaybeCredential /\ spare \in MaybeCredential
         /\ main # NoEntry => main \in Credential /\ main.key \in Keys \cup {Garbled}
         /\ spare # NoEntry => spare \in Credential /\ spare.key \in Keys \cup {Garbled}
BY StepsAre DEF TypeOK, MaybeCredential

\* A process that gets a key in its folder is one of the holders.
LEMMA OpensTyped ==
  ASSUME TypeOK, op.at # "idle", NEW k \in Keys \cup {Garbled}, OpensWith(k)
  PROVE  op' = Idle /\ open_by' \subseteq (Keys \cup {Garbled}) \X Folders
BY OpTyped DEF TypeOK, OpensWith, End, Operation

\* C2: what is left of a move.
LEMMA RecoveringType ==
  ASSUME TypeInv, Recover \/ C2Main \/ Restore \/ C2Spare
  PROVE  TypeInv'
<1>0. TypeOK /\ StepFits
  BY DEF TypeInv
<1>1. CASE Recover
  <2>1. op.at = "recover"
    BY <1>1 DEF Recover
  <2>2. PICK s \in Read(spare), m \in Believed(main) :
           \/ /\ s.is = NoEntry
              /\ Go("read_main") /\ Spend(s.cost)
           \/ /\ s.is # NoEntry /\ Spend(s.cost + m.cost)
              /\ \/ /\ m.is # NoEntry /\ m.is.key = spare.key
                    /\ Go(IF main.local THEN "c2_spare" ELSE "c2_main")
                 \/ /\ m.is # NoEntry /\ m.is.key # spare.key
                    /\ Go("read_main")
                 \/ /\ m.is = NoEntry
                    /\ Go(IF op.seen THEN "read_main" ELSE "restore")
    BY <1>1 DEF Recover
  <2>3. /\ s.is \in {spare, NoEntry} /\ s.cost \in Nat
        /\ m.is \in {main, NoEntry} /\ m.cost \in Nat
    BY <1>0, CredentialsTyped, ReadFacts
  <2>4. faults' \in 0..MaxFaults
    BY <1>0, <2>2, <2>3, Budget
  <2>5. /\ op' \in Operation
        /\ op'.at \in {"read_main", "c2_spare", "c2_main", "restore"}
        /\ op'.at \in {"c2_spare", "c2_main"} => main # NoEntry
        /\ op'.at \in {"c2_main", "restore"} => spare # NoEntry
    <3>1. \/ Go("read_main")
          \/ (Go("c2_spare") \/ Go("c2_main")) /\ main # NoEntry /\ spare # NoEntry
          \/ Go("restore") /\ spare # NoEntry
      BY <2>2, <2>3
    <3>2. {"read_main", "c2_spare", "c2_main", "restore"} \subseteq Steps
      BY DEF Steps
    <3> QED
      BY <1>0, <2>1, <3>1, <3>2, GoFacts
  <2> QED
    BY <1>0, <1>1, <2>4, <2>5 DEF Recover, TypeInv, TypeOK, StepFits
<1>2. CASE C2Main
  <2>1. op.at = "c2_main" /\ spare.key \in Keys \cup {Garbled} /\ main # NoEntry
    BY <1>0, <1>2, CredentialsTyped DEF C2Main, StepFits
  <2>2. PICK w \in Writes(main, spare.key) :
          /\ main' = w.left /\ Spend(w.cost)
          /\ Go(IF w.ok THEN "c2_spare" ELSE "read_main")
    BY <1>2 DEF C2Main
  <2>3. /\ main' \in MaybeCredential /\ w.cost \in Nat
        /\ main' = main \/ main' # NoEntry
    BY <1>0, <2>1, <2>2, CredentialsTyped, WriteFacts
  <2>4. op' \in Operation /\ op'.at \in {"c2_spare", "read_main"}
    BY <1>0, <2>1, <2>2, GoFacts DEF Steps
  <2>5. faults' \in 0..MaxFaults
    BY <1>0, <2>2, <2>3, Budget
  <2> QED
    BY <1>0, <1>2, <2>1, <2>3, <2>4, <2>5 DEF C2Main, TypeInv, TypeOK, StepFits, MaybeCredential
<1>3. CASE Restore
  <2>1. op.at = "restore" /\ spare.key \in Keys \cup {Garbled}
    BY <1>0, <1>3, CredentialsTyped DEF Restore, StepFits
  <2>2. PICK w \in Writes(main, spare.key) :
          /\ main' = w.left /\ Spend(w.cost)
          /\ IF w.ok THEN Go("c2_spare") ELSE End
    BY <1>3 DEF Restore
  <2>3. /\ main' \in MaybeCredential /\ w.cost \in Nat
        /\ w.ok => main' # NoEntry
    BY <1>0, <2>1, <2>2, CredentialsTyped, WriteFacts
  <2>4. \/ op' = Idle
        \/ op' \in Operation /\ op'.at = "c2_spare" /\ main' # NoEntry
    BY <1>0, <2>1, <2>2, <2>3, GoFacts DEF Steps, End
  <2>5. faults' \in 0..MaxFaults
    BY <1>0, <2>2, <2>3, Budget
  <2> QED
    BY <1>0, <1>3, <2>3, <2>4, <2>5, StepsAre
    DEF Restore, TypeInv, TypeOK, StepFits, MaybeCredential
<1>4. CASE C2Spare
  <2>1. op' \in Operation /\ op'.at = "read_main"
    BY <1>0, <1>4, GoFacts DEF C2Spare, RemoveSpare, Steps
  <2>2. spare' \in MaybeCredential /\ faults' \in 0..MaxFaults
    <3>1. PICK d \in Deletes(spare) : spare' = d.left /\ Spend(d.cost)
      BY <1>4 DEF C2Spare, RemoveSpare
    <3> QED
      BY <1>0, <3>1, CredentialsTyped, DeleteFacts, Budget DEF MaybeCredential
  <2> QED
    BY <1>0, <1>4, <2>1, <2>2 DEF C2Spare, TypeInv, TypeOK, StepFits, MaybeCredential
<1> QED
  BY <1>1, <1>2, <1>3, <1>4

\* D5: reading main and moving it.
LEMMA MovingType ==
  ASSUME TypeInv, ReadMain \/ M2 \/ M3 \/ M3Again \/ M4
  PROVE  TypeInv'
<1>0. TypeOK /\ StepFits
  BY DEF TypeInv
<1>1. CASE ReadMain
  <2>1. op.at = "read_main"
    BY <1>1 DEF ReadMain
  <2>2. PICK m \in Believed(main) :
          /\ Spend(m.cost)
          /\ \/ m.is = NoEntry /\ Go("d4") /\ UNCHANGED open_by
             \/ m.is # NoEntry /\ ~main.local /\ Go("m2") /\ UNCHANGED open_by
             \/ m.is # NoEntry /\ main.local /\ OpensWith(main.key)
    BY <1>1 DEF ReadMain
  <2>3. m.is \in {main, NoEntry} /\ m.cost \in Nat
    BY <1>0, CredentialsTyped, ReadFacts
  <2>4. faults' \in 0..MaxFaults
    BY <1>0, <2>2, <2>3, Budget
  <2>5. CASE m.is = NoEntry /\ Go("d4") /\ UNCHANGED open_by
    <3>1. op' \in Operation /\ op'.at = "d4"
      BY <1>0, <2>1, <2>5, GoFacts DEF Steps
    <3> QED
      BY <1>0, <1>1, <2>4, <2>5, <3>1 DEF ReadMain, TypeInv, TypeOK, StepFits
  <2>6. CASE m.is # NoEntry /\ Go("m2") /\ UNCHANGED open_by
    <3>1. op' \in Operation /\ op'.at = "m2"
      BY <1>0, <2>1, <2>6, GoFacts DEF Steps
    <3> QED
      BY <1>0, <1>1, <2>3, <2>4, <2>6, <3>1 DEF ReadMain, TypeInv, TypeOK, StepFits
  <2>7. CASE m.is # NoEntry /\ OpensWith(main.key)
    <3>1. op' = Idle /\ open_by' \subseteq (Keys \cup {Garbled}) \X Folders
      BY <1>0, <2>1, <2>3, <2>7, CredentialsTyped, OpensTyped
    <3> QED
      BY <1>0, <1>1, <2>4, <3>1, StepsAre DEF ReadMain, TypeInv, TypeOK, StepFits
  <2> QED
    BY <2>2, <2>5, <2>6, <2>7
<1>2. CASE M2
  <2>1. op.at = "m2" /\ main # NoEntry /\ main.key \in Keys \cup {Garbled}
    BY <1>0, <1>2, CredentialsTyped DEF M2, StepFits
  <2>2. PICK w \in Writes(spare, main.key) :
          /\ spare' = w.left /\ Spend(w.cost)
          /\ IF w.ok THEN Go("m3") /\ UNCHANGED open_by ELSE OpensWith(main.key)
    BY <1>2 DEF M2
  <2>3. /\ spare' \in MaybeCredential /\ w.cost \in Nat
        /\ w.ok => spare' # NoEntry
    BY <1>0, <2>1, <2>2, CredentialsTyped, WriteFacts
  <2>4. faults' \in 0..MaxFaults
    BY <1>0, <2>2, <2>3, Budget
  <2>5. CASE w.ok
    <3>1. op' \in Operation /\ op'.at = "m3" /\ UNCHANGED open_by
      BY <1>0, <2>1, <2>2, <2>5, GoFacts DEF Steps
    <3> QED
      BY <1>0, <1>2, <2>1, <2>3, <2>4, <2>5, <3>1
      DEF M2, TypeInv, TypeOK, StepFits, MaybeCredential
  <2>6. CASE ~w.ok
    <3>1. op' = Idle /\ open_by' \subseteq (Keys \cup {Garbled}) \X Folders
      BY <1>0, <2>1, <2>2, <2>6, OpensTyped
    <3> QED
      BY <1>0, <1>2, <2>3, <2>4, <3>1, StepsAre
      DEF M2, TypeInv, TypeOK, StepFits, MaybeCredential
  <2> QED
    BY <2>5, <2>6
<1>3. CASE M3 \/ M3Again
  <2>1. /\ op.at \in {"m3", "m3_again"}
        /\ main # NoEntry /\ spare # NoEntry /\ spare.key \in Keys \cup {Garbled}
        /\ UNCHANGED <<spare, marker, data, place, made, bounds, erased>>
    BY <1>0, <1>3, CredentialsTyped DEF M3, M3Again, RewritesMain, StepFits
  <2>2. PICK w \in Writes(main, spare.key) :
          /\ main' = w.left /\ Spend(w.cost)
          /\ \/ Go("m4") /\ UNCHANGED open_by
             \/ Go("m3_again") /\ UNCHANGED open_by
             \/ OpensWith(spare.key)
    BY <1>3 DEF M3, M3Again, RewritesMain
  <2>3. /\ main' \in MaybeCredential /\ w.cost \in Nat
        /\ main' # NoEntry
    BY <1>0, <2>1, <2>2, CredentialsTyped, WriteFacts
  <2>4. faults' \in 0..MaxFaults
    BY <1>0, <2>2, <2>3, Budget
  <2>5. CASE (Go("m4") \/ Go("m3_again")) /\ UNCHANGED open_by
    <3>1. op' \in Operation /\ op'.at \in {"m4", "m3_again"}
      BY <1>0, <2>1, <2>5, GoFacts DEF Steps
    <3> QED
      BY <1>0, <2>1, <2>3, <2>4, <2>5, <3>1 DEF TypeInv, TypeOK, StepFits, MaybeCredential
  <2>6. CASE OpensWith(spare.key)
    <3>1. op' = Idle /\ open_by' \subseteq (Keys \cup {Garbled}) \X Folders
      BY <1>0, <2>1, <2>6, OpensTyped
    <3> QED
      BY <1>0, <2>1, <2>3, <2>4, <3>1, StepsAre DEF TypeInv, TypeOK, StepFits, MaybeCredential
  <2> QED
    BY <2>2, <2>5, <2>6
<1>4. CASE M4
  <2>1. op.at = "m4" /\ main # NoEntry
    BY <1>0, <1>4 DEF M4, RemoveSpare, StepFits
  <2>2. spare' \in MaybeCredential /\ faults' \in 0..MaxFaults
    <3>1. PICK d \in Deletes(spare) : spare' = d.left /\ Spend(d.cost)
      BY <1>4 DEF M4, RemoveSpare
    <3> QED
      BY <1>0, <3>1, CredentialsTyped, DeleteFacts, Budget DEF MaybeCredential
  <2>3. op' = Idle /\ open_by' \subseteq (Keys \cup {Garbled}) \X Folders
    BY <1>0, <1>4, <2>1, CredentialsTyped, OpensTyped DEF M4
  <2> QED
    BY <1>0, <1>4, <2>2, <2>3, StepsAre DEF M4, TypeInv, TypeOK, StepFits, MaybeCredential
<1> QED
  BY <1>1, <1>2, <1>3, <1>4

\* D4: making a key.
LEMMA MakingType ==
  ASSUME TypeInv, D4 \/ D4Data \/ Create
  PROVE  TypeInv'
<1>0. TypeOK /\ StepFits
  BY DEF TypeInv
<1>1. CASE D4
  <2>1. op.at = "d4"
    BY <1>1 DEF D4
  <2>2. \A s \in Believed(spare) : s.cost \in Nat
    BY <1>0, CredentialsTyped, ReadFacts
  <2>3. /\ UNCHANGED faults \/ \E n \in Nat : Spend(n)
        /\ End \/ Go("d4_data") \/ Go("d4_spare")
    BY <1>1, <2>2 DEF D4
  <2>4. faults' \in 0..MaxFaults
    BY <1>0, <2>3, Budget
  <2>5. op' = Idle \/ (op' \in Operation /\ op'.at \in {"d4_data", "d4_spare"})
    BY <1>0, <2>1, <2>3, GoFacts DEF Steps, End
  <2> QED
    BY <1>0, <1>1, <2>4, <2>5, StepsAre DEF D4, TypeInv, TypeOK, StepFits
<1>2. CASE D4Data
  <2>1. \/ op' = Idle
        \/ op' \in Operation /\ op'.at = "create" /\ made < MaxKeys
    BY <1>0, <1>2, GoFacts DEF D4Data, Steps, End
  <2> QED
    BY <1>0, <1>2, <2>1, StepsAre DEF D4Data, TypeInv, TypeOK, StepFits
<1>3. CASE Create
  <2>1. op.at = "create" /\ made + 1 \in Keys /\ made \in Nat
    BY <1>0, <1>3, KeyAssumption DEF Create, StepFits, TypeOK, Keys
  <2>2. PICK w \in Writes(main, made + 1) :
          /\ main' = w.left /\ Spend(w.cost)
          /\ made' = IF w.left.key = made + 1 THEN made + 1 ELSE made
          /\ IF w.ok THEN OpensWith(made + 1) ELSE End /\ UNCHANGED open_by
    BY <1>3 DEF Create
  <2>3. main' \in MaybeCredential /\ w.cost \in Nat
    BY <1>0, <2>1, <2>2, CredentialsTyped, WriteFacts
  <2>4. faults' \in 0..MaxFaults
    BY <1>0, <2>2, <2>3, Budget
  <2>5. made' \in 0..MaxKeys
    BY <1>0, <2>1, <2>2, KeyAssumption DEF TypeOK, Keys
  <2>6. op' = Idle /\ open_by' \subseteq (Keys \cup {Garbled}) \X Folders
    BY <1>0, <2>1, <2>2, OpensTyped DEF End, TypeOK
  <2> QED
    BY <1>0, <1>3, <2>3, <2>4, <2>5, <2>6, StepsAre
    DEF Create, TypeInv, TypeOK, StepFits, MaybeCredential
<1> QED
  BY <1>1, <1>2, <1>3

LEMMA ErasingType ==
  ASSUME TypeInv, Erase \/ E2Main \/ E0 \/ Clean \/ E3Spare \/ E3Main \/ E3Marker
  PROVE  TypeInv'
<1>0. TypeOK /\ StepFits
  BY DEF TypeInv
<1>1. CASE Erase
  <2>1. op' \in Operation /\ op'.at = "e2_spare"
    BY <1>0, <1>1 DEF Erase, Begin, Operation, Steps, TypeOK
  <2>2. erasures' \in 0..MaxErasures
    BY <1>0, <1>1, KeyAssumption DEF Erase, TypeOK
  <2> QED
    BY <1>0, <1>1, <2>1, <2>2 DEF Erase, TypeInv, TypeOK, StepFits
<1>2. CASE E2Main
  <2>1. PICK d \in DeletesConfirmed(main) :
          /\ main' = d.left /\ Spend(d.cost)
          /\ IF d.gone THEN Go("e0") /\ erased' = 1..made ELSE End /\ UNCHANGED erased
    BY <1>2 DEF E2Main
  <2>2. main' \in MaybeCredential /\ d.cost \in Nat
    BY <1>0, <2>1, CredentialsTyped, ConfirmFacts DEF MaybeCredential
  <2>3. faults' \in 0..MaxFaults
    BY <1>0, <2>1, <2>2, Budget
  <2>4. op' = Idle \/ (op' \in Operation /\ op'.at = "e0")
    BY <1>0, <1>2, <2>1, GoFacts DEF E2Main, Steps, End
  <2>5. erased' \subseteq Keys
    <3>1. 1..made \subseteq 1..MaxKeys /\ erased \subseteq Keys
      BY <1>0, KeyAssumption DEF TypeOK
    <3>2. erased' = 1..made \/ erased' = erased
      BY <2>1
    <3> QED
      BY <3>1, <3>2 DEF Keys
  <2> QED
    BY <1>0, <1>2, <2>2, <2>3, <2>4, <2>5, StepsAre
    DEF E2Main, TypeInv, TypeOK, StepFits, MaybeCredential
<1>3. CASE E0
  <2>1. op.at = "e0" /\ op \in Operation
    BY <1>0, <1>3, OpTyped DEF E0
  <2>2. op' \in Operation /\ op'.at = "clean"
    BY <1>0, <1>3, <2>1, GoFacts DEF E0, Steps
  <2>3. faults' \in 0..MaxFaults /\ marker' \in Folders \cup {NoFolder}
    BY <1>0, <1>3, <2>1, Budget DEF E0, TypeOK, Operation
  <2> QED
    BY <1>0, <1>3, <2>2, <2>3 DEF E0, TypeInv, TypeOK, StepFits
<1>4. CASE Clean
  <2>1. op.at = "clean" /\ op \in Operation
    BY <1>0, <1>4, OpTyped DEF Clean
  <2>2. PICK c \in Cleans(op.own) :
          /\ Spend(c.cost)
          /\ data' = [data EXCEPT ![op.own] = c.data]
          /\ op' = [op EXCEPT !.at = "e3_spare", !.left = c.left]
    BY <1>4 DEF Clean
  <2>3. c.data \in {{}, data[op.own]} /\ c.cost \in Nat /\ c.left \in BOOLEAN
    BY CleanFacts
  <2>4. op' \in Operation /\ op'.at = "e3_spare"
    BY <2>1, <2>2, <2>3 DEF Operation, Steps
  <2>5. faults' \in 0..MaxFaults
    BY <1>0, <2>2, <2>3, Budget
  <2>6. data' \in [Folders -> SUBSET (Keys \cup {Garbled})]
    BY <1>0, <2>2, <2>3, CleanedTyped
  <2> QED
    BY <1>0, <1>4, <2>4, <2>5, <2>6 DEF Clean, TypeInv, TypeOK, StepFits
<1>5. CASE E3Spare
  <2>1. PICK d \in Rechecks(spare) :
          /\ spare' = d.left /\ Spend(d.cost)
          /\ IF d.gone THEN Go("e3_main") ELSE End
    BY <1>5 DEF E3Spare
  <2>2. spare' \in MaybeCredential /\ d.cost \in Nat
    BY <1>0, <2>1, CredentialsTyped, RecheckFacts DEF MaybeCredential
  <2>3. faults' \in 0..MaxFaults
    BY <1>0, <2>1, <2>2, Budget
  <2>4. op' = Idle \/ (op' \in Operation /\ op'.at = "e3_main")
    BY <1>0, <1>5, <2>1, GoFacts DEF E3Spare, Steps, End
  <2> QED
    BY <1>0, <1>5, <2>2, <2>3, <2>4, StepsAre
    DEF E3Spare, TypeInv, TypeOK, StepFits, MaybeCredential
<1>6. CASE E3Main
  <2>1. PICK d \in Rechecks(main) :
          /\ main' = d.left /\ Spend(d.cost)
          /\ IF d.gone /\ ~op.left THEN Go("e3_marker") ELSE End
    BY <1>6 DEF E3Main
  <2>2. main' \in MaybeCredential /\ d.cost \in Nat
    BY <1>0, <2>1, CredentialsTyped, RecheckFacts DEF MaybeCredential
  <2>3. faults' \in 0..MaxFaults
    BY <1>0, <2>1, <2>2, Budget
  <2>4. op' = Idle \/ (op' \in Operation /\ op'.at = "e3_marker")
    BY <1>0, <1>6, <2>1, GoFacts DEF E3Main, Steps, End
  <2> QED
    BY <1>0, <1>6, <2>2, <2>3, <2>4, StepsAre
    DEF E3Main, TypeInv, TypeOK, StepFits, MaybeCredential
<1>7. CASE E3Marker
  <2>1. op' = Idle
    BY <1>7 DEF E3Marker, End
  <2>2. faults' \in 0..MaxFaults /\ marker' \in Folders \cup {NoFolder}
    BY <1>0, <1>7, Budget DEF E3Marker, TypeOK
  <2> QED
    BY <1>0, <1>7, <2>1, <2>2, StepsAre DEF E3Marker, TypeInv, TypeOK, StepFits
<1> QED
  BY <1>1, <1>2, <1>3, <1>4, <1>5, <1>6, <1>7

LEMMA StartingAgainType ==
  ASSUME TypeInv, StartAgain \/ Settle \/ SettleMarker \/ Record
  PROVE  TypeInv'
<1>0. TypeOK /\ StepFits
  BY DEF TypeInv
<1>1. CASE StartAgain
  <2>1. op' \in Operation /\ op'.at = "settle"
    BY <1>1, KeyAssumption DEF StartAgain, Begin, Operation, Steps
  <2> QED
    BY <1>0, <1>1, <2>1 DEF StartAgain, TypeInv, TypeOK, StepFits
<1>2. CASE Settle
  <2>1. \A a \in Believed(main), b \in Believed(spare) :
          a.cost \in Nat /\ b.cost \in Nat /\ a.cost + b.cost \in Nat
    BY <1>0, CredentialsTyped, ReadFacts
  <2>2. /\ UNCHANGED faults \/ \E n \in Nat : Spend(n)
        /\ Go("record") \/ Go("settle_marker")
    BY <1>2, <2>1 DEF Settle
  <2>3. faults' \in 0..MaxFaults
    BY <1>0, <2>2, Budget
  <2>4. op' \in Operation /\ op'.at \in {"record", "settle_marker"}
    BY <1>0, <1>2, <2>2, GoFacts DEF Settle, Steps
  <2> QED
    BY <1>0, <1>2, <2>3, <2>4 DEF Settle, TypeInv, TypeOK, StepFits
<1>3. CASE SettleMarker
  <2>1. op' \in Operation /\ op'.at = "record"
    BY <1>0, <1>3, GoFacts DEF SettleMarker, Steps
  <2> QED
    BY <1>0, <1>3, <2>1 DEF SettleMarker, TypeInv, TypeOK, StepFits
<1>4. CASE Record
  <2>1. vault_dir' \in Folders /\ op' = Idle
    BY <1>0, <1>4, OpTyped DEF Record, End, Operation
  <2> QED
    BY <1>0, <1>4, <2>1, StepsAre DEF Record, TypeInv, TypeOK, StepFits
<1> QED
  BY <1>1, <1>2, <1>3, <1>4

\* What happens around the operations.
LEMMA AroundType ==
  ASSUME TypeInv,
         \/ \E f \in Folders : OpenFolder(f) \/ TakeOut(f) \/ PutBack(f)
         \/ \E h \in open_by : Seal(h) \/ Close(h)
         \/ Stop \/ Roam \/ Lose
  PROVE  TypeInv'
<1>0. TypeOK /\ StepFits
  BY DEF TypeInv
<1>1. ASSUME NEW f \in Folders, OpenFolder(f) PROVE TypeInv'
  <2>1. op' \in Operation /\ op'.at = "finish_erasure"
    BY <1>1 DEF OpenFolder, Begin, Operation, Steps
  <2> QED
    BY <1>0, <1>1, <2>1 DEF OpenFolder, TypeInv, TypeOK, StepFits
<1>2. ASSUME NEW f \in Folders, TakeOut(f) \/ PutBack(f) PROVE TypeInv'
  <2>1. away' \subseteq Folders /\ trips' \in 0..MaxTrips
    BY <1>0, <1>2, KeyAssumption DEF TakeOut, PutBack, TypeOK
  <2> QED
    BY <1>0, <1>2, <2>1 DEF TakeOut, PutBack, TypeInv, TypeOK, StepFits
<1>3. ASSUME NEW h \in open_by, Seal(h) PROVE TypeInv'
  <2>1. h[1] \in Keys \cup {Garbled} /\ h[2] \in Folders
    BY <1>0 DEF TypeOK
  <2>2. data' \in [Folders -> SUBSET (Keys \cup {Garbled})]
    BY <1>0, <1>3, <2>1 DEF Seal, TypeOK
  <2> QED
    BY <1>0, <1>3, <2>2 DEF Seal, TypeInv, TypeOK, StepFits
<1>4. ASSUME NEW h \in open_by, Close(h) PROVE TypeInv'
  BY <1>0, <1>4 DEF Close, TypeInv, TypeOK, StepFits
<1>5. CASE Stop
  <2>1. op' = Idle /\ stops' \in 0..MaxStops
    BY <1>0, <1>5, KeyAssumption DEF Stop, End, TypeOK
  <2> QED
    BY <1>0, <1>5, <2>1, StepsAre DEF Stop, TypeInv, TypeOK, StepFits
<1>6. CASE Roam \/ Lose
  <2>1. faults' \in 0..MaxFaults
    BY <1>0, <1>6, Budget, KeyAssumption DEF Roam, Lose
  <2>2. made' \in 0..MaxKeys /\ main' \in MaybeCredential
    <3>1. CASE Roam
      <4>1. made + 1 \in Keys /\ made' = made + 1
        BY <1>0, <3>1, KeyAssumption DEF Roam, TypeOK, Keys
      <4>2. [key |-> made + 1, local |-> FALSE] \in Credential
        BY <4>1 DEF Credential
      <4> QED
        BY <3>1, <4>1, <4>2, KeyAssumption DEF Roam, MaybeCredential, Keys
    <3>2. CASE Lose
      BY <1>0, <3>2 DEF Lose, TypeOK, MaybeCredential
    <3> QED
      BY <1>6, <3>1, <3>2
  <2> QED
    BY <1>0, <1>6, <2>1, <2>2, StepsAre
    DEF Roam, Lose, TypeInv, TypeOK, StepFits, MaybeCredential
<1> QED
  BY <1>1, <1>2, <1>3, <1>4, <1>5, <1>6

LEMMA NextType == TypeInv /\ [Next]_keyVars => TypeInv'
<1> SUFFICES ASSUME TypeInv, [Next]_keyVars PROVE TypeInv'
  OBVIOUS
<1>1. CASE UNCHANGED keyVars
  BY <1>1 DEF TypeInv, TypeOK, StepFits
<1>2. CASE Opening
  BY <1>2, FinishingType, RecoveringType, MovingType, MakingType DEF Opening
<1>3. CASE Erase \/ Erasing
  BY <1>3, FinishingType, ErasingType DEF Erasing
<1>4. CASE StartAgain \/ StartingAgain
  BY <1>4, StartingAgainType DEF StartingAgain
<1> QED
  BY <1>1, <1>2, <1>3, <1>4, AroundType DEF Next

(***************************************************************************)
(* The credentials, the marker, the record, the files and the operation in *)
(* progress have the shape the code gives them, whatever the store does.   *)
(***************************************************************************)
THEOREM TypeCorrect == Spec => []TypeOK
<1>1. TypeInv => TypeOK
  BY DEF TypeInv
<1> QED
  BY <1>1, InitType, NextType, PTL DEF Spec

----------------------------------------------------------------------------
(* The marker and the key *)

(***************************************************************************)
(* The store does not both ignore a delete and, asked once, deny holding   *)
(* what it did not delete: it cannot, or not that often.                   *)
(***************************************************************************)
HonestDeletes == {"no_delete", "no_entry"} \subseteq Faults => MaxFaults < 2

\* E2: what a confirmed deletion says is gone is gone.
LEMMA GoneIsGone ==
  ASSUME HonestDeletes, TypeOK, NEW c \in MaybeCredential, NEW d \in DeletesConfirmed(c),
         d.gone, Spend(d.cost)
  PROVE  d.left = NoEntry
<1>1. d.left # NoEntry => {"no_delete", "no_entry"} \subseteq Faults /\ d.cost = 2
  BY ConfirmFacts
<1>2. faults \in Nat /\ MaxFaults \in Nat /\ faults + d.cost <= MaxFaults
  BY KeyAssumption DEF TypeOK, Spend
<1> QED
  BY <1>1, <1>2 DEF HonestDeletes

\* The steps of an open after the erasure it may finish.
Before ==
  {"recover", "c2_main", "restore", "c2_spare", "read_main", "m2", "m3", "m3_again", "m4",
   "d4", "d4_spare", "d4_data", "create"}

(***************************************************************************)
(* An operation's memory of the marker is true enough to act on: one that  *)
(* may write main without reading it first knows of any marker there is.   *)
(***************************************************************************)
MarkerKnown ==
  /\ op.at \in Before => (op.pending \/ marker = NoFolder) /\ (op.seen \/ marker = NoFolder)
  /\ op.at \in {"c1_spare", "c1_clean", "c1_marker"} => op.seen
  /\ op.at = "restore" => ~op.seen
  /\ op.at \in {"d4_spare", "d4_data", "create"} => ~op.pending

\* The marker is written once the key is gone, and no key is put beside it.
KeyGone == NoKeyBesideMarker /\ (op.at = "e0" => main = NoEntry)

MarkerInv == MarkerKnown /\ (HonestDeletes => KeyGone)

\* An open that goes on as it was, main written only where there is no marker.
LEMMA GoesOn ==
  ASSUME TypeInv, MarkerInv, op.at \in Before, UNCHANGED marker, NEW at \in Before, Go(at),
         HonestDeletes => main' \in {main, NoEntry} \/ marker = NoFolder,
         at = "restore" => ~op.seen,
         at \in {"d4_spare", "d4_data", "create"} => ~op.pending
  PROVE  MarkerInv'
<1>1. at \in Steps /\ op.at # "idle"
  BY DEF Steps, Before
<1>2. op'.at = at /\ op'.seen = op.seen /\ op'.pending = op.pending
  BY <1>1, GoFacts DEF TypeInv
<1> QED
  BY <1>2 DEF MarkerInv, MarkerKnown, KeyGone, NoKeyBesideMarker, Before

\* An operation that ends, or moves to a step that relies on nothing.
LEMMA RestsThere ==
  ASSUME MarkerInv, UNCHANGED marker \/ marker' = NoFolder,
         HonestDeletes => main' \in {main, NoEntry} \/ marker = NoFolder,
         op'.at \notin Before \cup {"c1_spare", "c1_clean", "c1_marker", "e0"}
  PROVE  MarkerInv'
BY DEF MarkerInv, MarkerKnown, KeyGone, NoKeyBesideMarker, Before

LEMMA InitMarker == Init => MarkerInv
BY DEF Init, MarkerInv, MarkerKnown, KeyGone, NoKeyBesideMarker, Before, Idle

LEMMA OpeningMarker ==
  ASSUME TypeInv, MarkerInv, Opening
  PROVE  MarkerInv'
<1>0. TypeOK /\ StepFits /\ MarkerKnown /\ (HonestDeletes => NoKeyBesideMarker)
  BY DEF TypeInv, MarkerInv, KeyGone
<1>1. CASE FinishErasure
  <2>1. op.at = "finish_erasure" /\ op \in Operation
    BY <1>0, <1>1, OpTyped DEF FinishErasure
  <2>2. UNCHANGED <<main, marker>>
    BY <1>1 DEF FinishErasure
  <2>3. \/ op'.at = "recover" /\ marker = NoFolder
        \/ op'.at \in {"recover", "c1_spare", "c1_clean"} /\ op'.seen
           /\ (op'.at = "recover" => op'.pending)
    BY <1>1, <2>1 DEF FinishErasure, Go, Operation
  <2> QED
    BY <1>0, <2>2, <2>3 DEF MarkerInv, MarkerKnown, KeyGone, NoKeyBesideMarker, Before
<1>2. CASE C1Spare
  <2>1. op.at = "c1_spare" /\ UNCHANGED <<main, marker>> /\ (op' = Idle \/ Go("c1_clean"))
    BY <1>2 DEF C1Spare, DropsSpare, End
  <2>2. op'.at = "idle" \/ (op'.at = "c1_clean" /\ op'.seen = op.seen)
    BY <1>0, <2>1, GoFacts DEF Steps, Idle
  <2> QED
    BY <1>0, <2>1, <2>2 DEF MarkerInv, MarkerKnown, KeyGone, NoKeyBesideMarker, Before
<1>3. CASE C1Clean
  <2>1. op.at = "c1_clean" /\ op \in Operation /\ UNCHANGED <<main, marker>>
    BY <1>0, <1>3, OpTyped DEF C1Clean
  <2>2. \/ op'.at = "idle"
        \/ op'.at = "c1_marker" /\ op'.seen = op.seen
        \/ op'.at = "recover" /\ op'.seen = op.seen /\ op'.pending
    <3>1. CASE op' = [op EXCEPT !.at = "recover", !.pending = TRUE]
      BY <2>1, <3>1 DEF Operation
    <3>2. CASE op' = Idle
      BY <3>2 DEF Idle
    <3>3. CASE Go("c1_marker")
      BY <1>0, <2>1, <3>3, GoFacts DEF Steps
    <3> QED
      BY <1>3, <3>1, <3>2, <3>3 DEF C1Clean, End
  <2> QED
    BY <1>0, <2>1, <2>2 DEF MarkerInv, MarkerKnown, KeyGone, NoKeyBesideMarker, Before
<1>4. CASE C1Marker
  <2>1. op'.at = "recover" /\ marker' = NoFolder /\ main' = main
    BY <1>0, <1>4, GoFacts DEF C1Marker, Steps
  <2> QED
    BY <1>0, <2>1 DEF MarkerInv, MarkerKnown, KeyGone, NoKeyBesideMarker, Before
<1>5. CASE Recover
  <2>1. op.at \in Before /\ UNCHANGED <<main, marker>>
    BY <1>5 DEF Recover, Before
  <2>2. \/ Go("read_main") \/ Go("c2_spare") \/ Go("c2_main")
        \/ Go("restore") /\ ~op.seen
    BY <1>5 DEF Recover
  <2> QED
    BY <2>1, <2>2, GoesOn DEF Before
<1>6. CASE C2Main \/ Restore \/ C2Spare
  <2>1. op.at \in Before /\ UNCHANGED marker /\ (Go("c2_spare") \/ Go("read_main") \/ op' = Idle)
    BY <1>6 DEF C2Main, Restore, C2Spare, RemoveSpare, Before, End
  <2>2. HonestDeletes => main' = main \/ marker = NoFolder
    BY <1>0, <1>6
    DEF C2Main, Restore, C2Spare, StepFits, MarkerKnown, KeyGone, NoKeyBesideMarker, Before
  <2> QED
    BY <2>1, <2>2, GoesOn, RestsThere DEF Before, Idle
<1>7. CASE ReadMain \/ M2 \/ M3 \/ M3Again \/ M4
  <2>1. op.at \in Before /\ UNCHANGED marker
    BY <1>7 DEF ReadMain, M2, M3, M3Again, M4, RewritesMain, RemoveSpare, Before
  <2>2. \/ Go("d4") \/ Go("m2") \/ Go("m3") \/ Go("m4") \/ Go("m3_again")
        \/ op' = Idle
    BY <1>7 DEF ReadMain, M2, M3, M3Again, M4, RewritesMain, OpensWith, End
  <2>3. HonestDeletes => main' = main \/ marker = NoFolder
    BY <1>0, <1>7
    DEF ReadMain, M2, M3, M3Again, M4, RewritesMain, StepFits, NoKeyBesideMarker
  <2> QED
    BY <2>1, <2>2, <2>3, GoesOn, RestsThere DEF Before, Idle
<1>8. CASE D4 \/ D4Spare \/ D4Data \/ Create
  <2>1. op.at \in Before /\ UNCHANGED marker
    BY <1>8 DEF D4, D4Spare, DropsSpare, D4Data, Create, Before
  <2>2. \/ (Go("d4_data") \/ Go("d4_spare") \/ Go("create")) /\ ~op.pending
        \/ op' = Idle
    BY <1>0, <1>8 DEF D4, D4Spare, DropsSpare, D4Data, Create, OpensWith, End, MarkerKnown
  <2>3. HonestDeletes => main' = main \/ marker = NoFolder
    BY <1>0, <1>8 DEF D4, D4Spare, DropsSpare, D4Data, Create, MarkerKnown, Before
  <2> QED
    BY <2>1, <2>2, <2>3, GoesOn, RestsThere DEF Before, Idle
<1> QED
  BY <1>1, <1>2, <1>3, <1>4, <1>5, <1>6, <1>7, <1>8 DEF Opening

LEMMA ErasingMarker ==
  ASSUME TypeInv, MarkerInv, Erase \/ Erasing
  PROVE  MarkerInv'
<1>0. TypeOK /\ StepFits /\ MarkerKnown /\ (HonestDeletes => NoKeyBesideMarker)
  BY DEF TypeInv, MarkerInv, KeyGone
<1>1. CASE Erase
  BY <1>1, RestsThere DEF Erase, Begin, Before
<1>2. CASE E2Spare
  <2>1. op.at = "e2_spare" /\ UNCHANGED <<main, marker>> /\ (op' = Idle \/ Go("e2_main"))
    BY <1>2 DEF E2Spare, DropsSpare, End
  <2>2. op'.at \in {"idle", "e2_main"}
    BY <1>0, <2>1, GoFacts DEF Steps, Idle
  <2> QED
    BY <2>1, <2>2, RestsThere DEF Before
<1>3. CASE E2Main
  <2>1. PICK d \in DeletesConfirmed(main) :
          main' = d.left /\ Spend(d.cost) /\ IF d.gone THEN Go("e0") ELSE End
    BY <1>3 DEF E2Main
  <2>2. d.left \in {main, NoEntry} /\ (HonestDeletes /\ d.gone => d.left = NoEntry)
    BY <1>0, <2>1, CredentialsTyped, ConfirmFacts, GoneIsGone
  <2>3. op'.at = "idle" \/ (op'.at = "e0" /\ d.gone)
    BY <1>0, <1>3, <2>1, GoFacts DEF E2Main, Steps, End, Idle
  <2>4. UNCHANGED marker
    BY <1>3 DEF E2Main
  <2> QED
    BY <1>0, <2>1, <2>2, <2>3, <2>4 DEF MarkerInv, MarkerKnown, KeyGone, NoKeyBesideMarker, Before
<1>4. CASE E0
  <2>1. (HonestDeletes => main = NoEntry) /\ main' = main /\ op'.at = "clean"
    BY <1>0, <1>4, GoFacts DEF E0, MarkerInv, KeyGone, Steps
  <2> QED
    BY <2>1 DEF MarkerInv, MarkerKnown, KeyGone, NoKeyBesideMarker, Before
<1>5. CASE Clean
  <2>1. op \in Operation /\ UNCHANGED <<main, marker>>
    BY <1>0, <1>5, OpTyped DEF Clean
  <2>2. op'.at = "e3_spare"
    BY <1>5, <2>1 DEF Clean, Operation
  <2> QED
    BY <2>1, <2>2, RestsThere DEF Before
<1>6. CASE E3Spare
  <2>1. UNCHANGED <<main, marker>> /\ op'.at \in {"idle", "e3_main"}
    BY <1>0, <1>6, GoFacts DEF E3Spare, Steps, End, Idle
  <2> QED
    BY <2>1, RestsThere DEF Before
<1>7. CASE E3Main
  <2>1. PICK d \in Rechecks(main) : main' = d.left
    BY <1>7 DEF E3Main
  <2>2. main' \in {main, NoEntry}
    BY <1>0, <2>1, CredentialsTyped, RecheckFacts
  <2>3. UNCHANGED marker /\ op'.at \in {"idle", "e3_marker"}
    BY <1>0, <1>7, GoFacts DEF E3Main, Steps, End, Idle
  <2> QED
    BY <2>2, <2>3, RestsThere DEF Before
<1>8. CASE E3Marker
  BY <1>8, RestsThere DEF E3Marker, End, Idle, Before
<1> QED
  BY <1>1, <1>2, <1>3, <1>4, <1>5, <1>6, <1>7, <1>8 DEF Erasing

LEMMA NextMarker == TypeInv /\ MarkerInv /\ [Next]_keyVars => MarkerInv'
<1> SUFFICES ASSUME TypeInv, MarkerInv, [Next]_keyVars PROVE MarkerInv'
  OBVIOUS
<1>0. TypeOK /\ MarkerKnown /\ (HonestDeletes => KeyGone)
  BY DEF TypeInv, MarkerInv
<1>1. CASE UNCHANGED keyVars
  BY <1>1 DEF MarkerInv, MarkerKnown, KeyGone, NoKeyBesideMarker
<1>2. CASE Opening
  BY <1>2, OpeningMarker
<1>3. CASE Erase \/ Erasing
  BY <1>3, ErasingMarker
<1>4. CASE StartAgain \/ StartingAgain
  <2>1. main' = main /\ (UNCHANGED marker \/ marker' = NoFolder)
    BY <1>4 DEF StartAgain, StartingAgain, Settle, SettleMarker, Record
  <2>2. op'.at \in {"idle", "settle", "settle_marker", "record"}
    <3>1. CASE StartAgain
      BY <3>1 DEF StartAgain, Begin
    <3>2. CASE Record
      BY <3>2 DEF Record, End, Idle
    <3>3. CASE Settle
      <4>1. op.at = "settle" /\ (Go("record") \/ Go("settle_marker"))
        BY <3>3 DEF Settle
      <4> QED
        BY <1>0, <4>1, GoFacts DEF Steps
    <3>4. CASE SettleMarker
      BY <1>0, <3>4, GoFacts DEF SettleMarker, Steps
    <3> QED
      BY <1>4, <3>1, <3>2, <3>3, <3>4 DEF StartingAgain
  <2> QED
    BY <2>1, <2>2, RestsThere DEF Before
<1>5. CASE \E f \in Folders : OpenFolder(f) \/ TakeOut(f) \/ PutBack(f)
  <2>1. UNCHANGED <<main, marker>> /\ (op' = op \/ op'.at = "finish_erasure")
    BY <1>5 DEF OpenFolder, Begin, TakeOut, PutBack
  <2> QED
    BY <1>0, <2>1 DEF MarkerInv, MarkerKnown, KeyGone, NoKeyBesideMarker, Before
<1>6. CASE \E h \in open_by : Seal(h) \/ Close(h)
  BY <1>0, <1>6 DEF Seal, Close, MarkerInv, MarkerKnown, KeyGone, NoKeyBesideMarker, Before
<1>7. CASE Stop
  BY <1>7, RestsThere DEF Stop, End, Idle, Before
<1>8. CASE Roam \/ Lose
  <2>1. UNCHANGED marker /\ op'.at = "idle" /\ (HonestDeletes => main' = NoEntry \/ marker = NoFolder)
    BY <1>0, <1>8 DEF Roam, Lose, Idle, KeyGone, NoKeyBesideMarker
  <2> QED
    BY <2>1, RestsThere DEF Before
<1> QED
  BY <1>1, <1>2, <1>3, <1>4, <1>5, <1>6, <1>7, <1>8 DEF Next

(***************************************************************************)
(* No key ever stands beside an erasure's marker, whatever stops, erasures *)
(* and faults there are, where the store does not both ignore deletes and  *)
(* deny what it holds: so an open that finishes the erasure never removes  *)
(* the files of a key in force.                                            *)
(***************************************************************************)
THEOREM MarkerAlone == HonestDeletes => (Spec => []NoKeyBesideMarker)
<1> SUFFICES ASSUME HonestDeletes PROVE Spec => []NoKeyBesideMarker
  OBVIOUS
<1>1. TypeInv /\ MarkerInv /\ [Next]_keyVars => MarkerInv'
  BY NextMarker
<1>2. MarkerInv => NoKeyBesideMarker
  BY DEF MarkerInv, KeyGone
<1> QED
  BY <1>1, <1>2, InitType, NextType, InitMarker, PTL DEF Spec

----------------------------------------------------------------------------
(* The copies of the key *)

LEMMA CopiesAre ==
  /\ \A k : k \in Copies <=> \/ main # NoEntry /\ k = main.key
                             \/ spare # NoEntry /\ k = spare.key
  /\ \A k : k \in Copies' <=> \/ main' # NoEntry /\ k = main'.key
                              \/ spare' # NoEntry /\ k = spare'.key
<1>1. \A a, b, k : k \in {c.key : c \in {a, b} \ {NoEntry}}
        <=> (a # NoEntry /\ k = a.key) \/ (b # NoEntry /\ k = b.key)
  <2> TAKE a, b, k
  <2>1. k \in {c.key : c \in {a, b} \ {NoEntry}} <=> \E c \in {a, b} \ {NoEntry} : k = c.key
    BY Zenon
  <2>2. (\E c \in {a, b} \ {NoEntry} : k = c.key)
          <=> (a # NoEntry /\ k = a.key) \/ (b # NoEntry /\ k = b.key)
    <3>1. ASSUME NEW c \in {a, b} \ {NoEntry}, k = c.key
          PROVE  (a # NoEntry /\ k = a.key) \/ (b # NoEntry /\ k = b.key)
      <4>1. CASE c = a
        BY <3>1, <4>1
      <4>2. CASE c = b
        BY <3>1, <4>2
      <4> QED
        BY <4>1, <4>2
    <3>2. a # NoEntry => a \in {a, b} \ {NoEntry}
      OBVIOUS
    <3>3. b # NoEntry => b \in {a, b} \ {NoEntry}
      OBVIOUS
    <3> QED
      BY <3>1, <3>2, <3>3, Zenon
  <2> QED
    BY <2>1, <2>2, Zenon
<1> QED
  BY <1>1 DEF Copies

\* What a write leaves is what was there, what it was given, or garbled bytes.
LEMMA WrittenFrom ==
  ASSUME TypeOK, NEW c \in {main, spare}, NEW k \in Keys \cup {Garbled},
         NEW w \in Writes(c, k), NEW rest \in {main', spare'}, rest = w.left, rest # NoEntry
  PROVE  rest.key \in {c.key, k, Garbled} /\ (rest.key \notin {k, Garbled} => c # NoEntry)
BY CredentialsTyped, WriteFacts

(***************************************************************************)
(* Nothing but making a key, or another computer's replacing it, puts new  *)
(* bytes into the store, save garbled ones.                                *)
(***************************************************************************)
LEMMA CopiesStep ==
  ASSUME TypeInv, [Next]_keyVars
  PROVE  /\ made' = made \/ (made' = made + 1 /\ made < MaxKeys)
         /\ \A k \in Copies' : \/ k \in Copies \cup {Garbled}
                               \/ k = made + 1 /\ made' = made + 1
<1>0. TypeOK /\ StepFits
  BY DEF TypeInv
<1> DEFINE OnlyOld == /\ made' = made
                      /\ \A k \in Copies' : k \in Copies \cup {Garbled}
<1>1. main' \in {main, NoEntry} /\ spare' \in {spare, NoEntry} /\ made' = made => OnlyOld
  BY CopiesAre
<1>2. CASE C2Main \/ Restore \/ M3 \/ M3Again
  <2>1. PICK w \in Writes(main, spare.key) : main' = w.left
    BY <1>2 DEF C2Main, Restore, M3, M3Again, RewritesMain
  <2>2. /\ spare # NoEntry /\ spare.key \in Keys \cup {Garbled}
        /\ spare' = spare /\ made' = made
    BY <1>0, <1>2, CredentialsTyped
    DEF C2Main, Restore, M3, M3Again, RewritesMain, StepFits
  <2>3. main' # NoEntry => /\ main'.key \in {main.key, spare.key, Garbled}
                           /\ main'.key \notin {spare.key, Garbled} => main # NoEntry
    BY <1>0, <2>1, <2>2, WrittenFrom
  <2> QED
    BY <2>2, <2>3, CopiesAre
<1>3. CASE M2
  <2>1. PICK w \in Writes(spare, main.key) : spare' = w.left
    BY <1>3 DEF M2
  <2>2. /\ main # NoEntry /\ main.key \in Keys \cup {Garbled}
        /\ main' = main /\ made' = made
    BY <1>0, <1>3, CredentialsTyped DEF M2, StepFits
  <2>3. spare' # NoEntry => /\ spare'.key \in {spare.key, main.key, Garbled}
                            /\ spare'.key \notin {main.key, Garbled} => spare # NoEntry
    BY <1>0, <2>1, <2>2, WrittenFrom
  <2> QED
    BY <2>2, <2>3, CopiesAre
<1>4. CASE Create
  <2>1. PICK w \in Writes(main, made + 1) :
          main' = w.left /\ made' = IF w.left.key = made + 1 THEN made + 1 ELSE made
    BY <1>4 DEF Create
  <2>2. made < MaxKeys /\ made + 1 \in Keys /\ spare' = spare
    BY <1>0, <1>4, KeyAssumption DEF Create, StepFits, TypeOK, Keys
  <2>3. main' # NoEntry => /\ main'.key \in {main.key, made + 1, Garbled}
                           /\ main'.key \notin {made + 1, Garbled} => main # NoEntry
    BY <1>0, <2>1, <2>2, WrittenFrom
  <2> QED
    BY <2>1, <2>2, <2>3, CopiesAre
<1>5. CASE Roam
  <2>1. made < MaxKeys /\ made' = made + 1 /\ main'.key = made + 1 /\ spare' = spare
    BY <1>5 DEF Roam
  <2> QED
    BY <2>1, CopiesAre
<1>6. CASE C1Spare \/ D4Spare \/ E2Spare \/ E3Spare \/ C2Spare \/ M4
  <2>1. spare' \in {spare, NoEntry}
    <3>1. CASE C1Spare \/ D4Spare \/ E2Spare
      BY <1>0, <3>1, CredentialsTyped, ConfirmFacts DEF C1Spare, D4Spare, E2Spare, DropsSpare
    <3>2. CASE E3Spare
      BY <1>0, <3>2, CredentialsTyped, RecheckFacts DEF E3Spare
    <3>3. CASE C2Spare \/ M4
      BY <1>0, <3>3, CredentialsTyped, DeleteFacts DEF C2Spare, M4, RemoveSpare
    <3> QED
      BY <1>6, <3>1, <3>2, <3>3
  <2> QED
    BY <1>1, <1>6, <2>1 DEF C1Spare, D4Spare, E2Spare, DropsSpare, E3Spare, C2Spare, M4
<1>7. CASE E2Main \/ E3Main \/ Lose
  <2>1. main' \in {main, NoEntry}
    BY <1>0, <1>7, CredentialsTyped, ConfirmFacts, RecheckFacts DEF E2Main, E3Main, Lose
  <2> QED
    BY <1>1, <1>7, <2>1 DEF E2Main, E3Main, Lose
<1>8. CASE \/ FinishErasure \/ C1Clean \/ C1Marker \/ Recover \/ ReadMain \/ D4 \/ D4Data
           \/ Erase \/ E0 \/ Clean \/ E3Marker \/ StartAgain \/ Settle \/ SettleMarker \/ Record
  <2>1. UNCHANGED <<main, spare, made>>
    BY <1>8 DEF FinishErasure, C1Clean, C1Marker, Recover, ReadMain, D4, D4Data, Erase, E0,
                Clean, E3Marker, StartAgain, Settle, SettleMarker, Record
  <2> QED
    BY <1>1, <2>1
<1>9. CASE \/ UNCHANGED keyVars \/ Stop
           \/ \E f \in Folders : OpenFolder(f) \/ TakeOut(f) \/ PutBack(f)
           \/ \E h \in open_by : Seal(h) \/ Close(h)
  <2>1. UNCHANGED <<main, spare, made>>
    BY <1>9 DEF Stop, OpenFolder, TakeOut, PutBack, Seal, Close
  <2> QED
    BY <1>1, <2>1
<1> QED
  BY <1>2, <1>3, <1>4, <1>5, <1>6, <1>7, <1>8, <1>9
  DEF Next, Opening, Erasing, StartingAgain

\* Only a confirmed deletion of main adds to the erased keys, which it all takes.
LEMMA ErasedStep ==
  ASSUME [Next]_keyVars
  PROVE  \/ erased' = erased
         \/ E2Main /\ erased' = 1..made
BY DEF Next, Opening, Erasing, StartingAgain, FinishErasure, C1Spare, D4Spare, E2Spare, DropsSpare,
       C1Clean, C1Marker, Recover, C2Main, Restore, C2Spare, RemoveSpare, ReadMain, M2, M3, M3Again,
       RewritesMain, M4, D4, D4Data, Create, Erase, E2Main, E0, Clean, E3Spare, E3Main, E3Marker,
       StartAgain, Settle, SettleMarker, Record, OpenFolder, Seal, Close, Stop, TakeOut, PutBack,
       Roam, Lose

(***************************************************************************)
(* Every key destroyed by an erasure was made, and the spare is gone       *)
(* before main is destroyed.                                               *)
(***************************************************************************)
GoneKnown ==
  /\ erased \subseteq 1..made
  /\ op.at = "e2_main" => spare = NoEntry

GoneInv == GoneKnown /\ ErasedStaysGone

LEMMA InitGone == Init => GoneInv
<1> SUFFICES ASSUME Init PROVE GoneInv
  OBVIOUS
<1>1. erased = {} /\ op.at # "e2_main"
  BY DEF Init, Idle
<1> QED
  BY <1>1 DEF GoneInv, GoneKnown, ErasedStaysGone

\* What is destroyed was made before, so a new key is none of it.
LEMMA NotErased ==
  ASSUME TypeOK, erased \subseteq 1..made
  PROVE  Garbled \notin erased /\ Garbled \notin 1..made /\ made + 1 \notin erased
BY KeyAssumption DEF TypeOK, Garbled

\* An erased key is a key that was made, in the next state too.
LEMMA ErasedMade ==
  ASSUME TypeInv, [Next]_keyVars, erased \subseteq 1..made
  PROVE  erased' \subseteq 1..made' /\ erased \subseteq erased'
<1>1. made \in Nat /\ (made' = made \/ made' = made + 1)
  BY CopiesStep, KeyAssumption DEF TypeInv, TypeOK
<1>2. erased' = erased \/ erased' = 1..made
  BY ErasedStep
<1>3. 1..made \subseteq 1..made'
  BY <1>1
<1> QED
  BY <1>2, <1>3

\* Main's deletion begins when the spare's is confirmed, and the spare stays gone.
LEMMA BeforeE2Main ==
  ASSUME TypeOK, Next, ~E2Spare, op'.at = "e2_main"
  PROVE  op.at = "e2_main" /\ UNCHANGED spare
<1>1. CASE \/ \E f \in Folders : TakeOut(f) \/ PutBack(f)
           \/ \E h \in open_by : Seal(h) \/ Close(h)
           \/ Roam \/ Lose
  BY <1>1 DEF TakeOut, PutBack, Seal, Close, Roam, Lose, Idle
<1>2. ASSUME op.at # "idle", op \in Operation, NEW at \in Steps \ {"e2_main"}, Go(at)
      PROVE  op'.at # "e2_main"
  BY <1>2, GoFacts
<1>3. ASSUME op' = Idle PROVE op'.at # "e2_main"
  BY <1>3 DEF Idle
<1>4. CASE Erase \/ StartAgain \/ \E f \in Folders : OpenFolder(f)
  BY <1>4 DEF Erase, StartAgain, OpenFolder, Begin
<1>5. CASE Stop \/ E3Marker \/ Record \/ M4 \/ Create \/ M3Again \/ C1Clean
             \/ FinishErasure \/ Clean
  <2>1. CASE FinishErasure \/ Clean \/ C1Clean
    <3>1. op \in Operation
      BY <2>1, OpTyped DEF FinishErasure, Clean, C1Clean
    <3>2. CASE FinishErasure
      BY <3>1, <3>2 DEF FinishErasure, Go, Operation
    <3>3. CASE Clean
      BY <3>1, <3>3 DEF Clean, Operation
    <3>4. CASE C1Clean
      <4>1. CASE op' = [op EXCEPT !.at = "recover", !.pending = TRUE]
        BY <3>1, <4>1 DEF Operation
      <4>2. CASE op' = Idle \/ Go("c1_marker")
        BY <1>2, <1>3, <3>1, <3>4, <4>2 DEF C1Clean, Steps
      <4> QED
        BY <3>4, <4>1, <4>2 DEF C1Clean, End
    <3> QED
      BY <2>1, <3>2, <3>3, <3>4
  <2>2. CASE Stop \/ E3Marker \/ Record \/ M4 \/ Create
    BY <1>3, <2>2 DEF Stop, E3Marker, Record, M4, Create, OpensWith, End
  <2>3. CASE M3Again
    <3>1. op.at = "m3_again" /\ op \in Operation
      BY <2>3, OpTyped DEF M3Again, RewritesMain
    <3>2. op' = Idle \/ Go("m4")
      BY <2>3 DEF M3Again, RewritesMain, OpensWith, End
    <3> QED
      BY <1>2, <1>3, <3>1, <3>2 DEF Steps
  <2> QED
    BY <1>5, <2>1, <2>2, <2>3
<1>6. CASE C1Spare \/ D4Spare \/ C1Marker \/ Recover \/ C2Main \/ Restore \/ C2Spare
             \/ ReadMain \/ M2 \/ M3 \/ D4 \/ D4Data
             \/ E2Main \/ E0 \/ E3Spare \/ E3Main \/ Settle \/ SettleMarker
  <2>1. op.at # "idle" /\ op \in Operation
    BY <1>6, OpTyped
    DEF C1Spare, D4Spare, DropsSpare, C1Marker, Recover, C2Main, Restore, C2Spare,
        RemoveSpare, ReadMain, M2, M3, RewritesMain, D4, D4Data, E2Main, E0, E3Spare,
        E3Main, Settle, SettleMarker
  <2>2. op' = Idle \/ \E at \in Steps \ {"e2_main"} : Go(at)
    BY <1>6
    DEF C1Spare, D4Spare, DropsSpare, C1Marker, Recover, C2Main, Restore, C2Spare,
        RemoveSpare, ReadMain, M2, M3, RewritesMain, D4, D4Data, E2Main, E0, E3Spare,
        E3Main, Settle, SettleMarker, OpensWith, End, Steps
  <2> QED
    BY <1>2, <1>3, <2>1, <2>2
<1> QED
  BY <1>1, <1>4, <1>5, <1>6 DEF Next, Opening, Erasing, StartingAgain

LEMMA NextGone == HonestDeletes /\ TypeInv /\ GoneInv /\ [Next]_keyVars => GoneInv'
<1> SUFFICES ASSUME HonestDeletes, TypeInv, GoneInv, [Next]_keyVars PROVE GoneInv'
  OBVIOUS
<1>0. TypeOK /\ GoneKnown /\ ErasedStaysGone
  BY DEF TypeInv, GoneInv
<1>1. erased' \subseteq 1..made'
  BY <1>0, ErasedMade DEF GoneKnown
<1>2. op'.at = "e2_main" => spare' = NoEntry
  <2>1. CASE E2Spare
    <3>1. PICK d \in DeletesConfirmed(spare) :
            spare' = d.left /\ Spend(d.cost) /\ IF d.gone THEN Go("e2_main") ELSE End
      BY <2>1 DEF E2Spare, DropsSpare
    <3>2. d.gone => d.left = NoEntry
      BY <1>0, <3>1, CredentialsTyped, GoneIsGone
    <3> QED
      BY <3>1, <3>2 DEF End, Idle
  <2>2. CASE UNCHANGED keyVars
    BY <1>0, <2>2 DEF GoneKnown
  <2>3. CASE Next /\ ~E2Spare
    BY <1>0, <2>3, BeforeE2Main DEF GoneKnown
  <2> QED
    BY <2>1, <2>2, <2>3
<1>3. Copies' \cap erased' = {}
  <2>1. CASE erased' = erased
    <3>1. \A k \in Copies' : k \in Copies \/ k = Garbled \/ k = made + 1
      BY CopiesStep
    <3> QED
      BY <1>0, <2>1, <3>1, NotErased DEF GoneKnown, ErasedStaysGone
  <2>2. CASE E2Main /\ erased' # erased
    <3>1. PICK d \in DeletesConfirmed(main) :
            main' = d.left /\ Spend(d.cost) /\ IF d.gone THEN Go("e0") ELSE UNCHANGED erased
      BY <2>2 DEF E2Main
    <3>2. d.gone => d.left = NoEntry
      BY <1>0, <3>1, CredentialsTyped, GoneIsGone
    <3>3. main' = NoEntry /\ spare' = NoEntry
      BY <1>0, <2>2, <3>1, <3>2 DEF E2Main, GoneKnown
    <3> QED
      BY <3>3, CopiesAre
  <2> QED
    BY <2>1, <2>2, ErasedStep
<1> QED
  BY <1>1, <1>2, <1>3 DEF GoneInv, GoneKnown, ErasedStaysGone

(***************************************************************************)
(* "A key never comes back once erased" (lifecycle.rs:14): once its        *)
(* deletion is confirmed, neither credential holds it again, for any       *)
(* number of stops, faults, folders and later erasures, where the store    *)
(* does not both ignore deletes and deny what it holds.                    *)
(***************************************************************************)
THEOREM ErasedForGood == HonestDeletes => (Spec => []ErasedStaysGone)
<1> SUFFICES ASSUME HonestDeletes PROVE Spec => []ErasedStaysGone
  OBVIOUS
<1>1. TypeInv /\ GoneInv /\ [Next]_keyVars => GoneInv'
  BY NextGone
<1>2. GoneInv => ErasedStaysGone
  BY DEF GoneInv
<1> QED
  BY <1>1, <1>2, InitType, NextType, InitGone, PTL DEF Spec

----------------------------------------------------------------------------
(* What processes see of an erased key *)

(***************************************************************************)
(* The store does wrong at most twice, or does not both ignore a delete    *)
(* and deny what it did not delete.  A third time it could do so at E3 too *)
(* and the key would be back with nothing stopped.                         *)
(***************************************************************************)
FewFaults == {"no_delete", "no_entry"} \subseteq Faults => MaxFaults < 3

\* The steps of an erasure that has destroyed the key and still looks again.
LooksAgain == {"e0", "clean", "e3_spare", "e3_main"}

Survives(c) == c # NoEntry /\ c.key \in erased

(***************************************************************************)
(* While no erasure was stopped, a key survives its erasure only until the *)
(* erasure looks again, and then every fault has been spent.               *)
(***************************************************************************)
SurvivorsAreSeen ==
  stops = 0 =>
    /\ op.at = "e2_main" => spare = NoEntry \/ faults = MaxFaults
    /\ Survives(spare) => faults = MaxFaults /\ op.at \in LooksAgain \ {"e3_main"}
    /\ Survives(main) => faults = MaxFaults /\ op.at \in LooksAgain

SurvivorInv == erased \subseteq 1..made /\ SurvivorsAreSeen

\* A deletion that is believed though the credential is there takes every fault.
LEMMA GoneTakesAll ==
  ASSUME FewFaults, TypeOK, NEW c \in MaybeCredential, NEW d \in DeletesConfirmed(c),
         d.gone, d.left # NoEntry, Spend(d.cost)
  PROVE  faults' = MaxFaults
<1>1. {"no_delete", "no_entry"} \subseteq Faults /\ d.cost = 2
  BY ConfirmFacts
<1>2. faults \in Nat /\ MaxFaults \in Nat /\ faults + d.cost <= MaxFaults /\ faults' = faults + d.cost
  BY KeyAssumption DEF TypeOK, Spend
<1> QED
  BY <1>1, <1>2 DEF FewFaults

\* With every fault spent, a second look finds what is there and destroys it.
LEMMA SecondLook ==
  ASSUME TypeOK, faults = MaxFaults, NEW c \in MaybeCredential, NEW d \in Rechecks(c),
         Spend(d.cost)
  PROVE  d.gone /\ d.left = NoEntry
<1>1. d.cost = 0
  BY RecheckFacts, KeyAssumption DEF TypeOK, Spend
<1>2. PICK r \in Read(c) :
        d \in IF r.is = NoEntry THEN {[left |-> c, gone |-> TRUE, cost |-> r.cost]}
              ELSE DeletesConfirmed(c)
  BY DEF Rechecks
<1>3. CASE d = [left |-> c, gone |-> TRUE, cost |-> r.cost] /\ r.is = NoEntry
  BY <1>1, <1>3, ReadFacts
<1>4. CASE d \in DeletesConfirmed(c)
  <2>1. PICK e \in Deletes(c) : \E a \in Read(e.left) :
          d = [left |-> e.left, gone |-> a.is = NoEntry, cost |-> e.cost + a.cost]
    BY <1>4 DEF DeletesConfirmed
  <2>2. PICK a \in Read(e.left) :
          d = [left |-> e.left, gone |-> a.is = NoEntry, cost |-> e.cost + a.cost]
    BY <2>1
  <2>3. e.left \in {c, NoEntry} /\ e.cost \in Nat /\ (e.left # NoEntry => e.cost = 1)
    BY DeleteFacts
  <2>4. a.is \in {e.left, NoEntry} /\ a.cost \in Nat
    BY <2>3, ReadFacts DEF MaybeCredential
  <2>5. d.left = e.left /\ d.cost = e.cost + a.cost /\ (a.is = NoEntry => d.gone)
    BY <2>2
  <2>6. e.left = NoEntry
    BY <1>1, <2>3, <2>4, <2>5
  <2> QED
    BY <2>4, <2>5, <2>6
<1> QED
  BY <1>2, <1>3, <1>4

\* What an erasure may do at the steps where a key may survive it.
LEMMA AtErasure ==
  ASSUME TypeOK, Next, op.at \in LooksAgain \cup {"e2_main"}
  PROVE  \/ op.at = "e2_main" /\ E2Main
         \/ op.at = "e0" /\ E0
         \/ op.at = "clean" /\ Clean
         \/ op.at = "e3_spare" /\ E3Spare
         \/ op.at = "e3_main" /\ E3Main
         \/ Stop
         \/ UNCHANGED <<main, spare, op, faults, erased>>
<1>1. op # Idle
  BY DEF Idle, LooksAgain
<1>2. ~Opening
  BY DEF Opening, LooksAgain, FinishErasure, C1Spare, D4Spare, DropsSpare, C1Clean, C1Marker,
         Recover, C2Main, Restore, C2Spare, RemoveSpare, ReadMain, M2, M3, M3Again,
         RewritesMain, M4, D4, D4Data, Create
<1>3. ~StartingAgain /\ ~E2Spare /\ ~E3Marker
  BY DEF StartingAgain, LooksAgain, Settle, SettleMarker, Record, E2Spare, DropsSpare, E3Marker
<1>4. ~Erase /\ ~StartAgain /\ ~Roam /\ ~Lose
  BY <1>1 DEF Erase, StartAgain, Begin, Roam, Lose
<1>5. \A f \in Folders : ~OpenFolder(f) /\ ~TakeOut(f) /\ ~PutBack(f)
  BY <1>1 DEF OpenFolder, Begin, TakeOut, PutBack
<1>6. CASE \E h \in open_by : Seal(h) \/ Close(h)
  BY <1>6 DEF Seal, Close
<1> QED
  BY <1>2, <1>3, <1>4, <1>5, <1>6
  DEF Next, Erasing, E2Main, E0, Clean, E3Spare, E3Main

\* Stops are counted, so none until now was none before.
LEMMA StopsCounted ==
  ASSUME TypeOK, [Next]_keyVars, stops' = 0
  PROVE  stops = 0 /\ ~Stop
<1>1. stops \in Nat
  BY KeyAssumption DEF TypeOK
<1>2. Stop => stops' = stops + 1
  BY DEF Stop
<1>3. Stop \/ stops' = stops
  BY DEF Next, Opening, Erasing, StartingAgain, FinishErasure, C1Spare, D4Spare, E2Spare, DropsSpare,
       C1Clean, C1Marker, Recover, C2Main, Restore, C2Spare, RemoveSpare, ReadMain, M2, M3, M3Again,
       RewritesMain, M4, D4, D4Data, Create, Erase, E2Main, E0, Clean, E3Spare, E3Main, E3Marker,
       StartAgain, Settle, SettleMarker, Record, OpenFolder, Seal, Close, TakeOut, PutBack,
       Roam, Lose
<1> QED
  BY <1>1, <1>2, <1>3

\* The steps of an erasure keep every fault spent that was.
LEMMA AllSpentStays ==
  ASSUME TypeOK, faults = MaxFaults, UNCHANGED faults \/ \E n \in Nat : Spend(n)
  PROVE  faults' = MaxFaults
BY KeyAssumption DEF TypeOK, Spend

\* At first nothing was erased.
LEMMA InitSurvivor == Init => SurvivorInv
<1> SUFFICES ASSUME Init PROVE SurvivorInv
  OBVIOUS
<1>1. erased = {} /\ op.at # "e2_main"
  BY DEF Init, Idle
<1> QED
  BY <1>1 DEF SurvivorInv, SurvivorsAreSeen, Survives

\* Only what survived before survives, where no erasure has just destroyed the key.
LEMMA SurvivedBefore ==
  ASSUME TypeInv, [Next]_keyVars, erased \subseteq 1..made, erased' = erased
  PROVE  Survives(main)' \/ Survives(spare)' => Survives(main) \/ Survives(spare)
<1>1. ASSUME NEW k \in Copies', k \in erased PROVE Survives(main) \/ Survives(spare)
  <2>1. k \in Copies
    BY <1>1, CopiesStep, NotErased DEF TypeInv
  <2> QED
    BY <1>1, <2>1, CopiesAre DEF Survives
<1> QED
  BY <1>1, CopiesAre DEF Survives

\* Every step keeps the survivors of an erasure in sight of it.
LEMMA NextSurvivor == FewFaults /\ TypeInv /\ SurvivorInv /\ [Next]_keyVars => SurvivorInv'
<1> SUFFICES ASSUME FewFaults, TypeInv, SurvivorInv, [Next]_keyVars PROVE SurvivorInv'
  OBVIOUS
<1>1. TypeOK /\ erased \subseteq 1..made /\ erased' \subseteq 1..made'
  BY ErasedMade DEF TypeInv, SurvivorInv
<1> SUFFICES ASSUME stops' = 0 PROVE SurvivorsAreSeen'
  BY <1>1 DEF SurvivorInv, SurvivorsAreSeen
<1>2. /\ ~Stop
      /\ op.at = "e2_main" => spare = NoEntry \/ faults = MaxFaults
      /\ Survives(spare) => faults = MaxFaults /\ op.at \in LooksAgain \ {"e3_main"}
      /\ Survives(main) => faults = MaxFaults /\ op.at \in LooksAgain
  BY <1>1, StopsCounted DEF SurvivorInv, SurvivorsAreSeen
<1>3. CASE UNCHANGED <<main, spare, op, faults, erased>>
  BY <1>2, <1>3 DEF SurvivorsAreSeen, Survives
<1>4. main \in MaybeCredential /\ spare \in MaybeCredential
  BY <1>1, CredentialsTyped
<1>5. CASE E2Main
  <2>1. PICK d \in DeletesConfirmed(main) :
          /\ main' = d.left /\ Spend(d.cost)
          /\ (IF d.gone THEN Go("e0") /\ erased' = 1..made ELSE End /\ UNCHANGED erased)
    BY <1>5 DEF E2Main
  <2>2. spare' = spare /\ op.at = "e2_main" /\ d.cost \in Nat
    BY <1>4, <1>5, <2>1, ConfirmFacts DEF E2Main
  <2>3. CASE d.gone
    <3>1. op'.at = "e0"
      BY <1>1, <2>1, <2>2, <2>3, GoFacts DEF Steps
    <3>2. main' # NoEntry => faults' = MaxFaults
      BY <1>1, <1>4, <2>1, <2>3, GoneTakesAll
    <3>3. spare' # NoEntry => faults' = MaxFaults
      BY <1>1, <1>2, <2>1, <2>2, AllSpentStays
    <3> QED
      BY <3>1, <3>2, <3>3 DEF SurvivorsAreSeen, Survives, LooksAgain
  <2>4. CASE ~d.gone
    <3>1. erased' = erased /\ op'.at = "idle"
      BY <2>1, <2>4 DEF End, Idle
    <3>2. ~Survives(main) /\ ~Survives(spare)
      BY <1>2, <2>2 DEF LooksAgain
    <3> QED
      BY <1>1, <3>1, <3>2, SurvivedBefore DEF SurvivorsAreSeen
  <2> QED
    BY <2>3, <2>4
<1>6. CASE erased' = erased /\ op.at \in LooksAgain /\ ~UNCHANGED <<main, spare, op, faults, erased>>
  <2>1. \/ op.at = "e0" /\ E0
        \/ op.at = "clean" /\ Clean
        \/ op.at = "e3_spare" /\ E3Spare
        \/ op.at = "e3_main" /\ E3Main
    BY <1>1, <1>2, <1>6, AtErasure DEF LooksAgain
  <2>2. op.at # "idle" /\ op \in Operation
    BY <1>1, <1>6, OpTyped DEF LooksAgain
  <2>3. CASE op.at = "e0" /\ E0
    <3>1. op'.at = "clean" /\ UNCHANGED <<main, spare>>
      BY <1>1, <2>2, <2>3, GoFacts DEF E0, Steps
    <3>2. faults = MaxFaults => faults' = MaxFaults
      BY <1>1, <2>3, AllSpentStays DEF E0
    <3> QED
      BY <1>2, <1>6, <3>1, <3>2 DEF SurvivorsAreSeen, Survives, LooksAgain
  <2>4. CASE op.at = "clean" /\ Clean
    <3>1. op'.at = "e3_spare" /\ UNCHANGED <<main, spare>>
      BY <2>2, <2>4 DEF Clean, Operation
    <3>2. faults = MaxFaults => faults' = MaxFaults
      <4>1. \E n \in Nat : Spend(n)
        BY <2>4, CleanFacts DEF Clean
      <4> QED
        BY <1>1, <4>1, AllSpentStays
    <3> QED
      BY <1>2, <1>6, <3>1, <3>2 DEF SurvivorsAreSeen, Survives, LooksAgain
  <2>5. CASE op.at = "e3_spare" /\ E3Spare
    <3>1. PICK d \in Rechecks(spare) :
            spare' = d.left /\ Spend(d.cost) /\ IF d.gone THEN Go("e3_main") ELSE End
      BY <2>5 DEF E3Spare
    <3>2. main' = main /\ d.left \in {spare, NoEntry} /\ d.cost \in Nat
      BY <1>4, <2>5, <3>1, RecheckFacts DEF E3Spare
    <3>3. op'.at \in {"e3_main", "idle"} /\ (d.gone => op'.at = "e3_main")
      BY <1>1, <2>2, <3>1, GoFacts DEF Steps, End, Idle
    <3>4. faults = MaxFaults =>
            faults' = MaxFaults /\ spare' = NoEntry /\ op'.at = "e3_main"
      BY <1>1, <1>4, <3>1, <3>2, <3>3, SecondLook, AllSpentStays
    <3> QED
      BY <1>2, <1>6, <3>1, <3>2, <3>3, <3>4 DEF SurvivorsAreSeen, Survives, LooksAgain
  <2>6. CASE op.at = "e3_main" /\ E3Main
    <3>1. PICK d \in Rechecks(main) :
            /\ main' = d.left /\ Spend(d.cost)
            /\ (IF d.gone /\ ~op.left THEN Go("e3_marker") ELSE End)
      BY <2>6 DEF E3Main
    <3>2. spare' = spare /\ d.left \in {main, NoEntry} /\ d.cost \in Nat
      BY <1>4, <2>6, <3>1, RecheckFacts DEF E3Main
    <3>3. op'.at \in {"e3_marker", "idle"}
      BY <1>1, <2>2, <3>1, GoFacts DEF Steps, End, Idle
    <3>4. faults = MaxFaults => main' = NoEntry
      BY <1>1, <1>4, <3>1, SecondLook
    <3> QED
      BY <1>2, <1>6, <2>6, <3>1, <3>2, <3>3, <3>4 DEF SurvivorsAreSeen, Survives, LooksAgain
  <2> QED
    BY <2>1, <2>3, <2>4, <2>5, <2>6
<1>7. CASE erased' = erased /\ op.at \notin LooksAgain /\ ~E2Main
            /\ ~UNCHANGED <<main, spare, op, faults, erased>>
  <2>1. ~Survives(main)' /\ ~Survives(spare)'
    BY <1>1, <1>2, <1>7, SurvivedBefore
  <2>2. op'.at = "e2_main" => spare' = NoEntry \/ faults' = MaxFaults
    <3>1. CASE E2Spare
      <4>1. PICK d \in DeletesConfirmed(spare) :
              spare' = d.left /\ Spend(d.cost) /\ IF d.gone THEN Go("e2_main") ELSE End
        BY <3>1 DEF E2Spare, DropsSpare
      <4>2. op'.at = "e2_main" => d.gone
        BY <4>1 DEF End, Idle
      <4> QED
        BY <1>1, <1>4, <4>1, <4>2, GoneTakesAll
    <3>2. CASE Next /\ ~E2Spare /\ op'.at = "e2_main"
      <4>1. op.at = "e2_main"
        BY <1>1, <3>2, BeforeE2Main
      <4> QED
        BY <1>1, <1>2, <1>7, <3>2, <4>1, AtErasure
           DEF E0, Clean, E3Spare, E3Main
    <3> QED
      BY <1>7, <3>1, <3>2
  <2> QED
    BY <2>1, <2>2 DEF SurvivorsAreSeen
<1> QED
  BY <1>3, <1>5, <1>6, <1>7, ErasedStep

\* A process is handed what is in a credential, or a key just made.
LEMMA HandedOut ==
  ASSUME TypeOK, [Next]_keyVars, NEW h \in open_by' \ open_by
  PROVE  /\ op.at \notin LooksAgain
         /\ h[1] \in {main.key, spare.key, made + 1}
<1>1. ASSUME NEW k, OpensWith(k) PROVE h[1] = k
  BY <1>1 DEF OpensWith
<1>2. \/ UNCHANGED open_by
      \/ open_by' \subseteq open_by
      \/ op.at \in {"read_main", "m2", "m4"} /\ OpensWith(main.key)
      \/ op.at = "m3_again" /\ OpensWith(spare.key)
      \/ op.at = "create" /\ OpensWith(made + 1)
  BY DEF Next, Opening, Erasing, StartingAgain, FinishErasure, C1Spare, D4Spare, E2Spare, DropsSpare,
       C1Clean, C1Marker, Recover, C2Main, Restore, C2Spare, RemoveSpare, ReadMain, M2, M3, M3Again,
       RewritesMain, M4, D4, D4Data, Create, Erase, E2Main, E0, Clean, E3Spare, E3Main, E3Marker,
       StartAgain, Settle, SettleMarker, Record, OpenFolder, Seal, Close, Stop, TakeOut, PutBack,
       Roam, Lose
<1> QED
  BY <1>1, <1>2 DEF LooksAgain

(***************************************************************************)
(* No process is handed an erased key, though the store ignored a delete   *)
(* and then denied holding the credential, where no erasure was stopped    *)
(* midway: for any number of keys, erasures, folders and operations, while *)
(* no more goes wrong than FewFaults says.                                 *)
(***************************************************************************)
THEOREM ErasedNotHandedOut == FewFaults => (Spec => ErasedNeverOpened)
<1> SUFFICES ASSUME FewFaults PROVE Spec => ErasedNeverOpened
  OBVIOUS
<1>1. TypeInv /\ SurvivorInv /\ [Next]_keyVars
        => [stops = 0 => \A h \in open_by' \ open_by : h[1] \notin erased]_keyVars
  <2> SUFFICES ASSUME TypeInv, SurvivorInv, [Next]_keyVars, stops = 0,
                      NEW h \in open_by' \ open_by
               PROVE  h[1] \notin erased
    OBVIOUS
  <2>1. /\ TypeOK /\ op.at \notin LooksAgain
        /\ h[1] \in {main.key, spare.key, made + 1}
    BY HandedOut DEF TypeInv
  <2>2. ~Survives(main) /\ ~Survives(spare)
    BY <2>1 DEF SurvivorInv, SurvivorsAreSeen
  <2>3. NoEntry.key \notin erased /\ made + 1 \notin erased
    BY <2>1, NotErased DEF SurvivorInv, NoEntry
  <2> QED
    BY <2>1, <2>2, <2>3 DEF Survives
<1>2. TypeInv /\ SurvivorInv /\ [Next]_keyVars => SurvivorInv'
  BY NextSurvivor
<1> QED
  BY <1>1, <1>2, InitType, NextType, InitSurvivor, PTL DEF Spec, ErasedNeverOpened

----------------------------------------------------------------------------
(* No key is lost *)

(***************************************************************************)
(* The store does not deny a credential as often as the program asks, and  *)
(* no other computer's key replaces one that is not Local yet.             *)
(***************************************************************************)
StoreTells == "roamed" \notin Faults /\ ("no_entry" \in Faults => MaxFaults < Reads)

\* All the copies there are, are of keys an erasure has destroyed.
Spent == Copies \subseteq erased \cup {Garbled}

CopiesMade == Copies \subseteq (1..made) \cup {Garbled} /\ erased \subseteq 1..made

\* A spare beside a main that is not Local was written from it.
SpareOfMain ==
  main # NoEntry /\ ~main.local /\ spare # NoEntry => spare.key \in {main.key, Garbled} \cup erased

\* An erasure's marker stands beside nothing but what it destroyed.
MarkerSpent == marker # NoFolder => Spent

\* What a step of an open relies on when it writes over a copy or removes it.
Knows(at) ==
  /\ at \in {"restore", "d4", "d4_spare", "d4_data", "create"} => main = NoEntry
  /\ at \in {"d4_data", "create"} /\ spare # NoEntry => spare.key \in {Garbled} \cup erased
  /\ at = "m2" => ~main.local
  /\ at \in {"c2_main", "m3"} => main.key = spare.key
  /\ at = "m3_again" => main.key \in {spare.key, Garbled}
  /\ at \in {"c2_spare", "m4"} => spare = NoEntry \/ main.key = spare.key

\* An operation that saw a marker has only destroyed keys before it.
StepKnows ==
  /\ op.at = "finish_erasure" => ~op.seen
  /\ op.at \in {"e0", "c1_spare", "c1_clean", "c1_marker"} => Spent
  /\ op.at \in Before /\ op.seen => Spent
  /\ op.at = "d4_spare" => op.seen
  /\ Knows(op.at)

CopyInv == CopiesMade /\ SpareOfMain /\ MarkerSpent /\ StepKnows

\* R1: as many reads as Policy asks for are not all wrong.
LEMMA BelievedTrue ==
  ASSUME StoreTells, TypeOK, NEW c \in MaybeCredential, NEW a \in Believed(c),
         NEW n \in Nat, Spend(a.cost + n) \/ Spend(a.cost)
  PROVE  a.is = c
<1>1. Reads \in Nat /\ MaxFaults \in Nat /\ faults \in Nat
  BY KeyAssumption DEF TypeOK
<1>2. /\ a.is \in {c, NoEntry} /\ a.cost \in Nat
      /\ a.is = NoEntry /\ c # NoEntry => a.cost = Reads /\ "no_entry" \in Faults
  BY <1>1, AnswerFacts DEF Believed
<1> QED
  BY <1>1, <1>2 DEF StoreTells, Spend

\* No other key is made but by D4.
LEMMA MadeStep ==
  ASSUME StoreTells, [Next]_keyVars
  PROVE  made' = made \/ Create
BY DEF StoreTells, Next, Opening, Erasing, StartingAgain, FinishErasure, C1Spare, D4Spare, E2Spare,
       DropsSpare, C1Clean, C1Marker, Recover, C2Main, Restore, C2Spare, RemoveSpare, ReadMain, M2,
       M3, M3Again, RewritesMain, M4, D4, D4Data, Erase, E2Main, E0, Clean, E3Spare, E3Main,
       E3Marker, StartAgain, Settle, SettleMarker, Record, OpenFolder, Seal, Close, Stop, TakeOut,
       PutBack, Roam, Lose

\* Only an erasure writes the marker.
LEMMA MarkerStep ==
  ASSUME [Next]_keyVars
  PROVE  marker' \in {marker, NoFolder} \/ E0
BY DEF Next, Opening, Erasing, StartingAgain, FinishErasure, C1Spare, D4Spare, E2Spare, DropsSpare,
       C1Clean, C1Marker, Recover, C2Main, Restore, C2Spare, RemoveSpare, ReadMain, M2, M3, M3Again,
       RewritesMain, M4, D4, D4Data, Create, Erase, E2Main, Clean, E3Spare, E3Main, E3Marker,
       StartAgain, Settle, SettleMarker, Record, OpenFolder, Seal, Close, Stop, TakeOut, PutBack,
       Roam, Lose

\* Where no key is made, what is spent stays spent.
LEMMA SpentStays ==
  ASSUME TypeInv, CopiesMade, Spent, made' = made, [Next]_keyVars
  PROVE  Spent'
<1>1. \A k \in Copies' : k \in Copies \cup {Garbled}
  <2>1. made' # made + 1
    BY KeyAssumption DEF TypeInv, TypeOK
  <2> QED
    BY <2>1, CopiesStep
<1>2. erased \subseteq erased'
  BY ErasedMade DEF CopiesMade
<1> QED
  BY <1>1, <1>2 DEF Spent

LEMMA InitCopy == Init => CopyInv
<1> SUFFICES ASSUME Init PROVE CopyInv
  OBVIOUS
<1>1. spare = NoEntry /\ marker = NoFolder /\ op.at = "idle" /\ erased = {}
  BY DEF Init, Idle
<1>2. Copies \subseteq 1..made
  <2>1. \A k \in Copies : main # NoEntry /\ k = main.key
    BY <1>1, CopiesAre
  <2>2. main # NoEntry => main.key = 1 /\ made = 1
    BY DEF Init
  <2> QED
    BY <2>1, <2>2
<1> QED
  BY <1>1, <1>2 DEF CopyInv, CopiesMade, SpareOfMain, MarkerSpent, StepKnows, Knows, Before

LEMMA NextCopiesMade ==
  ASSUME TypeInv, CopiesMade, [Next]_keyVars
  PROVE  CopiesMade'
<1>1. erased' \subseteq 1..made'
  BY ErasedMade DEF CopiesMade
<1>2. made \in Nat /\ (made' = made \/ made' = made + 1)
  BY CopiesStep, KeyAssumption DEF TypeInv, TypeOK
<1>3. 1..made \subseteq 1..made' /\ (made' = made + 1 => made + 1 \in 1..made')
  BY <1>2
<1>4. \A k \in Copies' : k \in (1..made') \cup {Garbled}
  BY <1>3, CopiesStep DEF CopiesMade
<1> QED
  BY <1>1, <1>4 DEF CopiesMade

LEMMA NextMarkerSpent ==
  ASSUME StoreTells, TypeInv, MarkerInv, CopyInv, [Next]_keyVars
  PROVE  MarkerSpent'
<1>1. CASE E0
  BY <1>1, SpentStays, MadeStep DEF E0, CopyInv, StepKnows, MarkerSpent
<1>2. CASE marker' \in {marker, NoFolder} /\ made' = made
  BY <1>2, SpentStays DEF CopyInv, MarkerSpent
<1>3. CASE Create
  <2>1. marker' = NoFolder
    BY <1>3 DEF Create, MarkerInv, MarkerKnown, Before
  <2> QED
    BY <2>1 DEF MarkerSpent
<1> QED
  BY <1>1, <1>2, <1>3, MarkerStep, MadeStep

\* Main and the spare written over each other, or one of them removed.
LEMMA NextSpareOfMain ==
  ASSUME StoreTells, TypeInv, CopyInv, [Next]_keyVars
  PROVE  SpareOfMain'
<1>0. TypeOK /\ StepFits /\ SpareOfMain /\ Knows(op.at)
  BY DEF TypeInv, CopyInv, StepKnows
<1>1. erased \subseteq erased'
  BY ErasedMade DEF CopyInv, CopiesMade
<1>2. ASSUME main' \in {main, NoEntry}, spare' \in {spare, NoEntry}
      PROVE  SpareOfMain'
  BY <1>0, <1>1, <1>2 DEF SpareOfMain
<1>3. CASE C2Main \/ Restore \/ M3 \/ M3Again
  <2>1. PICK w \in Writes(main, spare.key) : main' = w.left
    BY <1>3 DEF C2Main, Restore, M3, M3Again, RewritesMain
  <2>2. spare # NoEntry /\ spare.key \in Keys \cup {Garbled} /\ spare' = spare
    BY <1>0, <1>3, CredentialsTyped
    DEF C2Main, Restore, M3, M3Again, RewritesMain, StepFits
  <2>3. \/ main' = main
        \/ main' # NoEntry /\ main'.key = spare.key
        \/ main' # NoEntry /\ main'.local
    <3>1. \/ w.left = main
          \/ w.left # NoEntry /\ w.left.key = spare.key
          \/ w.left # NoEntry /\ w.left.local
      <4>1. main \in MaybeCredential
        BY <1>0, CredentialsTyped
      <4>2. \/ w.left = main
            \/ w.left # NoEntry /\ w.left.key = spare.key
            \/ w.left # NoEntry /\ w.left.key = Garbled /\ w.left.local
        BY <2>2, <4>1, WriteFacts
      <4> QED
        BY <4>2
    <3> QED
      BY <2>1, <3>1, Zenon
  <2> QED
    BY <1>0, <1>1, <2>2, <2>3 DEF SpareOfMain
<1>4. CASE M2
  <2>1. PICK w \in Writes(spare, main.key) : spare' = w.left
    BY <1>4 DEF M2
  <2>2. main # NoEntry /\ main.key \in Keys \cup {Garbled} /\ main' = main
    BY <1>0, <1>4, CredentialsTyped DEF M2, StepFits
  <2>3. spare' = spare \/ spare'.key \in {main.key, Garbled}
    BY <1>0, <2>1, <2>2, CredentialsTyped, WriteFacts
  <2> QED
    BY <1>0, <1>1, <2>2, <2>3 DEF SpareOfMain
<1>5. CASE Create
  <2>1. op.at = "create" /\ spare' = spare
    BY <1>5 DEF Create
  <2> QED
    BY <1>0, <1>1, <2>1 DEF Knows, SpareOfMain
<1>6. CASE C1Spare \/ D4Spare \/ E2Spare \/ E3Spare \/ C2Spare \/ M4
  <2>1. spare' \in {spare, NoEntry}
    <3>1. CASE C1Spare \/ D4Spare \/ E2Spare
      BY <1>0, <3>1, CredentialsTyped, ConfirmFacts DEF C1Spare, D4Spare, E2Spare, DropsSpare
    <3>2. CASE E3Spare
      BY <1>0, <3>2, CredentialsTyped, RecheckFacts DEF E3Spare
    <3>3. CASE C2Spare \/ M4
      BY <1>0, <3>3, CredentialsTyped, DeleteFacts DEF C2Spare, M4, RemoveSpare
    <3> QED
      BY <1>6, <3>1, <3>2, <3>3
  <2> QED
    BY <1>2, <1>6, <2>1 DEF C1Spare, D4Spare, E2Spare, DropsSpare, E3Spare, C2Spare, M4
<1>7. CASE E2Main \/ E3Main \/ Lose
  <2>1. main' \in {main, NoEntry}
    BY <1>0, <1>7, CredentialsTyped, ConfirmFacts, RecheckFacts DEF E2Main, E3Main, Lose
  <2> QED
    BY <1>2, <1>7, <2>1 DEF E2Main, E3Main, Lose
<1>8. CASE \/ FinishErasure \/ C1Clean \/ C1Marker \/ Recover \/ ReadMain \/ D4 \/ D4Data
           \/ Erase \/ E0 \/ Clean \/ E3Marker \/ StartAgain \/ Settle \/ SettleMarker \/ Record
  <2>1. UNCHANGED <<main, spare>>
    BY <1>8 DEF FinishErasure, C1Clean, C1Marker, Recover, ReadMain, D4, D4Data, Erase, E0,
                Clean, E3Marker, StartAgain, Settle, SettleMarker, Record
  <2> QED
    BY <1>2, <2>1
<1>9. CASE \/ UNCHANGED keyVars \/ Stop
           \/ \E f \in Folders : OpenFolder(f) \/ TakeOut(f) \/ PutBack(f)
           \/ \E h \in open_by : Seal(h) \/ Close(h)
  <2>1. UNCHANGED <<main, spare>>
    BY <1>9 DEF Stop, OpenFolder, TakeOut, PutBack, Seal, Close
  <2> QED
    BY <1>2, <2>1
<1>10. ~Roam
  BY DEF Roam, StoreTells
<1> QED
  BY <1>3, <1>4, <1>5, <1>6, <1>7, <1>8, <1>9, <1>10
  DEF Next, Opening, Erasing, StartingAgain

\* An open that goes on as it was, knowing what its next step relies on.
LEMMA KnowsStill ==
  ASSUME TypeInv, CopyInv, [Next]_keyVars, made' = made,
         op.at \in Before, NEW at \in Before, Go(at), Knows(at)', at = "d4_spare" => op.seen
  PROVE  StepKnows'
<1>1. at \in Steps /\ op.at # "idle"
  BY DEF Steps, Before
<1>2. op'.at = at /\ op'.seen = op.seen
  BY <1>1, GoFacts DEF TypeInv
<1>3. op'.seen => Spent'
  BY <1>2, SpentStays DEF CopyInv, StepKnows
<1> QED
  BY <1>2, <1>3 DEF StepKnows, Before

\* An operation that ends, or is at a step that relies on nothing.
LEMMA KnowsNothing ==
  ASSUME op'.at \notin Before \cup {"finish_erasure", "e0", "c1_spare", "c1_clean", "c1_marker"}
  PROVE  StepKnows'
BY DEF StepKnows, Knows, Before

\* C1: what a marker says is destroyed stays so until the open goes on.
LEMMA FinishingKnows ==
  ASSUME StoreTells, TypeInv, CopyInv, FinishErasure \/ C1Spare \/ C1Clean \/ C1Marker
  PROVE  StepKnows'
<1>0. TypeOK /\ CopiesMade /\ MarkerSpent /\ StepKnows
  BY DEF TypeInv, CopyInv
<1>1. [Next]_keyVars /\ made' = made
  BY DEF Next, Opening, FinishErasure, C1Spare, C1Clean, C1Marker, DropsSpare
<1>2. ASSUME Spent, op'.at \in {"idle", "c1_spare", "c1_clean", "c1_marker", "recover"}
      PROVE  StepKnows'
  BY <1>0, <1>1, <1>2, SpentStays DEF StepKnows, Knows, Before
<1>3. CASE FinishErasure
  <2>1. op \in Operation
    BY <1>0, <1>3, OpTyped DEF FinishErasure
  <2>2. CASE marker = NoFolder
    <3>1. op' = [op EXCEPT !.at = "recover"]
      BY <1>3, <2>2 DEF FinishErasure, Go
    <3>2. op'.at = "recover" /\ ~op'.seen
      BY <1>0, <1>3, <2>1, <3>1 DEF Operation, FinishErasure, StepKnows
    <3> QED
      BY <3>2 DEF StepKnows, Knows, Before
  <2>3. CASE marker # NoFolder
    <3>1. op'.at \in {"recover", "c1_clean", "c1_spare"}
      BY <1>3, <2>1, <2>3 DEF FinishErasure, Go, Operation
    <3> QED
      BY <1>0, <1>2, <2>3, <3>1 DEF MarkerSpent
  <2> QED
    BY <2>2, <2>3
<1>4. CASE C1Spare \/ C1Clean \/ C1Marker
  <2>1. Spent /\ op.at # "idle"
    BY <1>0, <1>4 DEF C1Spare, DropsSpare, C1Clean, C1Marker, StepKnows
  <2>2. op'.at \in {"idle", "c1_clean", "c1_marker", "recover"}
    <3>1. CASE op' = [op EXCEPT !.at = "recover", !.pending = TRUE]
      BY <1>0, <2>1, <3>1, OpTyped DEF Operation
    <3>2. CASE op' = Idle \/ Go("c1_clean") \/ Go("c1_marker") \/ Go("recover")
      BY <1>0, <2>1, <3>2, GoFacts DEF Steps, Idle
    <3> QED
      BY <1>4, <3>1, <3>2 DEF C1Spare, DropsSpare, C1Clean, C1Marker, End
  <2> QED
    BY <1>2, <2>1, <2>2
<1> QED
  BY <1>3, <1>4

\* C2 and D5: each write is of the bytes the other credential holds.
LEMMA MovingKnows ==
  ASSUME StoreTells, TypeInv, CopyInv,
         Recover \/ C2Main \/ Restore \/ C2Spare \/ ReadMain \/ M2 \/ M3 \/ M3Again \/ M4
  PROVE  StepKnows'
<1>0. TypeOK /\ StepFits /\ Knows(op.at) /\ main \in MaybeCredential /\ spare \in MaybeCredential
  BY CredentialsTyped DEF TypeInv, CopyInv, StepKnows
<1>1. [Next]_keyVars /\ made' = made /\ op.at \in Before
  BY DEF Next, Opening, Recover, C2Main, Restore, C2Spare, RemoveSpare, ReadMain, M2, M3, M3Again,
         RewritesMain, M4, Before
<1>2. ASSUME NEW at \in Before \ {"d4_spare"}, Go(at), Knows(at)' PROVE StepKnows'
  BY <1>1, <1>2, KnowsStill
<1>3. ASSUME op' = Idle PROVE StepKnows'
  BY <1>3, KnowsNothing DEF Idle, Before
<1>4. CASE Recover
  <2>1. PICK s \in Read(spare), m \in Believed(main) :
           \/ Go("read_main")
           \/ /\ s.is # NoEntry /\ Spend(s.cost + m.cost)
              /\ \/ /\ m.is # NoEntry /\ m.is.key = spare.key
                    /\ Go("c2_spare") \/ Go("c2_main")
                 \/ /\ m.is = NoEntry
                    /\ Go("read_main") \/ Go("restore")
    BY <1>4 DEF Recover
  <2>2. UNCHANGED <<main, spare, erased>>
    BY <1>4 DEF Recover
  <2>3. s.cost \in Nat /\ m.cost \in Nat /\ s.cost + m.cost = m.cost + s.cost
    BY <1>0, ReadFacts
  <2>4. Spend(s.cost + m.cost) => m.is = main
    BY <1>0, <2>3, BelievedTrue
  <2>5. CASE Go("read_main")
    BY <1>2, <2>5 DEF Before, Knows
  <2>6. CASE (Go("c2_spare") \/ Go("c2_main")) /\ main.key = spare.key
    BY <1>2, <2>2, <2>6 DEF Before, Knows
  <2>7. CASE Go("restore") /\ main = NoEntry
    BY <1>2, <2>2, <2>7 DEF Before, Knows
  <2> QED
    BY <2>1, <2>4, <2>5, <2>6, <2>7
<1>5. CASE C2Main \/ Restore \/ M3 \/ M3Again
  <2>1. spare # NoEntry /\ spare.key \in Keys \cup {Garbled} /\ spare' = spare
    BY <1>0, <1>5, CredentialsTyped
    DEF C2Main, Restore, M3, M3Again, RewritesMain, StepFits
  <2>2. PICK w \in Writes(main, spare.key) :
          /\ main' = w.left
          /\ \/ Go("read_main") \/ op' = Idle
             \/ w.ok /\ (Go("c2_spare") \/ Go("m4"))
             \/ M3 /\ Go("m3_again")
    BY <1>5 DEF C2Main, Restore, M3, M3Again, RewritesMain, OpensWith, End
  <2>3. w.ok => main'.key = spare.key
    <3>1. w.ok => w.left = [key |-> spare.key, local |-> TRUE]
      BY <1>0, <2>1, WriteFacts
    <3> QED
      BY <2>2, <3>1
  <2>4. M3 => main'.key \in {spare.key, Garbled}
    <3>1. M3 => main.key = spare.key
      BY <1>0 DEF M3, RewritesMain, Knows
    <3>2. w.left = main \/ w.left.key \in {spare.key, Garbled}
      BY <1>0, <2>1, WriteFacts
    <3> QED
      BY <2>2, <3>1, <3>2
  <2>5. CASE Go("read_main")
    BY <1>2, <2>5 DEF Before, Knows
  <2>6. CASE w.ok /\ (Go("c2_spare") \/ Go("m4"))
    BY <1>2, <2>1, <2>3, <2>6 DEF Before, Knows
  <2>7. CASE M3 /\ Go("m3_again")
    BY <1>2, <2>1, <2>4, <2>7 DEF Before, Knows
  <2> QED
    BY <1>3, <2>2, <2>5, <2>6, <2>7
<1>6. CASE C2Spare
  BY <1>2, <1>6 DEF C2Spare, Before, Knows
<1>7. CASE ReadMain
  <2>1. PICK m \in Believed(main) :
          /\ Spend(m.cost)
          /\ \/ m.is = NoEntry /\ Go("d4")
             \/ ~main.local /\ Go("m2")
             \/ op' = Idle
    BY <1>7 DEF ReadMain, OpensWith, End
  <2>2. m.is = main
    BY <1>0, <2>1, BelievedTrue
  <2>3. main' = main
    BY <1>7 DEF ReadMain
  <2>4. CASE main = NoEntry /\ Go("d4")
    BY <1>2, <2>3, <2>4 DEF Before, Knows
  <2>5. CASE ~main.local /\ Go("m2")
    BY <1>2, <2>3, <2>5 DEF Before, Knows
  <2> QED
    BY <1>3, <2>1, <2>2, <2>4, <2>5
<1>8. CASE M2
  <2>1. main # NoEntry /\ main.key \in Keys \cup {Garbled} /\ main' = main
    BY <1>0, <1>8, CredentialsTyped DEF M2, StepFits
  <2>2. PICK w \in Writes(spare, main.key) :
          spare' = w.left /\ (op' = Idle \/ (w.ok /\ Go("m3")))
    BY <1>8 DEF M2, OpensWith, End
  <2>3. w.ok => spare'.key = main.key
    <3>1. w.ok => w.left = [key |-> main.key, local |-> TRUE]
      BY <1>0, <2>1, WriteFacts
    <3> QED
      BY <2>2, <3>1
  <2>4. CASE w.ok /\ Go("m3")
    BY <1>2, <2>1, <2>3, <2>4 DEF Before, Knows
  <2> QED
    BY <1>3, <2>2, <2>4
<1>9. CASE M4
  BY <1>3, <1>9 DEF M4, OpensWith, End
<1> QED
  BY <1>4, <1>5, <1>6, <1>7, <1>8, <1>9

\* D4: a key is made where no copy of one is, save of those destroyed.
LEMMA MakingKnows ==
  ASSUME StoreTells, TypeInv, CopyInv, D4 \/ D4Spare \/ D4Data \/ Create
  PROVE  StepKnows'
<1>0. /\ TypeOK /\ StepKnows /\ Knows(op.at)
      /\ main \in MaybeCredential /\ spare \in MaybeCredential
  BY CredentialsTyped DEF TypeInv, CopyInv, StepKnows
<1>1. [Next]_keyVars /\ op.at \in Before
  BY DEF Next, Opening, D4, D4Spare, DropsSpare, D4Data, Create, Before
<1>2. ASSUME NEW at \in Before, Go(at), Knows(at)', made' = made, at = "d4_spare" => op.seen
      PROVE  StepKnows'
  BY <1>1, <1>2, KnowsStill
<1>3. ASSUME op' = Idle PROVE StepKnows'
  BY <1>3, KnowsNothing DEF Idle, Before
<1>4. CASE D4
  <2>1. main = NoEntry /\ UNCHANGED <<main, spare, made, erased>>
    BY <1>0, <1>4 DEF D4, Knows
  <2>2. CASE \E s \in Believed(spare) : Spend(s.cost) /\ s.is = NoEntry /\ Go("d4_data")
    <3>1. spare = NoEntry /\ Go("d4_data")
      BY <1>0, <2>2, BelievedTrue
    <3> QED
      BY <1>2, <2>1, <3>1 DEF Before, Knows
  <2>3. CASE op.seen /\ Go("d4_spare")
    BY <1>2, <2>1, <2>3 DEF Before, Knows
  <2> QED
    BY <1>3, <1>4, <2>2, <2>3 DEF D4, End
<1>5. CASE D4Spare
  <2>1. PICK d \in DeletesConfirmed(spare) : spare' = d.left /\ (Go("d4_data") \/ op' = Idle)
    BY <1>5 DEF D4Spare, DropsSpare, End
  <2>2. main = NoEntry /\ UNCHANGED <<main, made, erased>> /\ op.seen
    BY <1>0, <1>5 DEF D4Spare, DropsSpare, Knows, StepKnows
  <2>3. spare' \in {spare, NoEntry}
    BY <1>0, <2>1, ConfirmFacts
  <2>4. spare' # NoEntry => spare'.key \in {Garbled} \cup erased
    BY <1>0, <1>1, <2>2, <2>3, CopiesAre DEF StepKnows, Spent
  <2>5. CASE Go("d4_data")
    BY <1>2, <2>2, <2>4, <2>5 DEF Before, Knows
  <2> QED
    BY <1>3, <2>1, <2>5
<1>6. CASE D4Data
  <2>1. /\ UNCHANGED <<main, spare, made, erased>>
        /\ Knows("create")
    BY <1>0, <1>6 DEF D4Data, Knows
  <2>2. CASE Go("create")
    BY <1>2, <2>1, <2>2 DEF Before, Knows
  <2> QED
    BY <1>3, <1>6, <2>2 DEF D4Data, End
<1>7. CASE Create
  BY <1>3, <1>7 DEF Create, OpensWith, End
<1> QED
  BY <1>4, <1>5, <1>6, <1>7

\* An erasure destroys every copy, of every key made so far.
LEMMA ErasingKnows ==
  ASSUME TypeInv, CopyInv, Erase \/ Erasing
  PROVE  StepKnows'
<1>0. TypeOK /\ CopiesMade
  BY DEF TypeInv, CopyInv
<1>1. CASE Erase
  BY <1>1, KnowsNothing DEF Erase, Begin, Before
<1>2. CASE E2Main
  <2>1. CASE op' = Idle
    BY <2>1, KnowsNothing DEF Idle, Before
  <2>2. CASE Go("e0") /\ erased' = 1..made
    <3>1. op'.at = "e0"
      BY <1>0, <1>2, <2>2, GoFacts DEF E2Main, Steps
    <3>2. made' = made /\ [Next]_keyVars
      BY <1>2 DEF E2Main, Next, Erasing
    <3>3. \A k \in Copies' : k \in (1..made) \cup {Garbled}
      BY <1>0, <3>2, NextCopiesMade DEF CopiesMade
    <3> QED
      BY <2>2, <3>1, <3>3 DEF StepKnows, Spent, Knows, Before
  <2> QED
    BY <1>2, <2>1, <2>2 DEF E2Main, End
<1>3. CASE E2Spare \/ E0 \/ E3Spare \/ E3Main \/ E3Marker
  <2>1. op.at # "idle"
    BY <1>3 DEF E2Spare, DropsSpare, E0, E3Spare, E3Main, E3Marker
  <2>2. op' = Idle \/ \E at \in {"e2_main", "clean", "e3_main", "e3_marker"} : Go(at)
    BY <1>3 DEF E2Spare, DropsSpare, E0, E3Spare, E3Main, E3Marker, End
  <2>3. op'.at \in {"idle", "e2_main", "clean", "e3_main", "e3_marker"}
    BY <1>0, <2>1, <2>2, GoFacts DEF Steps, Idle
  <2> QED
    BY <2>3, KnowsNothing DEF Before
<1>4. CASE Clean
  <2>1. op \in Operation
    BY <1>0, <1>4, OpTyped DEF Clean
  <2>2. op'.at = "e3_spare"
    BY <1>4, <2>1 DEF Clean, Operation
  <2> QED
    BY <2>2, KnowsNothing DEF Before
<1> QED
  BY <1>1, <1>2, <1>3, <1>4 DEF Erasing

LEMMA NextStepKnows ==
  ASSUME StoreTells, TypeInv, CopyInv, [Next]_keyVars
  PROVE  StepKnows'
<1>0. TypeOK /\ CopiesMade /\ StepKnows
  BY DEF TypeInv, CopyInv
<1>1. CASE UNCHANGED keyVars
  BY <1>0, <1>1 DEF StepKnows, Knows, Spent, Copies
<1>2. CASE Opening
  BY <1>2, FinishingKnows, MovingKnows, MakingKnows DEF Opening
<1>3. CASE Erase \/ Erasing
  BY <1>3, ErasingKnows
<1>4. CASE StartAgain \/ StartingAgain
  <2>1. CASE StartAgain
    BY <2>1, KnowsNothing DEF StartAgain, Begin, Before
  <2>2. CASE StartingAgain
    <3>1. op.at # "idle" /\ (op' = Idle \/ Go("record") \/ Go("settle_marker"))
      BY <2>2 DEF StartingAgain, Settle, SettleMarker, Record, End
    <3>2. op'.at \in {"idle", "record", "settle_marker"}
      BY <1>0, <3>1, GoFacts DEF Steps, Idle
    <3> QED
      BY <3>2, KnowsNothing DEF Before
  <2> QED
    BY <1>4, <2>1, <2>2
<1>5. CASE \E f \in Folders : OpenFolder(f)
  BY <1>5 DEF OpenFolder, Begin, StepKnows, Knows, Before
<1>6. CASE \/ \E f \in Folders : TakeOut(f) \/ PutBack(f)
           \/ \E h \in open_by : Seal(h) \/ Close(h)
  <2>1. UNCHANGED <<main, spare, op, made, erased>>
    BY <1>6 DEF TakeOut, PutBack, Seal, Close
  <2> QED
    BY <1>0, <2>1 DEF StepKnows, Knows, Spent, Copies
<1>7. CASE Stop \/ Roam \/ Lose
  BY <1>7, KnowsNothing DEF Stop, Roam, Lose, End, Idle, Before
<1> QED
  BY <1>1, <1>2, <1>3, <1>4, <1>5, <1>6, <1>7 DEF Next

LEMMA NextCopy == StoreTells /\ TypeInv /\ MarkerInv /\ CopyInv /\ [Next]_keyVars => CopyInv'
<1> SUFFICES ASSUME StoreTells, TypeInv, MarkerInv, CopyInv, [Next]_keyVars PROVE CopyInv'
  OBVIOUS
<1> QED
  BY NextCopiesMade, NextSpareOfMain, NextMarkerSpent, NextStepKnows DEF CopyInv

\* Whatever an open or starting again writes over or removes is somewhere else too.
LEMMA CopyKept ==
  ASSUME TypeInv, CopyInv, Opening \/ StartingAgain
  PROVE  Copies \ ({Garbled} \cup erased) \subseteq Copies'
<1>0. TypeOK /\ StepFits /\ SpareOfMain /\ StepKnows /\ Knows(op.at)
  BY DEF TypeInv, CopyInv, StepKnows
<1> SUFFICES ASSUME NEW k \in Copies, k # Garbled, k \notin erased PROVE k \in Copies'
  OBVIOUS
<1>1. ~Spent
  BY DEF Spent
<1>2. (main # NoEntry /\ k = main.key) \/ (spare # NoEntry /\ k = spare.key)
  BY CopiesAre
<1>3. CASE C1Spare \/ D4Spare
  <2>1. CASE C1Spare
    BY <1>0, <1>1, <2>1 DEF C1Spare, DropsSpare, StepKnows
  <2>2. CASE D4Spare
    BY <1>0, <1>1, <2>2 DEF D4Spare, DropsSpare, StepKnows, Before
  <2> QED
    BY <1>3, <2>1, <2>2
<1>4. CASE C2Spare \/ M4
  <2>1. main' = main /\ main # NoEntry /\ (spare = NoEntry \/ main.key = spare.key)
    BY <1>0, <1>4 DEF C2Spare, M4, RemoveSpare, StepFits, Knows
  <2> QED
    BY <1>2, <2>1, CopiesAre
<1>5. CASE C2Main \/ Restore \/ M3 \/ M3Again
  <2>1. /\ spare' = spare /\ spare # NoEntry
        /\ main # NoEntry => main.key \in {spare.key, Garbled}
    BY <1>0, <1>5 DEF C2Main, Restore, M3, M3Again, RewritesMain, StepFits, Knows
  <2> QED
    BY <1>2, <2>1, CopiesAre
<1>6. CASE M2
  <2>1. /\ main' = main /\ main # NoEntry
        /\ spare # NoEntry => spare.key \in {main.key, Garbled} \cup erased
    BY <1>0, <1>6 DEF M2, StepFits, Knows, SpareOfMain
  <2> QED
    BY <1>2, <2>1, CopiesAre
<1>7. CASE Create
  <2>1. main = NoEntry /\ spare' = spare
    BY <1>0, <1>7 DEF Create, Knows
  <2> QED
    BY <1>2, <2>1, CopiesAre
<1>8. CASE \/ FinishErasure \/ C1Clean \/ C1Marker \/ Recover \/ ReadMain \/ D4 \/ D4Data
           \/ StartingAgain
  <2>1. UNCHANGED <<main, spare>>
    BY <1>8 DEF FinishErasure, C1Clean, C1Marker, Recover, ReadMain, D4, D4Data, StartingAgain,
                Settle, SettleMarker, Record
  <2> QED
    BY <1>2, <2>1, CopiesAre
<1> QED
  BY <1>3, <1>4, <1>5, <1>6, <1>7, <1>8 DEF Opening

(***************************************************************************)
(* "A key is never lost" (lifecycle.rs:12): in no open, and in no start    *)
(* again, is the last stored copy of a key removed or written over, unless *)
(* an erasure has destroyed that key: for any number of processes stopped  *)
(* midway, writes garbled, refused or left roaming, deletes ignored and    *)
(* main credentials lost, where the store does not deny a credential as    *)
(* often as the program asks.                                              *)
(***************************************************************************)
THEOREM NeverLost == StoreTells => (Spec => LastCopyKept)
<1> SUFFICES ASSUME StoreTells PROVE Spec => LastCopyKept
  OBVIOUS
<1>1. TypeInv /\ MarkerInv /\ CopyInv /\ [Next]_keyVars => CopyInv'
  BY NextCopy
<1>2. TypeInv /\ CopyInv /\ [Next]_keyVars
        => [Opening \/ StartingAgain
              => Copies \ ({Garbled} \cup erased) \subseteq Copies']_keyVars
  BY CopyKept
<1> QED
  BY <1>1, <1>2, InitType, NextType, InitMarker, NextMarker, InitCopy, PTL
  DEF Spec, LastCopyKept

----------------------------------------------------------------------------
(* One key *)

\* The credentials do not hold two keys.
OneKey == \A j, k \in Copies \ {Garbled} : j = k

\* The key the credentials hold, as VaultKey sees it.
KeyAmong(ks) == IF ks = {} THEN 0 ELSE CHOOSE k \in ks : TRUE
HeldKey == KeyAmong(Copies \ {Garbled})

LEMMA InitOneKey == Init => OneKey /\ Promise!Init
<1> SUFFICES ASSUME Init PROVE OneKey /\ Promise!Init
  OBVIOUS
<1>1. MaxKeys \in Nat /\ MaxKeys > 0 /\ Garbled # 1
  BY KeyAssumption DEF Garbled
<1>2. CASE main = NoEntry
  <2>1. Copies \ {Garbled} = {} /\ made = 0
    BY <1>2, CopiesAre DEF Init
  <2>2. HeldKey = 0
    BY <2>1 DEF HeldKey, KeyAmong
  <2> QED
    BY <2>1, <2>2 DEF OneKey, Promise!Init, HeldKey, KeyAmong
<1>3. CASE main # NoEntry
  <2>1. main.key = 1 /\ made = 1 /\ spare = NoEntry
    BY <1>3 DEF Init
  <2>2. Copies \ {Garbled} = {1}
    BY <1>1, <1>3, <2>1, CopiesAre
  <2>3. HeldKey = 1
    BY <2>2 DEF HeldKey, KeyAmong
  <2> QED
    BY <2>1, <2>2, <2>3 DEF OneKey, Promise!Init, HeldKey, KeyAmong
<1> QED
  BY <1>2, <1>3

\* A key is made where neither credential holds one: no other step brings one in.
LEMMA KeyStep ==
  ASSUME StoreTells, TypeInv, CopyInv, GoneInv, [Next]_keyVars
  PROVE  \/ made' = made /\ Copies' \ {Garbled} \subseteq Copies \ {Garbled}
         \/ /\ made' = made + 1
            /\ Copies \ {Garbled} = {} /\ Copies' \ {Garbled} = {made + 1}
<1>0. TypeOK /\ StepFits /\ Knows(op.at) /\ ErasedStaysGone /\ made \in Nat
  BY KeyAssumption DEF TypeInv, TypeOK, CopyInv, StepKnows, GoneInv
<1>1. CASE made' = made
  <2>1. \A k \in Copies' : k \in Copies \cup {Garbled}
    BY <1>0, <1>1, CopiesStep
  <2> QED
    BY <1>1, <2>1
<1>2. CASE Create /\ made' # made
  <2>1. PICK w \in Writes(main, made + 1) :
          main' = w.left /\ made' = IF w.left.key = made + 1 THEN made + 1 ELSE made
    BY <1>2 DEF Create
  <2>2. main' # NoEntry /\ main'.key = made + 1 /\ made' = made + 1 /\ spare' = spare
    BY <1>0, <1>2, <2>1 DEF Create, NoEntry
  <2>3. main = NoEntry /\ (spare # NoEntry => spare.key \in {Garbled} \cup erased)
    BY <1>0, <1>2 DEF Create, Knows
  <2>4. spare # NoEntry => spare.key = Garbled
    BY <1>0, <2>3, CopiesAre DEF ErasedStaysGone
  <2>5. made + 1 # Garbled
    BY <1>0, <1>2, KeyAssumption DEF Create, StepFits, Garbled
  <2>6. Copies \ {Garbled} = {}
    BY <2>3, <2>4, CopiesAre
  <2>7. Copies' \ {Garbled} = {made + 1}
    BY <2>2, <2>4, <2>5, CopiesAre
  <2> QED
    BY <2>2, <2>6, <2>7
<1> QED
  BY <1>1, <1>2, MadeStep

LEMMA NextPromise ==
  ASSUME StoreTells, TypeInv, CopyInv, GoneInv, OneKey, [Next]_keyVars
  PROVE  OneKey' /\ [Promise!Next]_<<HeldKey, made>>
<1>1. CASE made' = made /\ Copies' \ {Garbled} \subseteq Copies \ {Garbled}
  <2>1. OneKey'
    BY <1>1 DEF OneKey
  <2>2. CASE Copies' \ {Garbled} = {}
    <3>1. HeldKey' = 0
      BY <2>2 DEF HeldKey, KeyAmong
    <3> QED
      BY <1>1, <2>1, <3>1 DEF Promise!Next, Promise!Destroy, HeldKey, KeyAmong
  <2>3. CASE Copies' \ {Garbled} # {}
    <3>1. Copies' \ {Garbled} = Copies \ {Garbled}
      BY <1>1, <2>3 DEF OneKey
    <3>2. HeldKey' = HeldKey
      BY <3>1, Zenon DEF HeldKey
    <3> QED
      BY <1>1, <2>1, <3>2
  <2> QED
    BY <2>2, <2>3
<1>2. CASE /\ made' = made + 1
           /\ Copies \ {Garbled} = {} /\ Copies' \ {Garbled} = {made + 1}
  <2>1. HeldKey = 0
    BY <1>2 DEF HeldKey, KeyAmong
  <2>2. HeldKey' = made + 1
    BY <1>2 DEF HeldKey, KeyAmong
  <2>3. OneKey'
    BY <1>2 DEF OneKey
  <2> QED
    BY <1>2, <2>1, <2>2, <2>3 DEF Promise!Next, Promise!Make, HeldKey, KeyAmong
<1> QED
  BY <1>1, <1>2, KeyStep

(***************************************************************************)
(* The lifecycle implements VaultKey: the two credentials hold one key or  *)
(* none, a key is made only where neither holds one and is none that       *)
(* existed before, and it stays until it is gone, however often processes  *)
(* stop midway, where the store neither confirms deletes it ignored nor    *)
(* denies a credential as often as the program asks.                       *)
(***************************************************************************)
THEOREM PromiseKept == HonestDeletes /\ StoreTells => (Spec => KeepsPromise)
<1> SUFFICES ASSUME HonestDeletes, StoreTells PROVE Spec => KeepsPromise
  OBVIOUS
<1>1. TypeInv /\ MarkerInv /\ CopyInv /\ [Next]_keyVars => CopyInv'
  BY NextCopy
<1>2. TypeInv /\ GoneInv /\ [Next]_keyVars => GoneInv'
  BY NextGone
<1>3. TypeInv /\ CopyInv /\ GoneInv /\ OneKey /\ [Next]_keyVars
        => OneKey' /\ [Promise!Next]_<<HeldKey, made>>
  BY NextPromise
<1>4. Promise!Spec <=> Promise!Init /\ [][Promise!Next]_<<HeldKey, made>>
  BY DEF Promise!Spec, HeldKey, KeyAmong
<1> QED
  BY <1>1, <1>2, <1>3, <1>4, InitType, NextType, InitMarker, NextMarker, InitCopy, InitGone,
     InitOneKey, PTL DEF Spec, KeepsPromise

----------------------------------------------------------------------------
(* The key and the vault's files *)

(***************************************************************************)
(* No process uses a folder the location record does not name, or one it   *)
(* has no lock of, and nothing but the program removes main.               *)
(***************************************************************************)
OwnHands == OpenedFolders = {} /\ ~LocklessUse /\ "lost" \notin Faults

ErasingSteps == {"e2_spare", "e2_main", "e0", "clean", "e3_spare", "e3_main", "e3_marker"}
SettlingSteps == {"settle", "settle_marker", "record"}
OpeningSteps == Before \cup {"finish_erasure", "c1_spare", "c1_clean", "c1_marker"}

\* Processes use the recorded folder only, and none does while there is no key.
InPlace ==
  /\ \A h \in open_by : h[2] = vault_dir
  /\ vault_dir \in away => open_by = {}
  /\ main = NoEntry => spare = NoEntry /\ open_by = {}

\* What the operation in progress knows of the folders.
OpInPlace ==
  /\ op.at \in OpeningSteps \cup ErasingSteps => op.own = vault_dir /\ vault_dir \notin away
  /\ op.at \in ErasingSteps => open_by = {}
  /\ op.at \in ErasingSteps \ {"e2_spare", "e2_main"} => main = NoEntry
  /\ op.at \in SettlingSteps => op.own = Default /\ data[Default] = {} /\ open_by = {}
  /\ op.at = "create" => data[op.own] = {}

\* Files and processes have no other key than k, if it is one.
Fitting(k) == k \in Keys => data[vault_dir] \subseteq {k} /\ \A h \in open_by : h[1] = k

\* Between two writes of main, which may hold other bytes, the spare fits.
Fits == Fitting(main.key) /\ (op.at = "m3_again" => Fitting(spare.key))

FitInv == InPlace /\ OpInPlace /\ Fits

LEMMA StepsParted ==
  /\ Steps = OpeningSteps \cup ErasingSteps \cup SettlingSteps
  /\ "idle" \notin OpeningSteps \cup ErasingSteps \cup SettlingSteps
  /\ OpeningSteps \cap ErasingSteps = {} /\ OpeningSteps \cap SettlingSteps = {}
  /\ ErasingSteps \cap SettlingSteps = {}
BY DEF Steps, OpeningSteps, ErasingSteps, SettlingSteps, Before

\* 0 is no key: where main is gone, everything fits.
LEMMA NothingFits == Fitting(NoEntry.key) /\ Fitting(NoEntry.key)'
BY KeyAssumption DEF Fitting, NoEntry, Keys

LEMMA InitFit == Init => FitInv
<1> SUFFICES ASSUME Init PROVE FitInv
  OBVIOUS
<1>1. op.at = "idle" /\ open_by = {} /\ away = {} /\ spare = NoEntry
  BY DEF Init, Idle
<1>2. Fitting(main.key)
  <2>1. CASE main = NoEntry
    BY <2>1, NothingFits
  <2>2. CASE main # NoEntry
    <3>1. main.key = 1 /\ data[vault_dir] = {1}
      BY <2>2, KeyAssumption DEF Init
    <3> QED
      BY <1>1, <3>1 DEF Fitting
  <2> QED
    BY <2>1, <2>2
<1> QED
  BY <1>1, <1>2, StepsParted DEF FitInv, InPlace, OpInPlace, Fits, ErasingSteps, Before

\* An open moves on in its folder or ends, and may then use the folder with a key.
OpensOn ==
  /\ op.at \in OpeningSteps
  /\ op' = Idle \/ (op'.at \in OpeningSteps /\ op'.own = op.own)
  /\ op'.at = "m3_again" => M3
  /\ op'.at = "create" => data[op.own] = {} /\ UNCHANGED <<data, open_by>>
  /\ \/ UNCHANGED open_by
     \/ \E k \in {main.key, spare.key, made + 1} : open_by' = open_by \cup {<<k, op.own>>}
  /\ UNCHANGED place

LEMMA OpeningMoves ==
  ASSUME TypeInv, Opening
  PROVE  OpensOn
<1>0. TypeOK
  BY DEF TypeInv
<1>1. ASSUME op.at \in OpeningSteps, NEW at \in OpeningSteps, Go(at)
      PROVE  op'.at = at /\ op'.own = op.own
  BY <1>0, <1>1, GoFacts, StepsParted
<1>2. Idle.at \notin {"m3_again", "create"}
  BY DEF Idle
<1>3. CASE FinishErasure \/ C1Clean
  <2>1. /\ op.at \in {"finish_erasure", "c1_clean"} /\ op \in Operation
        /\ UNCHANGED <<open_by, place>>
    BY <1>0, <1>3, OpTyped DEF FinishErasure, C1Clean
  <2>2. \/ op' = Idle
        \/ op'.at \in {"recover", "c1_spare", "c1_clean", "c1_marker"} /\ op'.own = op.own
    <3>1. CASE FinishErasure
      BY <2>1, <3>1 DEF FinishErasure, Go, Operation
    <3>2. CASE C1Clean
      BY <2>1, <3>2 DEF C1Clean, Go, End, Operation
    <3> QED
      BY <1>3, <3>1, <3>2
  <2> QED
    BY <1>2, <2>1, <2>2 DEF OpensOn, OpeningSteps, Before
<1>4. CASE C1Spare \/ C1Marker \/ Recover \/ C2Main \/ Restore \/ C2Spare \/ D4 \/ D4Spare
  <2>1. /\ op.at \in {"c1_spare", "c1_marker", "recover", "c2_main", "restore", "c2_spare",
                      "d4", "d4_spare"}
        /\ UNCHANGED <<open_by, place>>
        /\ op' = Idle \/ \E at \in {"c1_clean", "recover", "read_main", "c2_spare", "c2_main",
                                    "restore", "d4_data", "d4_spare"} : Go(at)
    BY <1>4 DEF C1Spare, D4Spare, DropsSpare, C1Marker, Recover, C2Main, Restore, C2Spare,
                RemoveSpare, D4, End
  <2>2. \/ op' = Idle
        \/ /\ op'.at \in {"c1_clean", "recover", "read_main", "c2_spare", "c2_main",
                          "restore", "d4_data", "d4_spare"}
           /\ op'.own = op.own
    BY <1>1, <2>1 DEF OpeningSteps, Before
  <2> QED
    BY <1>2, <2>1, <2>2 DEF OpensOn, OpeningSteps, Before
<1>5. CASE ReadMain \/ M2 \/ M4 \/ M3Again
  <2>1. /\ op.at \in {"read_main", "m2", "m4", "m3_again"}
        /\ UNCHANGED place
        /\ \/ op' = Idle /\ \E k \in {main.key, spare.key} : open_by' = open_by \cup {<<k, op.own>>}
           \/ UNCHANGED open_by /\ \E at \in {"d4", "m2", "m3", "m4"} : Go(at)
    BY <1>5 DEF ReadMain, M2, M4, RemoveSpare, M3Again, RewritesMain, OpensWith, End
  <2>2. \/ op' = Idle
        \/ op'.at \in {"d4", "m2", "m3", "m4"} /\ op'.own = op.own
    BY <1>1, <2>1 DEF OpeningSteps, Before
  <2> QED
    BY <1>2, <2>1, <2>2 DEF OpensOn, OpeningSteps, Before
<1>6. CASE M3
  <2>1. /\ op.at = "m3" /\ UNCHANGED <<open_by, place>>
        /\ \E at \in {"m4", "m3_again"} : Go(at)
    BY <1>6 DEF M3, RewritesMain
  <2>2. op'.at \in {"m4", "m3_again"} /\ op'.own = op.own
    BY <1>1, <2>1 DEF OpeningSteps, Before
  <2> QED
    BY <1>6, <2>1, <2>2 DEF OpensOn, OpeningSteps, Before
<1>7. CASE D4Data
  <2>1. /\ op.at = "d4_data" /\ UNCHANGED <<data, open_by, place>>
        /\ op' = Idle \/ (Go("create") /\ data[op.own] = {})
    BY <1>7 DEF D4Data, End
  <2>2. op' = Idle \/ (op'.at = "create" /\ op'.own = op.own /\ data[op.own] = {})
    BY <1>1, <2>1 DEF OpeningSteps, Before
  <2> QED
    BY <1>2, <2>1, <2>2 DEF OpensOn, OpeningSteps, Before
<1>8. CASE Create
  <2>1. /\ op.at = "create" /\ UNCHANGED place /\ op' = Idle
        /\ UNCHANGED open_by \/ open_by' = open_by \cup {<<made + 1, op.own>>}
    BY <1>8 DEF Create, OpensWith, End
  <2> QED
    BY <1>2, <2>1 DEF OpensOn, OpeningSteps, Before
<1> QED
  BY <1>3, <1>4, <1>5, <1>6, <1>7, <1>8 DEF Opening

\* An open leaves main where it is, or writes bytes over it that fit as well.
OpenWrites ==
  /\ main # NoEntry => main' # NoEntry
  /\ main' = NoEntry => spare' \in {spare, NoEntry} /\ UNCHANGED open_by
  /\ \A f \in Folders : data'[f] \subseteq data[f]

LEMMA OpeningWrites ==
  ASSUME StoreTells, TypeInv, CopyInv, InPlace, Opening
  PROVE  OpenWrites
<1>0. TypeOK /\ StepFits /\ Knows(op.at) /\ main \in MaybeCredential /\ spare \in MaybeCredential
  BY CredentialsTyped DEF TypeInv, CopyInv, StepKnows
<1>1. CASE C1Clean
  <2>1. PICK c \in Cleans(marker) : data' = [data EXCEPT ![marker] = c.data]
    BY <1>1 DEF C1Clean
  <2>2. c.data \in {{}, data[marker]}
    BY CleanFacts
  <2>3. \A f \in Folders : data'[f] \subseteq data[f]
    BY <1>0, <2>1, <2>2 DEF TypeOK
  <2> QED
    BY <1>1, <2>3 DEF C1Clean, OpenWrites
<1>2. CASE C1Spare \/ D4Spare \/ C2Spare
  <2>1. spare' \in {spare, NoEntry}
    BY <1>0, <1>2, ConfirmFacts, DeleteFacts DEF C1Spare, D4Spare, DropsSpare, C2Spare, RemoveSpare
  <2> QED
    BY <1>2, <2>1 DEF C1Spare, D4Spare, DropsSpare, C2Spare, OpenWrites
<1>3. CASE C2Main \/ M3 \/ M3Again
  <2>1. main # NoEntry /\ spare.key \in Keys \cup {Garbled} /\ UNCHANGED data
    BY <1>0, <1>3, CredentialsTyped DEF C2Main, M3, M3Again, RewritesMain, StepFits
  <2>2. PICK w \in Writes(main, spare.key) : main' = w.left
    BY <1>3 DEF C2Main, M3, M3Again, RewritesMain
  <2>3. main' # NoEntry
    BY <1>0, <2>1, <2>2, WriteFacts
  <2> QED
    BY <2>1, <2>3 DEF OpenWrites
<1>4. ~Restore
  BY <1>0 DEF Restore, StepFits, Knows, InPlace
<1>5. CASE M2 \/ M4
  BY <1>0, <1>5 DEF M2, M4, RemoveSpare, StepFits, OpenWrites
<1>6. CASE Create
  <2>1. PICK w \in Writes(main, made + 1) :
          main' = w.left /\ (w.ok \/ UNCHANGED open_by)
    BY <1>6 DEF Create
  <2>2. main = NoEntry /\ made + 1 \in Keys /\ UNCHANGED <<spare, data>>
    BY <1>0, <1>6, KeyAssumption DEF Create, Knows, StepFits, TypeOK, Keys
  <2>3. w.ok => main' # NoEntry
    BY <1>0, <2>1, <2>2, WriteFacts
  <2> QED
    BY <2>1, <2>2, <2>3 DEF OpenWrites
<1>7. CASE ReadMain
  <2>1. main # NoEntry \/ UNCHANGED open_by
    <3>1. PICK m \in Believed(main) : m.is # NoEntry \/ UNCHANGED open_by
      BY <1>7 DEF ReadMain
    <3>2. m.is \in {main, NoEntry}
      BY <1>0, ReadFacts
    <3> QED
      BY <3>1, <3>2
  <2> QED
    BY <1>7, <2>1 DEF ReadMain, OpenWrites
<1>8. CASE FinishErasure \/ C1Marker \/ Recover \/ D4 \/ D4Data
  BY <1>8 DEF FinishErasure, C1Marker, Recover, D4, D4Data, OpenWrites
<1> QED
  BY <1>1, <1>2, <1>3, <1>4, <1>5, <1>6, <1>7, <1>8 DEF Opening

LEMMA OpeningInPlace ==
  ASSUME StoreTells, TypeInv, CopyInv, InPlace, OpInPlace, Opening
  PROVE  InPlace' /\ OpInPlace'
<1>0. OpensOn /\ OpenWrites
  BY OpeningMoves, OpeningWrites
<1>1. op.own = vault_dir /\ vault_dir \notin away /\ UNCHANGED place
  BY <1>0 DEF OpInPlace, OpensOn
<1>2. \A h \in open_by' : h[2] = vault_dir'
  BY <1>0, <1>1 DEF InPlace, OpensOn
<1>3. main' = NoEntry => spare' = NoEntry /\ open_by' = {}
  BY <1>0 DEF InPlace, OpenWrites
<1>4. InPlace'
  BY <1>1, <1>2, <1>3 DEF InPlace
<1>5. CASE op' = Idle
  BY <1>4, <1>5, StepsParted DEF OpInPlace, Idle, OpeningSteps, Before
<1>6. CASE op'.at \in OpeningSteps /\ op'.own = op.own
  BY <1>0, <1>1, <1>4, <1>6, StepsParted DEF OpInPlace, OpensOn
<1> QED
  BY <1>0, <1>5, <1>6, <1>4 DEF OpensOn

\* An erasure goes on, with nobody in the folder and main gone once it was confirmed.
LEMMA ErasingInPlace ==
  ASSUME HonestDeletes, TypeInv, GoneInv, InPlace, OpInPlace, Erasing
  PROVE  InPlace' /\ OpInPlace'
<1>0. /\ TypeOK /\ GoneKnown
      /\ main \in MaybeCredential /\ spare \in MaybeCredential
  BY CredentialsTyped DEF TypeInv, GoneInv
<1>1. op.at \in ErasingSteps /\ UNCHANGED <<open_by, place>>
  BY DEF Erasing, E2Spare, DropsSpare, E2Main, E0, Clean, E3Spare, E3Main, E3Marker, ErasingSteps
<1>2. op.own = vault_dir /\ vault_dir \notin away /\ open_by = {} /\ op \in Operation
  BY <1>0, <1>1, OpTyped, StepsParted DEF OpInPlace
<1>3. \/ op' = Idle
      \/ op'.at \in ErasingSteps /\ op'.own = op.own
  <2>1. ASSUME NEW at \in ErasingSteps, Go(at) PROVE op'.at = at /\ op'.own = op.own
    BY <1>0, <1>1, <2>1, GoFacts, StepsParted
  <2>2. CASE Clean
    BY <1>2, <2>2 DEF Clean, Operation, ErasingSteps
  <2>3. CASE E2Spare \/ E2Main \/ E0 \/ E3Spare \/ E3Main \/ E3Marker
    <3>1. op' = Idle \/ \E at \in ErasingSteps : Go(at)
      BY <2>3 DEF E2Spare, DropsSpare, E2Main, E0, E3Spare, E3Main, E3Marker, End, ErasingSteps
    <3> QED
      BY <2>1, <3>1
  <2> QED
    BY <2>2, <2>3 DEF Erasing
<1>4. /\ main' \in {main, NoEntry} /\ spare' \in {spare, NoEntry}
      /\ main' # main => E3Main \/ (E2Main /\ spare = NoEntry)
      /\ op'.at \in ErasingSteps \ {"e2_spare", "e2_main"} => main' = NoEntry
  <2>1. CASE E2Main
    <3>1. PICK d \in DeletesConfirmed(main) :
            main' = d.left /\ Spend(d.cost) /\ IF d.gone THEN Go("e0") ELSE End
      BY <2>1 DEF E2Main
    <3>2. d.left \in {main, NoEntry} /\ (d.gone => d.left = NoEntry)
      BY <1>0, <3>1, ConfirmFacts, GoneIsGone
    <3>3. op'.at \in ErasingSteps => d.gone
      BY <3>1, StepsParted DEF End, Idle
    <3> QED
      BY <1>0, <2>1, <3>1, <3>2, <3>3 DEF E2Main, GoneKnown
  <2>2. CASE E2Spare
    <3>1. spare' \in {spare, NoEntry} /\ main' = main
      BY <1>0, <2>2, ConfirmFacts DEF E2Spare, DropsSpare
    <3>2. op' = Idle \/ op'.at = "e2_main"
      BY <1>0, <2>2, GoFacts DEF E2Spare, DropsSpare, End, Steps
    <3> QED
      BY <3>1, <3>2, StepsParted DEF Idle
  <2>3. CASE E0 \/ Clean \/ E3Spare \/ E3Main \/ E3Marker
    <3>1. main = NoEntry
      BY <2>3 DEF E0, Clean, E3Spare, E3Main, E3Marker, OpInPlace, ErasingSteps
    <3>2. main' = main /\ spare' \in {spare, NoEntry}
      BY <1>0, <2>3, <3>1, RecheckFacts DEF E0, Clean, E3Spare, E3Main, E3Marker
    <3> QED
      BY <3>1, <3>2
  <2> QED
    BY <2>1, <2>2, <2>3 DEF Erasing
<1>5. main' = NoEntry => spare' = NoEntry
  <2>1. CASE E3Main
    BY <2>1, <1>4 DEF E3Main, OpInPlace, ErasingSteps, InPlace
  <2> QED
    BY <1>4, <2>1 DEF InPlace
<1>6. InPlace'
  BY <1>1, <1>2, <1>5 DEF InPlace
<1>7. CASE op' = Idle
  BY <1>6, <1>7, StepsParted DEF OpInPlace, Idle, OpeningSteps, Before
<1>8. CASE op'.at \in ErasingSteps /\ op'.own = op.own
  <2>1. op'.at # "create"
    BY <1>8 DEF ErasingSteps
  <2> QED
    BY <1>1, <1>2, <1>4, <1>6, <1>8, <2>1, StepsParted DEF OpInPlace
<1> QED
  BY <1>3, <1>7, <1>8

\* Nobody uses the folder that starting again leaves, nor the one it takes.
LEMMA SettlingInPlace ==
  ASSUME TypeInv, InPlace, OpInPlace, StartAgain \/ StartingAgain
  PROVE  InPlace' /\ OpInPlace'
<1>0. TypeOK
  BY DEF TypeInv
<1>1. CASE StartAgain
  <2>1. /\ op'.at = "settle" /\ op'.own = Default /\ data[Default] = {} /\ open_by = {}
        /\ UNCHANGED <<main, spare, data, place, open_by>>
    BY <1>1 DEF StartAgain, Begin, InPlace
  <2> QED
    BY <2>1, StepsParted DEF InPlace, OpInPlace, SettlingSteps
<1>2. CASE Settle \/ SettleMarker
  <2>1. UNCHANGED <<main, spare, data, place, open_by>>
    BY <1>2 DEF Settle, SettleMarker
  <2>2. op.at \in SettlingSteps
    BY <1>2 DEF Settle, SettleMarker, SettlingSteps
  <2>3. op'.at \in {"record", "settle_marker"} /\ op'.own = op.own
    <3>1. Go("record") \/ Go("settle_marker")
      BY <1>2 DEF Settle, SettleMarker
    <3> QED
      BY <1>0, <2>2, <3>1, GoFacts, StepsParted DEF SettlingSteps
  <2> QED
    BY <2>1, <2>2, <2>3, StepsParted DEF InPlace, OpInPlace, SettlingSteps
<1>3. CASE Record
  <2>1. op' = Idle /\ open_by = {} /\ UNCHANGED <<main, spare, data, away, open_by>>
    BY <1>3 DEF Record, End, OpInPlace, SettlingSteps
  <2> QED
    BY <2>1, StepsParted DEF InPlace, OpInPlace, Idle, Before
<1> QED
  BY <1>1, <1>2, <1>3 DEF StartingAgain

\* Folders are begun in, taken out and put back while no operation is in progress.
LEMMA AroundInPlace ==
  ASSUME OwnHands, StoreTells, TypeInv, CopyInv, InPlace, OpInPlace,
         \/ Erase \/ Stop \/ Roam \/ Lose
         \/ \E f \in Folders : OpenFolder(f) \/ TakeOut(f) \/ PutBack(f)
         \/ \E h \in open_by : Seal(h) \/ Close(h)
  PROVE  InPlace' /\ OpInPlace'
<1>0. TypeOK
  BY DEF TypeInv
<1>1. CASE Erase
  <2>1. /\ op'.at = "e2_spare" /\ op'.own = vault_dir /\ vault_dir \notin away /\ open_by = {}
        /\ UNCHANGED <<main, spare, data, place, open_by>>
    BY <1>1 DEF Erase, Begin, InUse, OwnHands, InPlace
  <2>2. "e2_spare" \in ErasingSteps
    BY DEF ErasingSteps
  <2> QED
    BY <2>1, <2>2, StepsParted DEF InPlace, OpInPlace
<1>2. CASE Stop
  <2>1. op' = Idle /\ UNCHANGED <<main, spare, data, place, open_by>>
    BY <1>2 DEF Stop, End
  <2> QED
    BY <2>1, StepsParted DEF InPlace, OpInPlace, Idle, Before
<1>3. ~Roam /\ ~Lose
  BY DEF Roam, Lose, StoreTells, OwnHands
<1>4. ASSUME NEW f \in Folders, OpenFolder(f) PROVE InPlace' /\ OpInPlace'
  <2>1. /\ op'.at = "finish_erasure" /\ op'.own = vault_dir /\ vault_dir \notin away
        /\ UNCHANGED <<main, spare, data, place, open_by>>
    BY <1>4 DEF OpenFolder, Begin, OwnHands
  <2>2. "finish_erasure" \in OpeningSteps
    BY DEF OpeningSteps
  <2> QED
    BY <2>1, <2>2, StepsParted DEF InPlace, OpInPlace
<1>5. ASSUME NEW f \in Folders, TakeOut(f) \/ PutBack(f) PROVE InPlace' /\ OpInPlace'
  <2>1. /\ op' = Idle /\ UNCHANGED <<main, spare, data, vault_dir, open_by>>
        /\ vault_dir \in away' => vault_dir \in away \/ ~InUse(vault_dir)
    BY <1>5 DEF TakeOut, PutBack
  <2>2. ~InUse(vault_dir) => open_by = {}
    BY DEF InPlace, InUse
  <2> QED
    BY <2>1, <2>2, StepsParted DEF InPlace, OpInPlace, Idle, Before
<1>6. ASSUME NEW h \in open_by, Seal(h) \/ Close(h) PROVE InPlace' /\ OpInPlace'
  <2>1. UNCHANGED <<main, spare, place, op>> /\ open_by' \subseteq open_by
    BY <1>6 DEF Seal, Close
  <2>2. main # NoEntry /\ op.at \notin SettlingSteps
    BY DEF InPlace, OpInPlace
  <2>3. op.at = "create" => data'[op.own] = {}
    <3>1. CASE Close(h)
      BY <3>1 DEF Close, OpInPlace
    <3>2. CASE Seal(h) /\ op.at = "create"
      <4>1. FALSE
        BY <3>2, <2>2 DEF CopyInv, StepKnows, Knows
      <4> QED
        BY <4>1
    <3> QED
      BY <1>6, <3>1, <3>2
  <2> QED
    BY <2>1, <2>2, <2>3 DEF InPlace, OpInPlace
<1> QED
  BY <1>1, <1>2, <1>3, <1>4, <1>5, <1>6

LEMMA NextInPlace ==
  ASSUME OwnHands, HonestDeletes, StoreTells, TypeInv, CopyInv, GoneInv, InPlace, OpInPlace,
         [Next]_keyVars
  PROVE  InPlace' /\ OpInPlace'
<1>1. CASE UNCHANGED keyVars
  BY <1>1 DEF InPlace, OpInPlace
<1>2. CASE Opening
  BY <1>2, OpeningInPlace
<1>3. CASE Erasing
  BY <1>3, ErasingInPlace
<1>4. CASE StartAgain \/ StartingAgain
  BY <1>4, SettlingInPlace
<1> QED
  BY <1>1, <1>2, <1>3, <1>4, AroundInPlace DEF Next

\* Fewer files, fewer processes, and one that gets the key itself, still fit.
LEMMA FitStays ==
  ASSUME NEW k, Fitting(k), data'[vault_dir'] \subseteq data[vault_dir],
         \A h \in open_by' \ open_by : h[1] = k
  PROVE  Fitting(k)'
BY DEF Fitting

\* A step that leaves main keeps what fits it.
LEMMA MainStays ==
  ASSUME Fits, UNCHANGED main, data'[vault_dir'] \subseteq data[vault_dir],
         \A h \in open_by' \ open_by : h[1] = main.key, op'.at # "m3_again"
  PROVE  Fits'
<1>1. Fitting(main.key)'
  BY DEF Fits, Fitting
<1> QED
  BY <1>1 DEF Fits

\* Each write of main is of the key it had, or of a new one over nothing.
LEMMA OpeningFits ==
  ASSUME StoreTells, TypeInv, CopyInv, InPlace, OpInPlace, Fits, Opening
  PROVE  Fits'
<1>0. /\ TypeOK /\ StepFits /\ Knows(op.at) /\ main \in MaybeCredential /\ spare \in MaybeCredential
      /\ OpensOn /\ OpenWrites /\ vault_dir \in Folders
  BY CredentialsTyped, OpeningMoves, OpeningWrites DEF TypeInv, TypeOK, CopyInv, StepKnows
<1>1. data'[vault_dir'] \subseteq data[vault_dir] /\ vault_dir' = vault_dir
  BY <1>0 DEF OpensOn, OpenWrites
<1>2. CASE \/ FinishErasure \/ C1Spare \/ C1Clean \/ C1Marker \/ Recover \/ C2Spare
           \/ ReadMain \/ M2 \/ M4 \/ D4 \/ D4Spare \/ D4Data
  <2>1. main' = main /\ (UNCHANGED open_by \/ OpensWith(main.key))
    BY <1>2 DEF FinishErasure, C1Spare, C1Clean, C1Marker, Recover, C2Spare, ReadMain, M2, M4,
                D4, D4Spare, D4Data, DropsSpare
  <2>3. \A h \in open_by' \ open_by : h[1] = main.key
    BY <2>1 DEF OpensWith
  <2>2. op'.at # "m3_again"
    <3>1. ~M3
      BY <1>2 DEF FinishErasure, C1Spare, C1Clean, C1Marker, Recover, C2Spare, ReadMain, M2, M4,
                  D4, D4Spare, D4Data, DropsSpare, RemoveSpare, M3, RewritesMain
    <3> QED
      BY <1>0, <3>1 DEF OpensOn
  <2> QED
    BY <1>1, <2>1, <2>2, <2>3, MainStays
<1>3. CASE C2Main \/ M3 \/ M3Again
  <2>1. /\ main # NoEntry /\ spare' = spare /\ spare.key \in Keys \cup {Garbled}
        /\ main.key = spare.key \/ M3Again
        /\ \A h \in open_by' \ open_by : h[1] = spare.key
    BY <1>0, <1>3, CredentialsTyped
    DEF C2Main, M3, M3Again, RewritesMain, OpensWith, StepFits, Knows
  <2>2. PICK w \in Writes(main, spare.key) : main' = w.left
    BY <1>3 DEF C2Main, M3, M3Again, RewritesMain
  <2>3. main.key \in {spare.key, Garbled}
    BY <1>0, <1>3, <2>1 DEF M3Again, RewritesMain, Knows
  <2>4. main'.key \in {spare.key, Garbled}
    BY <1>0, <2>1, <2>2, <2>3, WriteFacts
  <2>5. Fitting(spare.key)
    BY <2>1 DEF Fits, M3Again, RewritesMain
  <2>6. Fitting(spare.key)'
    BY <1>1, <2>1, <2>5 DEF Fitting
  <2>7. Fitting(main.key)'
    BY <2>1, <2>4, <2>6, KeyAssumption DEF Fitting, Keys, Garbled
  <2> QED
    BY <2>6, <2>7 DEF Fits
<1>4. ~Restore
  BY <1>0 DEF Restore, StepFits, Knows, InPlace
<1>5. CASE Create
  <2>1. main = NoEntry /\ open_by = {} /\ data[vault_dir] = {}
    BY <1>0, <1>5 DEF Create, Knows, InPlace, OpInPlace, OpeningSteps, Before
  <2>2. PICK w \in Writes(main, made + 1) :
          /\ main' = w.left
          /\ IF w.ok THEN OpensWith(made + 1) ELSE End /\ UNCHANGED open_by
    BY <1>5 DEF Create
  <2>3. made + 1 \in Keys
    BY <1>0, <1>5, KeyAssumption DEF Create, StepFits, TypeOK, Keys
  <2>4. w.ok => main'.key = made + 1
    <3>1. w.ok => w.left = [key |-> made + 1, local |-> TRUE]
      BY <1>0, <2>3, WriteFacts
    <3> QED
      BY <2>2, <3>1
  <2>5. \A h \in open_by' : h[1] = main'.key
    BY <2>1, <2>2, <2>4 DEF OpensWith
  <2>6. Fitting(main.key)'
    BY <1>1, <2>1, <2>5 DEF Fitting
  <2>7. op'.at # "m3_again"
    BY <2>2 DEF OpensWith, End, Idle
  <2> QED
    BY <2>6, <2>7 DEF Fits
<1> QED
  BY <1>2, <1>3, <1>4, <1>5 DEF Opening

LEMMA NextFits ==
  ASSUME OwnHands, HonestDeletes, StoreTells, TypeInv, CopyInv, GoneInv, InPlace, OpInPlace, Fits,
         [Next]_keyVars
  PROVE  Fits'
<1>0. TypeOK /\ main \in MaybeCredential /\ vault_dir \in Folders
  BY CredentialsTyped DEF TypeInv, TypeOK
<1>1. CASE UNCHANGED keyVars
  BY <1>1 DEF Fits, Fitting
<1>2. CASE Opening
  BY <1>2, OpeningFits
<1>3. CASE Erasing \/ StartAgain \/ StartingAgain
  <2>1. op'.at # "m3_again"
    <3>1. op.at \in ErasingSteps \cup SettlingSteps \/ StartAgain
      BY <1>3 DEF Erasing, E2Spare, DropsSpare, E2Main, E0, Clean, E3Spare, E3Main, E3Marker,
                  StartingAgain, Settle, SettleMarker, Record, ErasingSteps, SettlingSteps
    <3>2. CASE StartAgain
      BY <3>2 DEF StartAgain, Begin
    <3>3. CASE Clean
      BY <1>0, <3>3, OpTyped DEF Clean, Operation
    <3>4. CASE (Erasing \/ StartingAgain) /\ ~Clean
      <4>1. op.at # "idle"
        BY <3>1, <3>4, StepsParted
        DEF Erasing, E2Spare, DropsSpare, E2Main, E0, E3Spare, E3Main, E3Marker,
            StartingAgain, Settle, SettleMarker, Record
      <4>2. op' = Idle \/ \E at \in Steps \ {"m3_again"} : Go(at)
        BY <3>4 DEF Erasing, E2Spare, DropsSpare, E2Main, E0, E3Spare, E3Main, E3Marker, End,
                    StartingAgain, Settle, SettleMarker, Record, Steps
      <4> QED
        BY <1>0, <4>1, <4>2, GoFacts DEF Idle
    <3> QED
      BY <1>3, <3>2, <3>3, <3>4
  <2>2. UNCHANGED open_by
    BY <1>3 DEF Erasing, E2Spare, DropsSpare, E2Main, E0, Clean, E3Spare, E3Main, E3Marker,
                StartAgain, StartingAgain, Settle, SettleMarker, Record
  <2>3. data'[vault_dir'] \subseteq data[vault_dir]
    <3>1. CASE Clean
      <4>1. PICK c \in Cleans(op.own) : data' = [data EXCEPT ![op.own] = c.data]
        BY <3>1 DEF Clean
      <4>2. c.data \in {{}, data[op.own]} /\ vault_dir' = vault_dir
        BY <3>1, CleanFacts DEF Clean
      <4> QED
        BY <1>0, <4>1, <4>2 DEF TypeOK
    <3>2. CASE Record
      BY <3>2 DEF Record, OpInPlace, SettlingSteps
    <3>3. CASE ~Clean /\ ~Record
      BY <1>3, <3>3 DEF Erasing, E2Spare, DropsSpare, E2Main, E0, E3Spare, E3Main, E3Marker,
                        StartAgain, StartingAgain, Settle, SettleMarker
    <3> QED
      BY <3>1, <3>2, <3>3
  <2>4. main' \in {main, NoEntry}
    BY <1>0, <1>3, ConfirmFacts, RecheckFacts
    DEF Erasing, E2Spare, DropsSpare, E2Main, E0, Clean, E3Spare, E3Main, E3Marker,
        StartAgain, StartingAgain, Settle, SettleMarker, Record
  <2>5. Fitting(main.key)'
    <3>1. CASE main' = main
      BY <2>2, <2>3, <3>1 DEF Fits, Fitting
    <3>2. CASE main' = NoEntry
      BY <3>2, KeyAssumption DEF Fitting, NoEntry, Keys
    <3> QED
      BY <2>4, <3>1, <3>2
  <2> QED
    BY <2>1, <2>5 DEF Fits
<1>4. CASE \/ Erase \/ Stop
           \/ \E f \in Folders : OpenFolder(f) \/ TakeOut(f) \/ PutBack(f)
  <2>1. UNCHANGED <<main, data, vault_dir, open_by>>
    BY <1>4 DEF Erase, Stop, OpenFolder, TakeOut, PutBack
  <2>2. op'.at # "m3_again"
    BY <1>4 DEF Erase, Stop, OpenFolder, TakeOut, PutBack, Begin, End, Idle
  <2> QED
    BY <2>1, <2>2, MainStays
<1>5. ASSUME NEW h \in open_by, Seal(h) \/ Close(h) PROVE Fits'
  <2>1. CASE Close(h)
    BY <2>1 DEF Close, Fits, Fitting
  <2>2. CASE Seal(h)
    <3>1. /\ h[2] = vault_dir /\ data'[vault_dir] = {h[1]}
          /\ UNCHANGED <<main, spare, op, vault_dir, open_by>>
      BY <1>0, <2>2 DEF Seal, InPlace, TypeOK
    <3> QED
      BY <3>1 DEF Fits, Fitting
  <2> QED
    BY <1>5, <2>1, <2>2
<1>6. ~Roam /\ ~Lose
  BY DEF Roam, Lose, StoreTells, OwnHands
<1> QED
  BY <1>1, <1>2, <1>3, <1>4, <1>5, <1>6 DEF Next

(***************************************************************************)
(* D4: the key in force opens everything in the vault's folder, for any    *)
(* number of keys, erasures, folders on drives that go and come back, and  *)
(* processes stopped midway, where nobody uses another folder, or one      *)
(* without its lock, and nothing but the program removes main.             *)
(***************************************************************************)
THEOREM KeyOpensVault ==
  HonestDeletes /\ StoreTells /\ OwnHands => (Spec => []KeyFitsVault)
<1> SUFFICES ASSUME HonestDeletes, StoreTells, OwnHands PROVE Spec => []KeyFitsVault
  OBVIOUS
<1>1. TypeInv /\ MarkerInv /\ CopyInv /\ [Next]_keyVars => CopyInv'
  BY NextCopy
<1>2. TypeInv /\ GoneInv /\ [Next]_keyVars => GoneInv'
  BY NextGone
<1>3. TypeInv /\ CopyInv /\ GoneInv /\ FitInv /\ [Next]_keyVars => FitInv'
  BY NextInPlace, NextFits DEF FitInv
<1>4. FitInv => KeyFitsVault
  BY DEF FitInv, Fits, Fitting, KeyFitsVault
<1> QED
  BY <1>1, <1>2, <1>3, <1>4, InitType, NextType, InitMarker, NextMarker, InitCopy, InitGone,
     InitFit, PTL DEF Spec

=============================================================================
