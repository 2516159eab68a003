--------------------------- MODULE SessionsProofs ---------------------------
(***************************************************************************)
(* Theorems about Sessions, for any number of clients, calls, ports and    *)
(* bindings, and any capacity of the daemon's two stores.                  *)
(***************************************************************************)
EXTENDS Sessions, TLAPS, FiniteSetTheorems

AttemptRec == [pc : AttemptState, port : Ports \cup {None},
               run : Run \cup {None}, round : 0..2, from : 0..MaxBoots]
CallRec == [pc : CallState, by : Clients \cup {None},
            on : Attempts \cup {None}, tries : 0..2, from : 0..MaxBoots]

\* The daemon never keeps more sessions than it has places.
HouseIsBounded == IsFiniteSet(sessions) /\ Cardinality(sessions) <= Capacity

\* A handshake under way has an owner and is in its first or second round.
AttemptsAreOwned ==
  \A a \in Attempts :
    /\ attempt[a].pc # "none" => OwnerOf(a) \in Clients
    /\ attempt[a].pc = "run" => attempt[a].round # 0

CallsAreOwned == \A k \in Calls : call[k].pc \notin {"none", "cut"} => call[k].by \in Clients

\* A call starts each of its two handshakes once.
HandshakesAreFresh ==
  \A k \in Calls :
    /\ call[k].pc = "none" => attempt[<<k, 1>>].pc = "none" /\ attempt[<<k, 2>>].pc = "none"
    /\ call[k].tries # 2 => attempt[<<k, 2>>].pc = "none"

LinkInv == AttemptsAreOwned /\ CallsAreOwned /\ HandshakesAreFresh

SessionsInv == TypeOK /\ HouseIsBounded /\ LinkInv

-----------------------------------------------------------------------------
\* The constants.

LEMMA Constants ==
  /\ Capacity \in Nat \ {0} /\ MaxBoots \in Nat /\ 0 \in 0..MaxBoots
  /\ None \notin Ports /\ None \notin Bindings /\ None \notin Attempts
BY SessionsAssumption DEF Attempts

LEMMA Runs ==
  ASSUME TypeOK
  PROVE  /\ Boot \in 0..MaxBoots
         /\ daemon # None => daemon \in Run /\ daemon.boot \in 0..MaxBoots /\ daemon.port \in Ports
         /\ runFile # None => runFile \in Run /\ runFile.port \in Ports
<1>1. daemon # None => daemon \in Run
  BY DEF TypeOK
<1>2. runFile # None => runFile \in Run
  BY DEF TypeOK
<1>3. \A r \in Run : r.boot \in 1..MaxBoots /\ r.port \in Ports
  BY DEF Run
<1>4. 1..MaxBoots \subseteq 0..MaxBoots /\ 0 \in 0..MaxBoots
  BY Constants
<1> QED
  BY <1>1, <1>2, <1>3, <1>4 DEF Boot

LEMMA IdleType ==
  /\ Idle \in AttemptRec
  /\ \A why \in AttemptState : [Idle EXCEPT !.pc = why] \in AttemptRec
BY Constants DEF Idle, AttemptRec, AttemptState

\* A handshake that is under way goes on, and stays with its owner.
LEMMA AttemptGoesOn ==
  ASSUME SessionsInv, NEW a \in Attempts, attempt[a].pc # "none",
         NEW r \in AttemptRec, r.pc # "none", r.pc = "run" => r.round # 0,
         SetAttempt(a, r), UNCHANGED call
  PROVE  attempt' \in [Attempts -> AttemptRec] /\ LinkInv'
<1>1. attempt \in [Attempts -> AttemptRec]
  BY DEF SessionsInv, TypeOK, AttemptRec
<1>2. attempt' = [attempt EXCEPT ![a] = r]
  BY DEF SetAttempt
<1>3. attempt' \in [Attempts -> AttemptRec]
  BY <1>1, <1>2
<1>4. \A b \in Attempts : attempt'[b] = IF b = a THEN r ELSE attempt[b]
  BY <1>1, <1>2
<1>5. \A b \in Attempts : (attempt'[b].pc = "none") = (attempt[b].pc = "none")
  BY <1>4
<1>6. AttemptsAreOwned'
  BY <1>4, <1>5 DEF SessionsInv, LinkInv, AttemptsAreOwned, OwnerOf
<1>7. CallsAreOwned'
  BY DEF SessionsInv, LinkInv, CallsAreOwned
<1>8. \A k \in Calls : <<k, 1>> \in Attempts /\ <<k, 2>> \in Attempts
  BY DEF Attempts
<1>9. HandshakesAreFresh'
  BY <1>5, <1>8 DEF SessionsInv, LinkInv, HandshakesAreFresh
<1> QED
  BY <1>3, <1>6, <1>7, <1>9 DEF LinkInv

\* A call that is under way goes on, or ends, in its client.
LEMMA CallGoesOn ==
  ASSUME SessionsInv, NEW k \in Calls, call[k].pc \notin {"none", "cut"},
         NEW r \in CallRec, r.pc # "none", r.by = call[k].by, r.tries = call[k].tries,
         call' = [call EXCEPT ![k] = r], UNCHANGED attempt
  PROVE  call' \in [Calls -> CallRec] /\ LinkInv'
<1>1. call \in [Calls -> CallRec]
  BY DEF SessionsInv, TypeOK, CallRec
<1>2. call' \in [Calls -> CallRec]
  BY <1>1
<1>3. \A j \in Calls : call'[j] = IF j = k THEN r ELSE call[j]
  BY <1>1
<1>4. \A j \in Calls : call'[j].by = call[j].by /\ call'[j].tries = call[j].tries
  BY <1>3
<1>5. \A a \in Attempts : a[1] \in Calls
  BY DEF Attempts
<1>6. AttemptsAreOwned'
  BY <1>4, <1>5 DEF SessionsInv, LinkInv, AttemptsAreOwned, OwnerOf
<1>7. CallsAreOwned'
  BY <1>3, <1>4 DEF SessionsInv, LinkInv, CallsAreOwned
<1>8. \A j \in Calls : call'[j].pc = "none" => call[j].pc = "none"
  BY <1>3
<1>9. HandshakesAreFresh'
  BY <1>4, <1>8 DEF SessionsInv, LinkInv, HandshakesAreFresh
<1> QED
  BY <1>2, <1>6, <1>7, <1>9 DEF LinkInv

\* Fewer sessions are no more than the places.
LEMMA FewerSessions ==
  ASSUME HouseIsBounded, sessions' \subseteq sessions
  PROVE  HouseIsBounded'
<1>1. IsFiniteSet(sessions') /\ Cardinality(sessions') <= Cardinality(sessions)
  BY FS_Subset DEF HouseIsBounded
<1>2. Cardinality(sessions) \in Nat /\ Cardinality(sessions') \in Nat
  BY <1>1, FS_CardinalityType DEF HouseIsBounded
<1> QED
  BY <1>1, <1>2, Constants DEF HouseIsBounded

LEMMA NoSessions ==
  ASSUME sessions' = {}
  PROVE  HouseIsBounded'
BY FS_EmptySet, Constants DEF HouseIsBounded

LEMMA InitSessionsInv == Init => SessionsInv
<1> SUFFICES ASSUME Init PROVE SessionsInv
  OBVIOUS
<1>1. TypeOK
  <2>1. attempt \in [Attempts -> AttemptRec]
    BY IdleType DEF Init
  <2>2. call \in [Calls -> CallRec]
    BY Constants DEF Init, NoCall, CallRec, CallState
  <2>3. boots \in 0..MaxBoots /\ rebinds \in 0..MaxRebinds
    BY SessionsAssumption DEF Init
  <2> QED
    BY <2>1, <2>2, <2>3 DEF Init, TypeOK, AttemptRec, CallRec
<1>2. HouseIsBounded
  BY FS_EmptySet, Constants DEF Init, HouseIsBounded
<1>3. LinkInv
  <2>1. \A k \in Calls : <<k, 1>> \in Attempts /\ <<k, 2>> \in Attempts
    BY DEF Attempts
  <2> QED
    BY <2>1 DEF Init, LinkInv, AttemptsAreOwned, CallsAreOwned, HandshakesAreFresh,
               Idle, NoCall
<1> QED
  BY <1>1, <1>2, <1>3 DEF SessionsInv

-----------------------------------------------------------------------------
\* The daemon's life.

LEMMA DaemonKeepsInv ==
  ASSUME SessionsInv, Start \/ Stop \/ Expire \/ Rebind
  PROVE  SessionsInv'
<1> USE DEF SessionsInv
<1>1. CASE Start
  <2>1. PICK p \in Ports : daemon' = [boot |-> boots + 1, port |-> p]
    BY <1>1 DEF Start
  <2>2. boots + 1 \in 1..MaxBoots
    BY <1>1, Constants DEF Start, TypeOK
  <2>3. daemon' \in Run
    BY <2>1, <2>2 DEF Run
  <2>4. TypeOK'
    BY <1>1, <2>2, <2>3, Constants DEF Start, TypeOK, bindVars, clientVars
  <2>5. HouseIsBounded'
    BY <1>1, NoSessions DEF Start
  <2>6. LinkInv'
    BY <1>1 DEF Start, clientVars, LinkInv, AttemptsAreOwned, CallsAreOwned,
                HandshakesAreFresh, OwnerOf
  <2> QED
    BY <2>4, <2>5, <2>6
<1>2. CASE Stop
  <2>1. TypeOK'
    BY <1>2 DEF Stop, TypeOK, bindVars
  <2>2. HouseIsBounded'
    BY <1>2, NoSessions DEF Stop
  <2>3. LinkInv'
    BY <1>2 DEF Stop, LinkInv, AttemptsAreOwned, CallsAreOwned, HandshakesAreFresh, OwnerOf
  <2> QED
    BY <2>1, <2>2, <2>3
<1>3. CASE Expire
  <2>1. expired' \subseteq nonces'
    BY <1>3 DEF Expire, TypeOK
  <2>2. TypeOK'
    BY <1>3, <2>1 DEF Expire, TypeOK, bindVars, clientVars
  <2>3. HouseIsBounded'
    BY <1>3, FewerSessions DEF Expire
  <2>4. LinkInv'
    BY <1>3 DEF Expire, clientVars, LinkInv, AttemptsAreOwned, CallsAreOwned,
                HandshakesAreFresh, OwnerOf
  <2> QED
    BY <2>2, <2>3, <2>4
<1>4. CASE Rebind
  <2>1. rebinds' \in 0..MaxRebinds
    BY <1>4, SessionsAssumption DEF Rebind, TypeOK
  <2>2. TypeOK'
    BY <1>4, <2>1 DEF Rebind, TypeOK, daemonVars, clientVars
  <2>3. HouseIsBounded'
    BY <1>4, FewerSessions DEF Rebind, daemonVars
  <2>4. LinkInv'
    BY <1>4 DEF Rebind, clientVars, LinkInv, AttemptsAreOwned, CallsAreOwned,
                HandshakesAreFresh, OwnerOf
  <2> QED
    BY <2>2, <2>3, <2>4
<1> QED
  BY <1>1, <1>2, <1>3, <1>4

-----------------------------------------------------------------------------
\* The two halves of the type: what the daemon keeps, what the clients keep.

StoresOK ==
  /\ daemon \in Run \cup {None} /\ runFile \in Run \cup {None}
  /\ boots \in 0..MaxBoots /\ rebinds \in 0..MaxRebinds
  /\ nonces \subseteq Attempts \X {1, 2} /\ expired \subseteq nonces
  /\ sessions \subseteq [bearer : Attempts, client : Clients, frozen : Bindings]
  /\ binding \in Bindings \cup {None}

ClientsOK ==
  /\ client \in [Clients -> {"up", "releasing", "leaving", "gone"}]
  /\ connecting \in [Clients -> Attempts \cup {None}]
  /\ current \in [Clients -> Attempts \cup {None}]
  /\ attempt \in [Attempts -> AttemptRec] /\ call \in [Calls -> CallRec]
  /\ excused \subseteq Clients /\ steady \subseteq Calls

LEMMA TypeHalves == TypeOK <=> StoresOK /\ ClientsOK
BY DEF TypeOK, StoresOK, ClientsOK, AttemptRec, CallRec

LEMMA TypeHalvesNext == TypeOK' <=> StoresOK' /\ ClientsOK'
BY DEF TypeOK, StoresOK, ClientsOK, AttemptRec, CallRec

LEMMA ClientsUnchanged ==
  ASSUME SessionsInv, UNCHANGED clientVars
  PROVE  ClientsOK' /\ LinkInv'
<1>1. ClientsOK
  BY TypeHalves DEF SessionsInv
<1>2. ClientsOK'
  BY <1>1 DEF ClientsOK, clientVars
<1>3. LinkInv'
  BY DEF SessionsInv, clientVars, LinkInv, AttemptsAreOwned, CallsAreOwned,
         HandshakesAreFresh, OwnerOf
<1> QED
  BY <1>2, <1>3

LEMMA StoresUnchanged ==
  ASSUME SessionsInv, UNCHANGED <<daemonVars, bindVars>>
  PROVE  StoresOK' /\ HouseIsBounded'
<1>1. StoresOK
  BY TypeHalves DEF SessionsInv
<1>2. StoresOK'
  BY <1>1 DEF StoresOK, daemonVars, bindVars
<1>3. HouseIsBounded'
  BY FewerSessions DEF SessionsInv, daemonVars
<1> QED
  BY <1>2, <1>3

\* A request that is served leaves the stores typed and the house bounded.
LEMMA StoresServed ==
  ASSUME SessionsInv, UNCHANGED <<daemon, runFile, boots, bindVars>>,
         nonces' \subseteq Attempts \X {1, 2}, expired' \subseteq nonces',
         sessions' \subseteq sessions
  PROVE  StoresOK' /\ HouseIsBounded'
<1>1. StoresOK
  BY TypeHalves DEF SessionsInv
<1>2. StoresOK'
  BY <1>1 DEF StoresOK, bindVars
<1>3. HouseIsBounded'
  BY FewerSessions DEF SessionsInv
<1> QED
  BY <1>2, <1>3

LEMMA FailKeepsClients ==
  ASSUME SessionsInv, NEW a \in Attempts, attempt[a].pc # "none",
         NEW why \in {"down", "refused", "full"}, FailAttempt(a, why)
  PROVE  ClientsOK' /\ LinkInv'
<1>1. ClientsOK
  BY TypeHalves DEF SessionsInv
<1>2. [Idle EXCEPT !.pc = why] \in AttemptRec
  BY IdleType DEF AttemptState
<1>3. [Idle EXCEPT !.pc = why].pc = why
  BY DEF Idle
<1>4. why # "none" /\ why # "run"
  OBVIOUS
<1>5. SetAttempt(a, [Idle EXCEPT !.pc = why]) /\ UNCHANGED call
  BY DEF FailAttempt
<1>6. attempt' \in [Attempts -> AttemptRec] /\ LinkInv'
  BY <1>2, <1>3, <1>4, <1>5, AttemptGoesOn
<1>7. connecting' \in [Clients -> Attempts \cup {None}]
  BY <1>1 DEF FailAttempt, ClientsOK
<1> QED
  BY <1>1, <1>6, <1>7 DEF FailAttempt, ClientsOK

LEMMA UseRunKeepsClients ==
  ASSUME SessionsInv, NEW a \in Attempts, attempt[a].pc # "none", Running(runFile),
         NEW round \in {1, 2}, UseRun(a, round),
         UNCHANGED <<client, connecting, current, call, steady>>
  PROVE  ClientsOK' /\ LinkInv'
<1>1. ClientsOK /\ attempt[a] \in AttemptRec
  BY TypeHalves DEF SessionsInv, ClientsOK
<1>2. runFile \in Run
  BY Runs DEF SessionsInv, Running
<1> DEFINE r == [attempt[a] EXCEPT !.pc = "run", !.run = runFile, !.round = round, !.from = 0]
<1>3. r \in AttemptRec /\ r.pc = "run" /\ r.round # 0
  <2>1. 0 \in 0..MaxBoots /\ round \in 0..2 /\ round # 0
    BY Constants
  <2> QED
    BY <1>1, <1>2, <2>1 DEF AttemptRec, AttemptState
<1>4. SetAttempt(a, r)
  BY DEF UseRun
<1> HIDE DEF r
<1>5. attempt' \in [Attempts -> AttemptRec] /\ LinkInv'
  BY <1>3, <1>4, AttemptGoesOn
<1>6. excused' \subseteq Clients
  BY <1>1 DEF UseRun, ClientsOK, SessionsInv, LinkInv, AttemptsAreOwned
<1> QED
  BY <1>1, <1>5, <1>6 DEF ClientsOK

LEMMA RetryKeepsClients ==
  ASSUME SessionsInv, NEW a \in Attempts, attempt[a].pc # "none", RetryProof(a)
  PROVE  ClientsOK' /\ LinkInv'
<1>1. CASE Running(runFile) /\ UseRun(a, 2)
           /\ UNCHANGED <<client, connecting, current, call, steady>>
  BY <1>1, UseRunKeepsClients
<1>2. CASE FailAttempt(a, "down")
  BY <1>2, FailKeepsClients
<1> QED
  BY <1>1, <1>2 DEF RetryProof

\* An attempt goes on and the rest of the client is as it was.
LEMMA StepKeepsClients ==
  ASSUME SessionsInv, NEW a \in Attempts, attempt[a].pc # "none",
         NEW r \in AttemptRec, r.pc # "none", r.pc # "run", SetAttempt(a, r),
         UNCHANGED <<client, connecting, call, excused, steady>>,
         current' \in [Clients -> Attempts \cup {None}]
  PROVE  ClientsOK' /\ LinkInv'
<1>1. ClientsOK
  BY TypeHalves DEF SessionsInv
<1>2. attempt' \in [Attempts -> AttemptRec] /\ LinkInv'
  BY AttemptGoesOn
<1> QED
  BY <1>1, <1>2 DEF ClientsOK

-----------------------------------------------------------------------------
\* The handshake.

LEMMA OpenKeepsInv ==
  ASSUME SessionsInv, NEW a \in Attempts, Open(a)
  PROVE  StoresOK' /\ HouseIsBounded' /\ ClientsOK' /\ LinkInv'
<1>1. StoresOK /\ ClientsOK /\ attempt[a] \in AttemptRec
  BY TypeHalves DEF SessionsInv, ClientsOK
<1>2. attempt[a].pc = "asked" /\ attempt[a].pc # "none"
  BY DEF Open, Verified
<1>3. OwnerOf(a) \in Clients
  BY <1>2 DEF SessionsInv, LinkInv, AttemptsAreOwned
<1>4. binding \in Bindings
  BY <1>1 DEF Open, StoresOK
<1>5. Session(a) \in [bearer : Attempts, client : Clients, frozen : Bindings]
  BY <1>3, <1>4 DEF Session
<1>6. nonces' \subseteq Attempts \X {1, 2} /\ expired' \subseteq nonces'
  BY <1>1 DEF Open, Consume, SweepExpired, StoresOK
<1>7. SweepDead(sessions) \subseteq sessions
  BY DEF SweepDead
<1>8. sessions' = SweepDead(sessions) \/ (Minted(a) /\ sessions' = SweepDead(sessions) \cup {Session(a)})
  BY DEF Open
<1>9. StoresOK'
  BY <1>1, <1>5, <1>6, <1>7, <1>8 DEF Open, StoresOK, bindVars
<1>10. HouseIsBounded'
  <2>1. CASE sessions' = SweepDead(sessions)
    BY <2>1, <1>7, FewerSessions DEF SessionsInv
  <2>2. CASE Minted(a) /\ sessions' = SweepDead(sessions) \cup {Session(a)}
    <3>1. IsFiniteSet(SweepDead(sessions))
      BY <1>7, FS_Subset DEF SessionsInv, HouseIsBounded
    <3>2. Cardinality(SweepDead(sessions)) \in Nat /\ Cardinality(SweepDead(sessions)) < Capacity
      BY <2>2, <3>1, FS_CardinalityType DEF Minted
    <3>3. /\ IsFiniteSet(sessions')
          /\ \/ Cardinality(sessions') = Cardinality(SweepDead(sessions))
             \/ Cardinality(sessions') = Cardinality(SweepDead(sessions)) + 1
      BY <2>2, <3>1, FS_AddElement
    <3> QED
      BY <3>2, <3>3, Constants DEF HouseIsBounded
  <2> QED
    BY <1>8, <2>1, <2>2
<1>11. ClientsOK' /\ LinkInv'
  <2>1. CASE Minted(a)
    <3> DEFINE r == [attempt[a] EXCEPT !.pc = "opened", !.from = daemon.boot]
    <3>1. daemon # None
      BY DEF Open, ListensAt
    <3>2. r \in AttemptRec /\ r.pc = "opened"
      BY <1>1, <3>1, Runs DEF AttemptRec, AttemptState, SessionsInv
    <3>3. SetAttempt(a, r) /\ UNCHANGED <<client, connecting, current, call, excused, steady>>
      BY <2>1 DEF Open
    <3> HIDE DEF r
    <3>4. current' \in [Clients -> Attempts \cup {None}]
      BY <1>1, <3>3 DEF ClientsOK
    <3>5. r.pc # "none" /\ r.pc # "run"
      BY <3>2
    <3> QED
      BY <1>2, <3>2, <3>3, <3>4, <3>5, StepKeepsClients
  <2>2. CASE ~Minted(a)
    <3>1. FailAttempt(a, "full")
      BY <2>2 DEF Open
    <3> QED
      BY <3>1, <1>2, FailKeepsClients
  <2> QED
    BY <2>1, <2>2
<1> QED
  BY <1>9, <1>10, <1>11

LEMMA HandshakeKeepsInv ==
  ASSUME SessionsInv, NEW a \in Attempts, Handshake(a)
  PROVE  StoresOK' /\ HouseIsBounded' /\ ClientsOK' /\ LinkInv'
<1>0. StoresOK /\ ClientsOK /\ attempt[a] \in AttemptRec
  BY TypeHalves DEF SessionsInv, ClientsOK
<1>1. CASE FindDaemon(a)
  <2>1. StoresOK' /\ HouseIsBounded'
    BY <1>1, StoresUnchanged DEF FindDaemon
  <2>2. attempt[a].pc # "none"
    BY <1>1 DEF FindDaemon
  <2>3. CASE Running(runFile)
    <3> DEFINE r == [attempt[a] EXCEPT !.pc = "found", !.port = runFile.port]
    <3>1. r \in AttemptRec /\ r.pc = "found"
      BY <1>0, <2>3, Runs DEF AttemptRec, AttemptState, SessionsInv, Running
    <3>2. SetAttempt(a, r) /\ UNCHANGED <<client, connecting, current, call, excused, steady>>
      BY <1>1, <2>3 DEF FindDaemon
    <3> HIDE DEF r
    <3>3. current' \in [Clients -> Attempts \cup {None}]
      BY <1>0, <3>2 DEF ClientsOK
    <3>4. r.pc # "none" /\ r.pc # "run"
      BY <3>1
    <3> QED
      BY <2>1, <2>2, <3>1, <3>2, <3>3, <3>4, StepKeepsClients
  <2>4. CASE ~Running(runFile)
    <3>1. FailAttempt(a, "down")
      BY <1>1, <2>4 DEF FindDaemon
    <3> QED
      BY <2>1, <2>2, <3>1, FailKeepsClients
  <2> QED
    BY <2>3, <2>4
<1>2. CASE FindAgain(a)
  <2>1. StoresOK' /\ HouseIsBounded'
    BY <1>2, StoresUnchanged DEF FindAgain
  <2>2. attempt[a].pc # "none"
    BY <1>2 DEF FindAgain
  <2>3. CASE Running(runFile)
    <3>1. UseRun(a, 1) /\ UNCHANGED <<client, connecting, current, call, steady>>
      BY <1>2, <2>3 DEF FindAgain
    <3> QED
      BY <2>1, <2>2, <2>3, <3>1, UseRunKeepsClients
  <2>4. CASE ~Running(runFile)
    <3>1. FailAttempt(a, "down")
      BY <1>2, <2>4 DEF FindAgain
    <3> QED
      BY <2>1, <2>2, <3>1, FailKeepsClients
  <2> QED
    BY <2>3, <2>4
<1>3. CASE AskIdentity(a)
  <2>1. attempt[a].pc = "run" /\ attempt[a].round \in {1, 2}
    BY <1>0, <1>3 DEF AskIdentity, SessionsInv, LinkInv, AttemptsAreOwned, AttemptRec
  <2>2. nonces' \subseteq Attempts \X {1, 2} /\ expired' \subseteq nonces'
    BY <1>0, <1>3, <2>1 DEF AskIdentity, Issue, SweepExpired, StoresOK
  <2>3. UNCHANGED <<daemon, runFile, boots, bindVars>> /\ sessions' \subseteq sessions
    BY <1>3 DEF AskIdentity
  <2>4. StoresOK' /\ HouseIsBounded'
    BY <2>2, <2>3, StoresServed
  <2> DEFINE r == [attempt[a] EXCEPT !.pc = "asked", !.from = daemon.boot]
  <2>5. daemon # None
    BY <1>3 DEF AskIdentity, ListensAt
  <2>6. r \in AttemptRec /\ r.pc = "asked"
    BY <1>0, <2>5, Runs DEF AttemptRec, AttemptState, SessionsInv
  <2>7. SetAttempt(a, r) /\ UNCHANGED <<client, connecting, current, call, excused, steady>>
    BY <1>3 DEF AskIdentity
  <2> HIDE DEF r
  <2>8. current' \in [Clients -> Attempts \cup {None}]
    BY <1>0, <2>7 DEF ClientsOK
  <2>9. r.pc # "none" /\ r.pc # "run" /\ attempt[a].pc # "none"
    BY <2>1, <2>6
  <2> QED
    BY <2>4, <2>6, <2>7, <2>8, <2>9, StepKeepsClients
<1>4. CASE IdentityRefused(a)
  <2>1. nonces' \subseteq Attempts \X {1, 2} /\ expired' \subseteq nonces'
    BY <1>0, <1>4 DEF IdentityRefused, SweepExpired, StoresOK
  <2>2. UNCHANGED <<daemon, runFile, boots, bindVars>> /\ sessions' \subseteq sessions
    BY <1>4 DEF IdentityRefused, RetryProof
  <2>3. StoresOK' /\ HouseIsBounded'
    BY <2>1, <2>2, StoresServed
  <2>4. attempt[a].pc # "none" /\ RetryProof(a)
    BY <1>4 DEF IdentityRefused
  <2> QED
    BY <2>3, <2>4, RetryKeepsClients
<1>5. CASE NotVerified(a)
  <2>1. StoresOK' /\ HouseIsBounded'
    BY <1>5, StoresUnchanged DEF NotVerified, RetryProof
  <2>2. attempt[a].pc # "none" /\ RetryProof(a)
    BY <1>5 DEF NotVerified
  <2> QED
    BY <2>1, <2>2, RetryKeepsClients
<1>6. CASE Open(a)
  BY <1>6, OpenKeepsInv
<1>7. CASE OpenRefused(a)
  <2>1. nonces' \subseteq Attempts \X {1, 2} /\ expired' \subseteq nonces'
    BY <1>0, <1>7 DEF OpenRefused, SweepExpired, StoresOK
  <2>2. UNCHANGED <<daemon, runFile, boots, bindVars>> /\ sessions' \subseteq sessions
    BY <1>7 DEF OpenRefused, SweepDead
  <2>3. StoresOK' /\ HouseIsBounded'
    BY <2>1, <2>2, StoresServed
  <2>4. attempt[a].pc # "none" /\ FailAttempt(a, "refused")
    BY <1>7 DEF OpenRefused, Verified
  <2> QED
    BY <2>3, <2>4, FailKeepsClients
<1>8. CASE Opened(a)
  <2>1. StoresOK' /\ HouseIsBounded'
    BY <1>8, StoresUnchanged DEF Opened
  <2> DEFINE r == [Idle EXCEPT !.pc = "ready", !.port = attempt[a].port]
  <2>2. r \in AttemptRec /\ r.pc = "ready"
    <3>1. attempt[a].port \in Ports \cup {None} /\ Idle \in AttemptRec
      BY <1>0, IdleType DEF AttemptRec
    <3> QED
      BY <3>1 DEF AttemptRec, AttemptState
  <2>3. SetAttempt(a, r) /\ UNCHANGED <<client, connecting, call, excused, steady>>
    BY <1>8 DEF Opened
  <2> HIDE DEF r
  <2>4. current' \in [Clients -> Attempts \cup {None}]
    BY <1>0, <1>8 DEF ClientsOK, Opened
  <2>5. r.pc # "none" /\ r.pc # "run" /\ attempt[a].pc # "none"
    BY <1>8, <2>2 DEF Opened
  <2> QED
    BY <2>1, <2>2, <2>3, <2>4, <2>5, StepKeepsClients
<1>9. CASE OpenedLost(a)
  <2>1. StoresOK' /\ HouseIsBounded'
    BY <1>9, StoresUnchanged DEF OpenedLost
  <2> DEFINE r == [Idle EXCEPT !.pc = "refused"]
  <2>2. r \in AttemptRec /\ r.pc = "refused"
    BY IdleType DEF AttemptState, Idle
  <2>3. SetAttempt(a, r) /\ UNCHANGED <<client, current, call, steady>>
    BY <1>9 DEF OpenedLost
  <2> HIDE DEF r
  <2>4. attempt[a].pc # "none" /\ r.pc # "none" /\ r.pc # "run"
    BY <1>9, <2>2 DEF OpenedLost
  <2>5. attempt' \in [Attempts -> AttemptRec] /\ LinkInv'
    BY <2>2, <2>3, <2>4, AttemptGoesOn
  <2>6. OwnerOf(a) \in Clients
    BY <2>4 DEF SessionsInv, LinkInv, AttemptsAreOwned
  <2>7. connecting' \in [Clients -> Attempts \cup {None}] /\ excused' \subseteq Clients
    BY <1>0, <1>9, <2>6 DEF OpenedLost, ClientsOK
  <2> QED
    BY <1>0, <2>1, <2>3, <2>5, <2>7 DEF ClientsOK
<1> QED
  BY <1>1, <1>2, <1>3, <1>4, <1>5, <1>6, <1>7, <1>8, <1>9 DEF Handshake

-----------------------------------------------------------------------------
\* The calls.

LEMMA EnsureKeepsClients ==
  ASSUME SessionsInv, NEW k \in Calls, NEW c \in Clients, NEW tries \in {1, 2},
         NEW cached \in Attempts \cup {None},
         tries = 1 => call[k].pc = "none", call[k].pc # "cut",
         EnsureSession(k, c, tries, cached), call[k].pc # "none" => call[k].by = c
  PROVE  /\ attempt' \in [Attempts -> AttemptRec] /\ call' \in [Calls -> CallRec]
         /\ connecting' \in [Clients -> Attempts \cup {None}] /\ LinkInv'
<1>1. ClientsOK /\ call[k] \in CallRec
  BY TypeHalves DEF SessionsInv, ClientsOK
<1> DEFINE own == <<k, tries>>
           a == IF cached = None THEN own ELSE cached
           r == [call[k] EXCEPT !.pc = "waiting", !.by = c, !.on = a, !.tries = tries, !.from = 0]
           begun == [Idle EXCEPT !.pc = "begun"]
<1>2. own \in Attempts /\ a \in Attempts
  BY DEF Attempts
<1>3. r \in CallRec /\ r.pc = "waiting" /\ r.by = c /\ r.tries = tries
  <2>1. 0 \in 0..MaxBoots /\ tries \in 0..2
    BY Constants
  <2> QED
    BY <1>1, <1>2, <2>1 DEF CallRec, CallState
<1>4. begun \in AttemptRec /\ begun.pc = "begun"
  BY IdleType DEF AttemptState, Idle
<1>5. call' = [call EXCEPT ![k] = r]
  BY DEF EnsureSession
<1>6. attempt' = IF cached = None THEN [attempt EXCEPT ![own] = begun] ELSE attempt
  BY <1>2, Constants DEF EnsureSession
<1>7. connecting' \in [Clients -> Attempts \cup {None}]
  BY <1>1, <1>2 DEF EnsureSession, ClientsOK
<1> HIDE DEF r, begun, a
<1>8. call' \in [Calls -> CallRec] /\ attempt' \in [Attempts -> AttemptRec]
  BY <1>1, <1>2, <1>3, <1>4, <1>5, <1>6 DEF ClientsOK
<1>9. \A j \in Calls : call'[j] = IF j = k THEN r ELSE call[j]
  BY <1>1, <1>5 DEF ClientsOK
<1>10. \A b \in Attempts : attempt'[b] = IF cached = None /\ b = own THEN begun ELSE attempt[b]
  BY <1>1, <1>2, <1>6 DEF ClientsOK
<1>11. \A b \in Attempts : b[1] \in Calls
  BY DEF Attempts
<1>12. AttemptsAreOwned'
  <2> SUFFICES ASSUME NEW b \in Attempts
               PROVE  /\ attempt'[b].pc # "none" => call'[b[1]].by \in Clients
                      /\ attempt'[b].pc = "run" => attempt'[b].round # 0
    BY DEF AttemptsAreOwned, OwnerOf
  <2>1. b[1] = k => call'[b[1]].by = c
    BY <1>3, <1>9, <1>11
  <2>2. b[1] # k => call'[b[1]] = call[b[1]] /\ attempt'[b] = attempt[b]
    BY <1>9, <1>10, <1>11
  <2>3. attempt'[b].pc = "run" => attempt'[b] = attempt[b]
    BY <1>4, <1>10
  <2> QED
    BY <2>1, <2>2, <2>3 DEF SessionsInv, LinkInv, AttemptsAreOwned, OwnerOf
<1>13. CallsAreOwned'
  BY <1>3, <1>9 DEF SessionsInv, LinkInv, CallsAreOwned
<1>14. HandshakesAreFresh'
  <2> SUFFICES ASSUME NEW j \in Calls
               PROVE  /\ call'[j].pc = "none" => attempt'[<<j, 1>>].pc = "none"
                                                /\ attempt'[<<j, 2>>].pc = "none"
                      /\ call'[j].tries # 2 => attempt'[<<j, 2>>].pc = "none"
    BY DEF HandshakesAreFresh
  <2>1. <<j, 1>> \in Attempts /\ <<j, 2>> \in Attempts
    BY DEF Attempts
  <2>2. CASE j # k
    <3>1. <<j, 1>> # own /\ <<j, 2>> # own
      BY <2>2
    <3>2. attempt'[<<j, 1>>] = attempt[<<j, 1>>] /\ attempt'[<<j, 2>>] = attempt[<<j, 2>>]
      BY <1>10, <2>1, <3>1
    <3> QED
      BY <1>9, <2>2, <3>2 DEF SessionsInv, LinkInv, HandshakesAreFresh
  <2>3. CASE j = k
    <3>1. call'[j].pc = "waiting" /\ call'[j].tries = tries
      BY <1>3, <1>9, <2>3
    <3>2. CASE tries = 1
      <4>1. <<j, 2>> # own
        BY <3>2
      <4>2. attempt[<<j, 2>>].pc = "none"
        BY <2>3, <3>2 DEF SessionsInv, LinkInv, HandshakesAreFresh
      <4> QED
        BY <1>10, <2>1, <3>1, <4>1, <4>2
    <3>3. CASE tries = 2
      BY <3>1, <3>3
    <3> QED
      BY <3>2, <3>3
  <2> QED
    BY <2>2, <2>3
<1> QED
  BY <1>7, <1>8, <1>12, <1>13, <1>14 DEF LinkInv

LEMMA CallKeepsClients ==
  ASSUME SessionsInv, NEW k \in Calls, call[k].pc \notin {"none", "cut"},
         NEW pc \in CallState \ {"none"}, NEW on \in Attempts \cup {None},
         NEW from \in 0..MaxBoots,
         call' = [call EXCEPT ![k] = [@ EXCEPT !.pc = pc, !.on = on, !.from = from]],
         UNCHANGED <<client, connecting, current, attempt, excused>>, steady' \subseteq steady
  PROVE  ClientsOK' /\ LinkInv'
<1>1. ClientsOK /\ call[k] \in CallRec
  BY TypeHalves DEF SessionsInv, ClientsOK
<1> DEFINE r == [call[k] EXCEPT !.pc = pc, !.on = on, !.from = from]
<1>2. r \in CallRec /\ r.pc # "none" /\ r.by = call[k].by /\ r.tries = call[k].tries
  BY <1>1 DEF CallRec
<1>3. call' = [call EXCEPT ![k] = r]
  OBVIOUS
<1> HIDE DEF r
<1>4. call' \in [Calls -> CallRec] /\ LinkInv'
  BY <1>2, <1>3, CallGoesOn
<1> QED
  BY <1>1, <1>4 DEF ClientsOK

LEMMA SettleKeepsInv ==
  ASSUME SessionsInv, NEW k \in Calls, call[k].pc \notin {"none", "cut"},
         NEW how \in Settled, Settle(k, how)
  PROVE  StoresOK' /\ HouseIsBounded' /\ ClientsOK' /\ LinkInv'
<1>1. StoresOK' /\ HouseIsBounded'
  BY StoresUnchanged DEF Settle
<1>2. how \in CallState \ {"none"}
  BY DEF Settled, CallState
<1>3. /\ call' = [call EXCEPT ![k] = [@ EXCEPT !.pc = how, !.on = None, !.from = 0]]
      /\ UNCHANGED <<client, connecting, current, attempt, excused>> /\ steady' \subseteq steady
  BY DEF Settle
<1> QED
  BY <1>1, <1>2, <1>3, Constants, CallKeepsClients

LEMMA CallKeepsInv ==
  ASSUME SessionsInv, NEW k \in Calls, ToolCall(k) \/ \E c \in Clients : BeginCall(k, c)
  PROVE  StoresOK' /\ HouseIsBounded' /\ ClientsOK' /\ LinkInv'
<1>0. StoresOK /\ ClientsOK /\ call[k] \in CallRec
  BY TypeHalves DEF SessionsInv, ClientsOK
<1>1. CASE HandshakeFailed(k)
  BY <1>1, SettleKeepsInv DEF HandshakeFailed, Settled
<1>2. CASE Post(k)
  <2>1. UNCHANGED <<daemon, runFile, boots, bindVars, nonces, expired>>
        /\ sessions' \subseteq sessions
    BY <1>2 DEF Post, SweepDead
  <2>2. nonces' \subseteq Attempts \X {1, 2} /\ expired' \subseteq nonces'
    BY <1>0, <2>1 DEF StoresOK
  <2>3. StoresOK' /\ HouseIsBounded'
    BY <2>1, <2>2, StoresServed
  <2> DEFINE verdict == Authenticate(call[k].on)
  <2>4. verdict \in CallState \ {"none"}
    BY DEF Authenticate, CallState
  <2>5. call' = [call EXCEPT ![k] = [@ EXCEPT !.pc = verdict, !.from = Boot]]
    BY <1>2 DEF Post
  <2> HIDE DEF verdict
  <2>6. Boot \in 0..MaxBoots
    BY Runs DEF SessionsInv
  <2>7. [call[k] EXCEPT !.pc = verdict, !.from = Boot]
          = [call[k] EXCEPT !.pc = verdict, !.on = call[k].on, !.from = Boot]
    BY <1>0 DEF CallRec
  <2>8. call[k].on \in Attempts \cup {None}
    BY <1>0 DEF CallRec
  <2>9. call' = [call EXCEPT ![k] = [@ EXCEPT !.pc = verdict, !.on = call[k].on, !.from = Boot]]
    BY <2>5, <2>7
  <2>10. call[k].pc \notin {"none", "cut"}
         /\ UNCHANGED <<client, connecting, current, attempt, excused>> /\ steady' \subseteq steady
    BY <1>2 DEF Post
  <2>11. ClientsOK' /\ LinkInv'
    BY <2>4, <2>6, <2>8, <2>9, <2>10, CallKeepsClients
  <2> QED
    BY <2>3, <2>11
<1>3. CASE PostFailed(k)
  BY <1>3, SettleKeepsInv DEF PostFailed, Settled
<1>4. CASE Reconnect(k)
  <2>1. StoresOK' /\ HouseIsBounded'
    BY <1>4, StoresUnchanged DEF Reconnect
  <2>2. call[k].pc = "unauthorized" /\ call[k].by \in Clients
    BY <1>4 DEF Reconnect, SessionsInv, LinkInv, CallsAreOwned
  <2>3. EnsureSession(k, call[k].by, 2, None)
    BY <1>4 DEF Reconnect
  <2>4. /\ attempt' \in [Attempts -> AttemptRec] /\ call' \in [Calls -> CallRec]
        /\ connecting' \in [Clients -> Attempts \cup {None}] /\ LinkInv'
    BY <2>2, <2>3, EnsureKeepsClients
  <2>5. UNCHANGED <<client, steady>> /\ excused' \subseteq Clients
        /\ current' \in [Clients -> Attempts \cup {None}]
    BY <1>0, <1>4, <2>2 DEF Reconnect, ClientsOK
  <2> QED
    BY <1>0, <2>1, <2>4, <2>5 DEF ClientsOK
<1>5. CASE Answered(k)
  BY <1>5, SettleKeepsInv DEF Answered, Settled
<1>6. CASE AnswerLost(k)
  BY <1>6, SettleKeepsInv DEF AnswerLost, Settled
<1>8. CASE TimesOut(k)
  BY <1>8, SettleKeepsInv DEF TimesOut, Settled
<1>7. ASSUME NEW c \in Clients, BeginCall(k, c)
      PROVE  StoresOK' /\ HouseIsBounded' /\ ClientsOK' /\ LinkInv'
  <2>1. StoresOK' /\ HouseIsBounded'
    BY <1>7, StoresUnchanged DEF BeginCall
  <2>2. call[k].pc = "none" /\ EnsureSession(k, c, 1, SharedPromise(c))
    BY <1>7 DEF BeginCall
  <2>3. SharedPromise(c) \in Attempts \cup {None}
    BY <1>0 DEF ClientsOK, SharedPromise
  <2>4. /\ attempt' \in [Attempts -> AttemptRec] /\ call' \in [Calls -> CallRec]
        /\ connecting' \in [Clients -> Attempts \cup {None}] /\ LinkInv'
    BY <2>2, <2>3, EnsureKeepsClients
  <2>5. UNCHANGED <<client, current, excused>> /\ steady' \subseteq Calls
    BY <1>0, <1>7 DEF BeginCall, ClientsOK
  <2> QED
    BY <1>0, <2>1, <2>4, <2>5 DEF ClientsOK
<1> QED
  BY <1>1, <1>2, <1>3, <1>4, <1>5, <1>6, <1>7, <1>8 DEF ToolCall

-----------------------------------------------------------------------------
\* The end of a client.

LEMMA DeathKeepsInv ==
  ASSUME SessionsInv, NEW c \in Clients, Die(c)
  PROVE  StoresOK' /\ HouseIsBounded' /\ ClientsOK' /\ LinkInv'
<1>1. ClientsOK
  BY TypeHalves DEF SessionsInv
<1>2. StoresOK' /\ HouseIsBounded'
  BY StoresUnchanged DEF Die
<1>3. Cut \in CallRec /\ Cut.pc = "cut"
  <2>1. 0 \in 0..MaxBoots /\ 0 \in 0..2
    BY Constants
  <2> QED
    BY <2>1 DEF Cut, NoCall, CallRec, CallState, Settled
<1>4. \A a \in Attempts : attempt'[a] = IF OwnerOf(a) = c THEN Idle ELSE attempt[a]
  BY DEF Die
<1>5. \A k \in Calls : call'[k] = IF call[k].by = c THEN Cut ELSE call[k]
  BY DEF Die
<1>6. attempt' \in [Attempts -> AttemptRec]
  BY <1>1, IdleType DEF Die, ClientsOK
<1>7. call' \in [Calls -> CallRec]
  BY <1>1, <1>3 DEF Die, ClientsOK
<1>8. ClientsOK'
  BY <1>1, <1>6, <1>7 DEF Die, ClientsOK
<1>9. Idle.pc = "none" /\ Idle.pc # "run"
  BY DEF Idle
<1>10. \A a \in Attempts : a[1] \in Calls
  BY DEF Attempts
<1>11. AttemptsAreOwned'
  <2> SUFFICES ASSUME NEW a \in Attempts
               PROVE  /\ attempt'[a].pc # "none" => call'[a[1]].by \in Clients
                      /\ attempt'[a].pc = "run" => attempt'[a].round # 0
    BY DEF AttemptsAreOwned, OwnerOf
  <2>1. OwnerOf(a) # c => call'[a[1]] = call[a[1]] /\ attempt'[a] = attempt[a]
    BY <1>4, <1>5, <1>10 DEF OwnerOf
  <2>2. OwnerOf(a) = c => attempt'[a] = Idle
    BY <1>4
  <2> QED
    BY <1>9, <2>1, <2>2 DEF SessionsInv, LinkInv, AttemptsAreOwned, OwnerOf
<1>12. CallsAreOwned'
  BY <1>3, <1>5 DEF SessionsInv, LinkInv, CallsAreOwned
<1>13. HandshakesAreFresh'
  <2> SUFFICES ASSUME NEW k \in Calls
               PROVE  /\ call'[k].pc = "none" => attempt'[<<k, 1>>].pc = "none"
                                                /\ attempt'[<<k, 2>>].pc = "none"
                      /\ call'[k].tries # 2 => attempt'[<<k, 2>>].pc = "none"
    BY DEF HandshakesAreFresh
  <2>1. /\ <<k, 1>> \in Attempts /\ <<k, 2>> \in Attempts
        /\ OwnerOf(<<k, 1>>) = call[k].by /\ OwnerOf(<<k, 2>>) = call[k].by
    BY DEF Attempts, OwnerOf
  <2>2. CASE call[k].by = c
    BY <1>4, <1>9, <2>1, <2>2
  <2>3. CASE call[k].by # c
    <3>1. call'[k] = call[k] /\ attempt'[<<k, 1>>] = attempt[<<k, 1>>]
          /\ attempt'[<<k, 2>>] = attempt[<<k, 2>>]
      BY <1>4, <1>5, <2>1, <2>3
    <3> QED
      BY <3>1 DEF SessionsInv, LinkInv, HandshakesAreFresh
  <2> QED
    BY <2>2, <2>3
<1> QED
  BY <1>2, <1>8, <1>11, <1>12, <1>13 DEF LinkInv

LEMMA EndKeepsInv ==
  ASSUME SessionsInv, NEW c \in Clients, Close(c) \/ EndOf(c) \/ Kill(c)
  PROVE  StoresOK' /\ HouseIsBounded' /\ ClientsOK' /\ LinkInv'
<1>0. StoresOK /\ ClientsOK
  BY TypeHalves DEF SessionsInv
<1>1. CASE Close(c) \/ ReleaseNothing(c) \/ ReleaseGivesUp(c)
  <2>1. StoresOK' /\ HouseIsBounded'
    BY <1>1, StoresUnchanged DEF Close, ReleaseNothing, ReleaseGivesUp
  <2>2. UNCHANGED <<connecting, current, attempt, call, steady>>
    BY <1>1 DEF Close, ReleaseNothing, ReleaseGivesUp
  <2>3. client' \in [Clients -> {"up", "releasing", "leaving", "gone"}] /\ excused' \subseteq Clients
    BY <1>0, <1>1 DEF Close, ReleaseNothing, ReleaseGivesUp, ClientsOK
  <2>4. LinkInv'
    BY <2>2 DEF SessionsInv, LinkInv, AttemptsAreOwned, CallsAreOwned, HandshakesAreFresh, OwnerOf
  <2> QED
    BY <1>0, <2>1, <2>2, <2>3, <2>4 DEF ClientsOK
<1>2. CASE Release(c)
  <2>1. UNCHANGED <<daemon, runFile, boots, bindVars, nonces, expired>>
        /\ sessions' \subseteq sessions
    BY <1>2 DEF Release
  <2>2. nonces' \subseteq Attempts \X {1, 2} /\ expired' \subseteq nonces'
    BY <1>0, <2>1 DEF StoresOK
  <2>3. StoresOK' /\ HouseIsBounded'
    BY <2>1, <2>2, StoresServed
  <2>4. UNCHANGED <<attempt, call, excused, steady>>
    BY <1>2 DEF Release
  <2>5. /\ client' \in [Clients -> {"up", "releasing", "leaving", "gone"}]
        /\ current' \in [Clients -> Attempts \cup {None}]
        /\ connecting' \in [Clients -> Attempts \cup {None}]
    BY <1>0, <1>2 DEF Release, ClientsOK
  <2>6. LinkInv'
    BY <2>4 DEF SessionsInv, LinkInv, AttemptsAreOwned, CallsAreOwned, HandshakesAreFresh, OwnerOf
  <2> QED
    BY <1>0, <2>3, <2>4, <2>5, <2>6 DEF ClientsOK
<1>3. CASE ReleaseFails(c)
  <2>1. StoresOK' /\ HouseIsBounded'
    BY <1>3, StoresUnchanged DEF ReleaseFails
  <2>2. UNCHANGED <<attempt, call, steady>>
    BY <1>3 DEF ReleaseFails
  <2>3. /\ client' \in [Clients -> {"up", "releasing", "leaving", "gone"}]
        /\ current' \in [Clients -> Attempts \cup {None}]
        /\ connecting' \in [Clients -> Attempts \cup {None}]
        /\ excused' \subseteq Clients
    BY <1>0, <1>3 DEF ReleaseFails, ClientsOK
  <2>4. LinkInv'
    BY <2>2 DEF SessionsInv, LinkInv, AttemptsAreOwned, CallsAreOwned, HandshakesAreFresh, OwnerOf
  <2> QED
    BY <1>0, <2>1, <2>2, <2>3, <2>4 DEF ClientsOK
<1>4. CASE Leave(c) \/ Kill(c)
  BY <1>4, DeathKeepsInv DEF Leave, Kill
<1> QED
  BY <1>1, <1>2, <1>3, <1>4 DEF EndOf

LEMMA NextSessionsInv == SessionsInv /\ [Next]_vars => SessionsInv'
<1> SUFFICES ASSUME SessionsInv, [Next]_vars PROVE SessionsInv'
  OBVIOUS
<1>1. CASE Start \/ Stop \/ Expire \/ Rebind
  BY <1>1, DaemonKeepsInv
<1>2. ASSUME NEW a \in Attempts, Handshake(a) PROVE SessionsInv'
  BY <1>2, HandshakeKeepsInv, TypeHalvesNext DEF SessionsInv
<1>3. ASSUME NEW k \in Calls, ToolCall(k) \/ \E c \in Clients : BeginCall(k, c)
      PROVE  SessionsInv'
  BY <1>3, CallKeepsInv, TypeHalvesNext DEF SessionsInv
<1>4. ASSUME NEW c \in Clients, Close(c) \/ EndOf(c) \/ Kill(c) PROVE SessionsInv'
  BY <1>4, EndKeepsInv, TypeHalvesNext DEF SessionsInv
<1>5. CASE UNCHANGED vars
  <2>1. StoresOK' /\ HouseIsBounded'
    BY <1>5, StoresUnchanged DEF vars
  <2>2. ClientsOK' /\ LinkInv'
    BY <1>5, ClientsUnchanged DEF vars
  <2> QED
    BY <2>1, <2>2, TypeHalvesNext DEF SessionsInv
<1> QED
  BY <1>1, <1>2, <1>3, <1>4, <1>5 DEF Next

LEMMA SpecSessionsInv == Spec => []SessionsInv
BY InitSessionsInv, NextSessionsInv, PTL DEF Spec

\* The daemon, its two stores, the handshakes, the calls and the clients keep
\* their types, through restarts, rebindings, lost answers and deaths.
THEOREM SessionsTypeCorrect == Spec => []TypeOK
<1>1. SessionsInv => TypeOK
  BY DEF SessionsInv
<1> QED
  BY <1>1, SpecSessionsInv, PTL

-----------------------------------------------------------------------------
\* Who is turned away, and for whom.

LEMMA RefusedForTheLiving ==
  ASSUME SessionsInv, NEW a \in Attempts, Open(a), ~Minted(a)
  PROVE  \/ attempt[a].run.boot # daemon.boot
         \/ /\ Cardinality(sessions') = Capacity
            /\ \A s \in sessions' : client[s.client] # "gone"
<1>1. sessions' = SweepDead(sessions) /\ sessions' \subseteq sessions
  BY DEF Open, SweepDead
<1>2. HouseIsBounded' /\ HouseIsBounded
  BY <1>1, FewerSessions DEF SessionsInv
<1>3. Cardinality(sessions') \in Nat /\ Cardinality(sessions') <= Capacity
  BY <1>2, FS_CardinalityType DEF HouseIsBounded
<1>4. attempt[a].run.boot = daemon.boot => ~(Cardinality(sessions') < Capacity)
  BY <1>1 DEF Minted
<1>5. \A s \in sessions' : client[s.client] # "gone"
  BY <1>1 DEF SweepDead
<1> QED
  BY <1>3, <1>4, <1>5, Constants

\* The property of one attempt in one step.
FairlyRefused(a) ==
  /\ Refused(a) => \/ attempt[a].run.boot # daemon.boot
                   \/ /\ Cardinality(sessions') = Capacity
                      /\ \A s \in sessions' : client[s.client] # "gone"
  /\ NotIdentified(a) => Cardinality(nonces \ expired) >= Capacity

\* A step that leaves an attempt alone, or forgets it, refuses it nothing.
LEMMA LeftAlone ==
  ASSUME NEW a \in Attempts, attempt'[a] \in {attempt[a], Idle}
  PROVE  FairlyRefused(a)
BY DEF FairlyRefused, Refused, NotIdentified, Idle

\* An attempt that was not at its identity moves on, but not to "full".
LEMMA MovedOn ==
  ASSUME NEW a \in Attempts, attempt[a].pc # "run", attempt'[a].pc # "full"
  PROVE  FairlyRefused(a)
BY DEF FairlyRefused, Refused, NotIdentified

LEMMA HandshakeRefusesFairly ==
  ASSUME SessionsInv, NEW a \in Attempts, Handshake(a), NEW b \in Attempts
  PROVE  FairlyRefused(b)
<1>0. attempt \in [Attempts -> AttemptRec]
  BY TypeHalves DEF SessionsInv, ClientsOK
<1>1. \A r : SetAttempt(a, r) => attempt'[a] = r /\ (b # a => attempt'[b] = attempt[b])
  BY <1>0 DEF SetAttempt
<1>2. PICK r : SetAttempt(a, r)
  BY DEF Handshake, FindDaemon, FindAgain, AskIdentity, IdentityRefused, NotVerified, Open,
         OpenRefused, Opened, OpenedLost, RetryProof, UseRun, FailAttempt
<1>3. CASE b # a
  BY <1>1, <1>2, <1>3, LeftAlone
<1>4. CASE b = a
  <2>1. \A why : FailAttempt(a, why) => attempt'[a] = [Idle EXCEPT !.pc = why] /\ attempt'[a].pc = why
    BY <1>1 DEF FailAttempt, Idle
  <2>2. \A n \in {1, 2} : UseRun(a, n) => attempt'[a].pc = "run"
    BY <1>0 DEF UseRun, SetAttempt, AttemptRec
  <2>3. RetryProof(a) => attempt'[a].pc \in {"run", "down"}
    BY <2>1, <2>2 DEF RetryProof
  <2>4. CASE AskIdentity(a)
    <3>1. attempt'[a].pc = "asked"
      BY <1>0, <2>4 DEF AskIdentity, SetAttempt, AttemptRec
    <3> QED
      BY <1>4, <3>1 DEF FairlyRefused, Refused, NotIdentified
  <2>5. CASE IdentityRefused(a)
    <3>1. attempt'[a].pc # "full"
      BY <2>3, <2>5 DEF IdentityRefused
    <3>2. ListensAt(attempt[a].run.port) => Cardinality(nonces \ expired) >= Capacity
      BY <2>5 DEF IdentityRefused, TableIsFull, SweepExpired
    <3> QED
      BY <1>4, <3>1, <3>2 DEF FairlyRefused, Refused, NotIdentified
  <2>6. CASE Open(a)
    <3>1. attempt[a].pc # "run"
      BY <2>6 DEF Open, Verified
    <3>2. CASE Minted(a)
      <4>1. attempt'[a].pc = "opened"
        BY <1>0, <2>6, <3>2 DEF Open, SetAttempt, AttemptRec
      <4> QED
        BY <1>4, <3>1, <4>1, MovedOn
    <3>3. CASE ~Minted(a)
      BY <1>4, <2>6, <3>1, <3>3, RefusedForTheLiving DEF FairlyRefused, NotIdentified
    <3> QED
      BY <3>2, <3>3
  <2>7. CASE FindDaemon(a) \/ FindAgain(a) \/ NotVerified(a) \/ OpenRefused(a) \/ Opened(a)
             \/ OpenedLost(a)
    <3>1. attempt[a].pc # "run"
      BY <2>7 DEF FindDaemon, FindAgain, NotVerified, OpenRefused, Opened, OpenedLost, Verified
    <3>2. CASE FindDaemon(a) /\ Running(runFile)
      <4>1. attempt'[a].pc = "found"
        BY <1>0, <3>2 DEF FindDaemon, SetAttempt, AttemptRec
      <4> QED
        BY <1>4, <3>1, <4>1, MovedOn
    <3>3. CASE FindAgain(a) /\ Running(runFile)
      BY <1>4, <2>2, <3>1, <3>3, MovedOn DEF FindAgain
    <3>4. CASE FailAttempt(a, "down") \/ FailAttempt(a, "refused")
      <4>1. attempt'[a].pc \in {"down", "refused"}
        BY <2>1, <3>4
      <4> QED
        BY <1>4, <3>1, <4>1, MovedOn
    <3>5. CASE NotVerified(a)
      BY <1>4, <2>3, <3>1, <3>5, MovedOn DEF NotVerified
    <3>6. CASE Opened(a)
      <4>1. attempt'[a].pc = "ready"
        BY <1>0, <3>6 DEF Opened, SetAttempt, Idle
      <4> QED
        BY <1>4, <3>1, <4>1, MovedOn
    <3>7. CASE OpenedLost(a)
      <4>1. attempt'[a] = [Idle EXCEPT !.pc = "refused"]
        BY <1>1, <3>7 DEF OpenedLost
      <4>2. attempt'[a].pc = "refused"
        BY <4>1 DEF Idle
      <4> QED
        BY <1>4, <3>1, <4>2, MovedOn
    <3> QED
      BY <2>7, <3>2, <3>3, <3>4, <3>5, <3>6, <3>7 DEF FindDaemon, FindAgain, OpenRefused
  <2> QED
    BY <2>4, <2>5, <2>6, <2>7 DEF Handshake
<1> QED
  BY <1>3, <1>4

\* A handshake begins where none was.
LEMMA CallsRefuseNobody ==
  ASSUME SessionsInv, NEW k \in Calls, ToolCall(k) \/ \E c \in Clients : BeginCall(k, c),
         NEW b \in Attempts
  PROVE  FairlyRefused(b)
<1>0. attempt \in [Attempts -> AttemptRec]
  BY TypeHalves DEF SessionsInv, ClientsOK
<1>1. \A j \in Calls : <<j, 1>> \in Attempts /\ <<j, 2>> \in Attempts
  BY DEF Attempts
<1>2. ASSUME NEW n \in {1, 2}, NEW c, NEW cached, EnsureSession(k, c, n, cached),
             attempt[<<k, n>>].pc = "none"
      PROVE  FairlyRefused(b)
  <2>1. attempt' = [attempt EXCEPT ![<<k, n>>] = [Idle EXCEPT !.pc = "begun"]]
        \/ attempt' = attempt
    BY <1>2 DEF EnsureSession
  <2>2. attempt'[b] = attempt[b] \/ (b = <<k, n>> /\ attempt'[b].pc = "begun")
    BY <1>0, <1>1, <2>1 DEF Idle
  <2>3. CASE attempt'[b] = attempt[b]
    BY <2>3, LeftAlone
  <2>4. CASE b = <<k, n>> /\ attempt'[b].pc = "begun"
    BY <1>2, <2>4, MovedOn
  <2> QED
    BY <2>2, <2>3, <2>4
<1>3. CASE Reconnect(k)
  <2>1. EnsureSession(k, call[k].by, 2, None) /\ call[k].tries # 2
    BY <1>3 DEF Reconnect
  <2>2. attempt[<<k, 2>>].pc = "none"
    BY <2>1 DEF SessionsInv, LinkInv, HandshakesAreFresh
  <2> QED
    BY <1>2, <2>1, <2>2
<1>4. ASSUME NEW c \in Clients, BeginCall(k, c) PROVE FairlyRefused(b)
  <2>1. EnsureSession(k, c, 1, SharedPromise(c)) /\ call[k].pc = "none"
    BY <1>4 DEF BeginCall
  <2>2. attempt[<<k, 1>>].pc = "none"
    BY <2>1 DEF SessionsInv, LinkInv, HandshakesAreFresh
  <2> QED
    BY <1>2, <2>1, <2>2
<1>5. CASE \/ HandshakeFailed(k) \/ Post(k) \/ PostFailed(k) \/ Answered(k)
           \/ AnswerLost(k) \/ TimesOut(k)
  <2>1. attempt' = attempt
    BY <1>5 DEF HandshakeFailed, Post, PostFailed, Answered, AnswerLost, TimesOut, Settle
  <2> QED
    BY <2>1, LeftAlone
<1> QED
  BY <1>3, <1>4, <1>5 DEF ToolCall

LEMMA EveryStepRefusesFairly ==
  ASSUME SessionsInv, Next, NEW b \in Attempts
  PROVE  FairlyRefused(b)
<1>1. CASE Start \/ Stop \/ Expire \/ Rebind
  <2>1. attempt' = attempt
    BY <1>1 DEF Start, Stop, Expire, Rebind, clientVars
  <2> QED
    BY <2>1, LeftAlone
<1>2. ASSUME NEW a \in Attempts, Handshake(a) PROVE FairlyRefused(b)
  BY <1>2, HandshakeRefusesFairly
<1>3. ASSUME NEW k \in Calls, ToolCall(k) \/ \E c \in Clients : BeginCall(k, c)
      PROVE  FairlyRefused(b)
  BY <1>3, CallsRefuseNobody
<1>4. ASSUME NEW c \in Clients, Close(c) \/ EndOf(c) \/ Kill(c) PROVE FairlyRefused(b)
  <2>1. attempt'[b] \in {attempt[b], Idle}
    BY <1>4 DEF Close, EndOf, Kill, Release, ReleaseFails, ReleaseNothing, ReleaseGivesUp,
                Leave, Die
  <2> QED
    BY <2>1, LeftAlone
<1> QED
  BY <1>1, <1>2, <1>3, <1>4 DEF Next

\* A client is turned away only for living ones: a session is refused when
\* every place belongs to a client that is alive, an identity when the table
\* is full of handshakes that may still be finished.
THEOREM NobodyIsTurnedAwayForTheDead == Spec => OnlyTheLivingFillTheHouse
<1>1. SessionsInv /\ [Next]_vars =>
        [\A a \in Attempts :
           /\ Refused(a) => \/ attempt[a].run.boot # daemon.boot
                            \/ /\ Cardinality(sessions') = Capacity
                               /\ \A s \in sessions' : client[s.client] # "gone"
           /\ NotIdentified(a) => Cardinality(nonces \ expired) >= Capacity]_vars
  BY EveryStepRefusesFairly DEF FairlyRefused
<1> QED
  BY <1>1, SpecSessionsInv, PTL DEF Spec, OnlyTheLivingFillTheHouse

-----------------------------------------------------------------------------
\* Whose slots are taken.

InFlight == {"begun", "found", "run", "asked", "opened"}

\* Whoever waits for a handshake is the client that made it.
PointersAreOwned ==
  /\ \A c \in Clients : connecting[c] # None =>
       OwnerOf(connecting[c]) = c /\ attempt[connecting[c]].pc # "none"
  /\ \A k \in Calls : call[k].on # None =>
       OwnerOf(call[k].on) = call[k].by /\ attempt[call[k].on].pc # "none"

\* A session that was rejected has no slot, and its handshake never gets one.
RejectedHaveNoSlot ==
  \A k \in Calls :
    /\ call[k].pc = "waiting" => call[k].on # None
    /\ call[k].pc = "unauthorized" =>
         call[k].on # None /\ attempt[call[k].on].pc = "ready" /\ ~Known(call[k].on)

\* A client whose handshakes all go through its cached promise: at most one
\* is in flight, and only that of the promise has a slot, with the daemon at
\* which the client would give it back.
OneHandshake(c) ==
  \A a \in Attempts : (OwnerOf(a) = c /\ attempt[a].pc \in InFlight) =>
    /\ connecting[c] = a
    /\ attempt[a].pc \in {"run", "asked"} => attempt[a].port = attempt[a].run.port

CurrentIsCached(c) ==
  current[c] # None => connecting[c] = current[c] /\ attempt[current[c]].pc = "ready"

OneSlot(c) ==
  \A s \in SessionsOf(c) :
    /\ s.bearer = connecting[c]
    /\ attempt[s.bearer].pc \in {"opened", "ready"}
    /\ attempt[s.bearer].pc = "opened" => attempt[s.bearer].from = Boot
    /\ ListensAt(attempt[s.bearer].port)
    /\ \A t \in SessionsOf(c) : s = t

LeftNothing(c) == client[c] = "leaving" => connecting[c] = None

Tidy(c) == OneHandshake(c) /\ CurrentIsCached(c) /\ OneSlot(c) /\ LeftNothing(c)

TidyInv ==
  /\ SessionsInv /\ PointersAreOwned /\ RejectedHaveNoSlot
  /\ \A c \in Clients \ excused : client[c] # "gone" => Tidy(c)

LEMMA InitTidy == Init => TidyInv
<1> SUFFICES ASSUME Init PROVE TidyInv
  OBVIOUS
<1>1. SessionsInv
  BY InitSessionsInv
<1>2. PointersAreOwned /\ RejectedHaveNoSlot
  BY DEF Init, PointersAreOwned, RejectedHaveNoSlot, NoCall
<1>3. ASSUME NEW c \in Clients PROVE Tidy(c)
  BY <1>3 DEF Init, Tidy, OneHandshake, CurrentIsCached, OneSlot, LeftNothing, SessionsOf,
             InFlight, Idle
<1> QED
  BY <1>1, <1>2, <1>3 DEF TidyInv

\* A client is as tidy as before when nothing of it but its sessions changed,
\* and those only went.
LEMMA TidyFrame ==
  ASSUME TidyInv, NEW c \in Clients, c \notin excused, client[c] # "gone",
         connecting'[c] = connecting[c], current'[c] \in {current[c], None},
         \A a \in Attempts :
           (attempt'[a].pc \in InFlight /\ OwnerOf(a)' = c) =>
             OwnerOf(a) = c /\ attempt'[a] = attempt[a],
         \A a \in Attempts :
           (attempt[a].pc # "none" /\ OwnerOf(a) = c) => attempt'[a] = attempt[a],
         SessionsOf(c)' \subseteq SessionsOf(c),
         daemon' = daemon \/ SessionsOf(c)' = {},
         client'[c] = "leaving" => client[c] = "leaving" \/ connecting[c] = None
  PROVE  Tidy(c)'
<1>1. Tidy(c) /\ PointersAreOwned /\ TypeOK
  BY DEF TidyInv, SessionsInv
<1>2. connecting[c] # None =>
        /\ connecting[c] \in Attempts /\ OwnerOf(connecting[c]) = c
        /\ attempt[connecting[c]].pc # "none"
  BY <1>1 DEF PointersAreOwned, TypeOK
<1>3. OneHandshake(c)'
  BY <1>1 DEF Tidy, OneHandshake
<1>4. CurrentIsCached(c)'
  BY <1>1, <1>2 DEF Tidy, CurrentIsCached
<1>5. OneSlot(c)'
  <2>1. CASE SessionsOf(c)' = {}
    BY <2>1 DEF OneSlot
  <2>2. CASE daemon' = daemon
    <3> SUFFICES ASSUME NEW s \in SessionsOf(c)'
                 PROVE  /\ s.bearer = connecting'[c]
                        /\ attempt'[s.bearer].pc \in {"opened", "ready"}
                        /\ attempt'[s.bearer].pc = "opened" => attempt'[s.bearer].from = Boot'
                        /\ ListensAt(attempt[s.bearer].port)'
                        /\ \A t \in SessionsOf(c)' : s = t
      BY DEF OneSlot, ListensAt, Boot
    <3>1. s \in SessionsOf(c) /\ s.bearer \in Attempts
      BY <1>1 DEF SessionsOf, TypeOK
    <3>2. /\ s.bearer = connecting[c]
          /\ attempt[s.bearer].pc \in {"opened", "ready"}
          /\ attempt[s.bearer].pc = "opened" => attempt[s.bearer].from = Boot
          /\ ListensAt(attempt[s.bearer].port)
          /\ \A t \in SessionsOf(c) : s = t
      BY <1>1, <3>1 DEF Tidy, OneSlot
    <3>3. attempt'[s.bearer] = attempt[s.bearer]
      BY <1>2, <3>1, <3>2, Constants
    <3>4. Boot' = Boot /\ ListensAt(attempt[s.bearer].port)'
      BY <2>2, <3>2, <3>3 DEF Boot, ListensAt
    <3> QED
      BY <3>2, <3>3, <3>4
  <2> QED
    BY <2>1, <2>2
<1>6. LeftNothing(c)'
  BY <1>1 DEF Tidy, LeftNothing
<1> QED
  BY <1>3, <1>4, <1>5, <1>6 DEF Tidy

\* A tidy client's handshake in flight is the one it caches.
LEMMA InFlightIsCached ==
  ASSUME TidyInv, NEW a \in Attempts, attempt[a].pc \in InFlight,
         OwnerOf(a) \notin excused, client[OwnerOf(a)] # "gone"
  PROVE  /\ OwnerOf(a) \in Clients /\ Tidy(OwnerOf(a))
         /\ connecting[OwnerOf(a)] = a /\ a # None /\ current[OwnerOf(a)] = None
         /\ client[OwnerOf(a)] # "leaving"
         /\ \A b \in Attempts :
              OwnerOf(b) = OwnerOf(a) /\ attempt[b].pc \in InFlight => b = a
         /\ attempt[a].pc # "opened" => SessionsOf(OwnerOf(a)) = {}
<1>1. OwnerOf(a) \in Clients
  BY DEF TidyInv, SessionsInv, LinkInv, AttemptsAreOwned, InFlight
<1>2. Tidy(OwnerOf(a)) /\ a # None
  BY <1>1, Constants DEF TidyInv
<1>3. /\ connecting[OwnerOf(a)] = a
      /\ \A b \in Attempts :
           OwnerOf(b) = OwnerOf(a) /\ attempt[b].pc \in InFlight => b = a
  BY <1>2 DEF Tidy, OneHandshake
<1>4. current[OwnerOf(a)] = None
  BY <1>2, <1>3 DEF Tidy, CurrentIsCached, InFlight
<1>5. client[OwnerOf(a)] # "leaving"
  BY <1>2, <1>3 DEF Tidy, LeftNothing
<1>6. attempt[a].pc # "opened" => SessionsOf(OwnerOf(a)) = {}
  BY <1>2, <1>3 DEF Tidy, OneSlot, InFlight
<1> QED
  BY <1>1, <1>2, <1>3, <1>4, <1>5, <1>6

\* A step of one handshake.
LEMMA TidyHandshakeStep ==
  ASSUME TidyInv, SessionsInv', NEW a \in Attempts, attempt[a].pc \in InFlight,
         NEW r, r.pc # "none", SetAttempt(a, r), UNCHANGED <<call, client, daemon>>,
         excused \subseteq excused',
         \/ connecting' = connecting
         \/ connecting' = [connecting EXCEPT ![OwnerOf(a)] = None] /\ r.pc \notin InFlight,
         \/ current' = current
         \/ /\ current' = [current EXCEPT ![OwnerOf(a)] = a]
            /\ r.pc = "ready" /\ connecting' = connecting,
         sessions' \subseteq sessions \cup {Session(a)},
         OwnerOf(a) \notin excused' /\ client[OwnerOf(a)] # "gone" =>
           /\ r.pc \in {"run", "asked"} => r.port = r.run.port
           /\ OneSlot(OwnerOf(a))'
  PROVE  TidyInv'
<1> DEFINE o == OwnerOf(a)
<1>1. /\ TypeOK /\ PointersAreOwned /\ RejectedHaveNoSlot
      /\ o \in Clients /\ attempt[a].pc # "ready"
  BY DEF TidyInv, SessionsInv, LinkInv, AttemptsAreOwned, InFlight
<1>2. \A b \in Attempts : attempt'[b] = IF b = a THEN r ELSE attempt[b]
  BY <1>1 DEF SetAttempt, TypeOK
<1>3. \A b \in Attempts : OwnerOf(b)' = OwnerOf(b)
  BY DEF OwnerOf
<1>4. /\ connecting'[o] \in {connecting[o], None}
      /\ \A c \in Clients \ {o} : connecting'[c] = connecting[c] /\ current'[c] = current[c]
      /\ current'[o] = current[o] \/ (current'[o] = a /\ r.pc = "ready" /\ connecting'[o] = connecting[o])
      /\ r.pc \in InFlight => connecting'[o] = connecting[o]
  BY <1>1 DEF TypeOK
<1>5. PointersAreOwned'
  <2>1. ASSUME NEW c \in Clients, connecting'[c] # None
        PROVE  OwnerOf(connecting[c])' = c /\ attempt'[connecting'[c]].pc # "none"
    <3>1. connecting'[c] = connecting[c] /\ connecting[c] \in Attempts
      BY <1>1, <1>4, <2>1 DEF TypeOK
    <3> QED
      BY <1>1, <1>2, <2>1, <3>1 DEF PointersAreOwned, OwnerOf
  <2>2. ASSUME NEW k \in Calls, call[k].on # None
        PROVE  OwnerOf(call[k].on)' = call[k].by /\ attempt'[call[k].on].pc # "none"
    <3>1. call[k].on \in Attempts
      BY <1>1, <2>2 DEF TypeOK
    <3> QED
      BY <1>1, <1>2, <1>3, <2>2, <3>1 DEF PointersAreOwned
  <2> QED
    BY <2>1, <2>2 DEF PointersAreOwned, OwnerOf
<1>6. RejectedHaveNoSlot'
  <2> SUFFICES ASSUME NEW k \in Calls, call[k].pc = "unauthorized"
               PROVE  call[k].on # None /\ attempt'[call[k].on].pc = "ready"
                        /\ ~Known(call[k].on)'
    BY <1>1 DEF RejectedHaveNoSlot, Known
  <2>1. call[k].on # None /\ attempt[call[k].on].pc = "ready" /\ ~Known(call[k].on)
    BY <1>1 DEF RejectedHaveNoSlot
  <2>2. call[k].on \in Attempts /\ call[k].on # a
    BY <1>1, <2>1 DEF TypeOK
  <2>3. Session(a).bearer = a
    BY DEF Session
  <2> QED
    BY <1>2, <2>1, <2>2, <2>3 DEF Known
<1>7. ASSUME NEW c \in Clients, c \notin excused', client'[c] # "gone", c # o PROVE Tidy(c)'
  <2>1. Session(a).client = o
    BY DEF Session
  <2>2. SessionsOf(c)' \subseteq SessionsOf(c)
    BY <1>7, <2>1 DEF SessionsOf
  <2>3. c \notin excused /\ client[c] # "gone" /\ client'[c] = client[c]
    BY <1>7
  <2>4. connecting'[c] = connecting[c] /\ current'[c] \in {current[c], None}
    BY <1>4, <1>7
  <2>5. \A b \in Attempts : OwnerOf(b) = c => attempt'[b] = attempt[b]
    BY <1>2, <1>7
  <2> QED
    BY <1>3, <2>2, <2>3, <2>4, <2>5, TidyFrame
<1>8. ASSUME o \notin excused', client'[o] # "gone" PROVE Tidy(o)'
  <2>1. o \notin excused /\ client[o] # "gone"
    BY <1>8
  <2>2. /\ connecting[o] = a /\ a # None /\ current[o] = None /\ client[o] # "leaving"
        /\ \A b \in Attempts : OwnerOf(b) = o /\ attempt[b].pc \in InFlight => b = a
    BY <2>1, InFlightIsCached
  <2>3. OneHandshake(o)'
    <3> SUFFICES ASSUME NEW b \in Attempts, OwnerOf(b) = o, attempt'[b].pc \in InFlight
                 PROVE  /\ connecting'[o] = b
                        /\ attempt'[b].pc \in {"run", "asked"} =>
                             attempt'[b].port = attempt'[b].run.port
      BY <1>3 DEF OneHandshake, OwnerOf
    <3>1. b = a
      BY <1>2, <2>2
    <3>2. attempt'[b] = r
      BY <1>2, <3>1
    <3> QED
      BY <1>4, <1>8, <2>1, <2>2, <3>1, <3>2
  <2>4. CurrentIsCached(o)'
    <3>1. current'[o] # None => current'[o] = a /\ r.pc = "ready" /\ connecting'[o] = a
      BY <1>4, <2>2
    <3>2. attempt'[a] = r
      BY <1>2
    <3> QED
      BY <3>1, <3>2 DEF CurrentIsCached, OwnerOf
  <2>5. OneSlot(o)'
    BY <1>8, <2>1
  <2>6. LeftNothing(o)'
    BY <2>2 DEF LeftNothing, OwnerOf
  <2> QED
    BY <2>3, <2>4, <2>5, <2>6 DEF Tidy, OwnerOf
<1> QED
  BY <1>5, <1>6, <1>7, <1>8 DEF TidyInv, OwnerOf

\* A handshake fails: its client has no slot and caches nothing.
LEMMA TidyFail ==
  ASSUME TidyInv, SessionsInv', NEW a \in Attempts, attempt[a].pc \in InFlight,
         NEW why \in {"down", "refused", "full"}, FailAttempt(a, why), daemon' = daemon,
         sessions' \subseteq sessions, attempt[a].pc # "opened"
  PROVE  TidyInv'
<1> DEFINE r == [Idle EXCEPT !.pc = why]
<1>1. r.pc = why
  BY DEF Idle
<1>2. r.pc # "none" /\ r.pc \notin InFlight /\ SetAttempt(a, r)
  BY <1>1 DEF FailAttempt, InFlight
<1>3. /\ connecting' = [connecting EXCEPT ![OwnerOf(a)] = None]
      /\ UNCHANGED <<client, current, call, excused, steady>>
  BY DEF FailAttempt
<1>4. ASSUME OwnerOf(a) \notin excused, client[OwnerOf(a)] # "gone"
      PROVE  OneSlot(OwnerOf(a))'
  <2>1. /\ Tidy(OwnerOf(a)) /\ connecting[OwnerOf(a)] = a
        /\ attempt[a].pc # "opened" => SessionsOf(OwnerOf(a)) = {}
    BY <1>4, InFlightIsCached
  <2>2. SessionsOf(OwnerOf(a)) = {}
    BY <2>1 DEF Tidy, OneSlot
  <2>3. SessionsOf(OwnerOf(a))' = {}
    BY <1>3, <2>2 DEF SessionsOf, OwnerOf
  <2> QED
    BY <2>3 DEF OneSlot
<1>5. r.pc \notin {"run", "asked"}
  BY <1>1
<1> HIDE DEF r
<1> QED
  BY <1>2, <1>3, <1>4, <1>5, TidyHandshakeStep

\* A handshake that has no session yet goes on.
LEMMA TidyGoesOn ==
  ASSUME TidyInv, SessionsInv', NEW a \in Attempts, attempt[a].pc \in InFlight \ {"opened"},
         NEW r, r.pc \in InFlight, SetAttempt(a, r),
         UNCHANGED <<call, client, daemon, connecting, current, sessions>>,
         excused \subseteq excused',
         r.pc \in {"run", "asked"} => r.port = r.run.port \/ OwnerOf(a) \in excused'
  PROVE  TidyInv'
<1>1. ASSUME OwnerOf(a) \notin excused', client[OwnerOf(a)] # "gone"
      PROVE  OneSlot(OwnerOf(a))'
  <2>1. SessionsOf(OwnerOf(a)) = {}
    BY <1>1, InFlightIsCached
  <2>2. SessionsOf(OwnerOf(a))' = {}
    BY <2>1 DEF SessionsOf, OwnerOf
  <2> QED
    BY <2>2 DEF OneSlot
<1>2. r.pc # "none"
  BY DEF InFlight
<1> QED
  BY <1>1, <1>2, TidyHandshakeStep

LEMMA TidyUseRun ==
  ASSUME TidyInv, SessionsInv', NEW a \in Attempts, attempt[a].pc \in InFlight \ {"opened"},
         NEW round, UseRun(a, round),
         UNCHANGED <<client, connecting, current, call, steady, daemon, sessions>>
  PROVE  TidyInv'
<1> DEFINE r == [attempt[a] EXCEPT !.pc = "run", !.run = runFile, !.round = round, !.from = 0]
<1>1. SetAttempt(a, r) /\ excused \subseteq excused'
  BY DEF UseRun
<1>2. r.pc = "run" /\ r.run = runFile /\ r.port = attempt[a].port
  <2>1. attempt[a] \in AttemptRec
    BY TypeHalves DEF TidyInv, SessionsInv, ClientsOK
  <2> QED
    BY <2>1 DEF AttemptRec
<1>3. r.port = r.run.port \/ OwnerOf(a) \in excused'
  BY <1>2 DEF UseRun
<1>4. r.pc \in InFlight
  BY <1>2 DEF InFlight
<1> HIDE DEF r
<1> QED
  BY <1>1, <1>3, <1>4, TidyGoesOn

LEMMA TidyRetry ==
  ASSUME TidyInv, SessionsInv', NEW a \in Attempts, attempt[a].pc \in {"run", "asked"},
         RetryProof(a), UNCHANGED <<daemon, sessions>>
  PROVE  TidyInv'
<1>0. attempt[a].pc \in InFlight \ {"opened"}
  BY DEF InFlight
<1>1. CASE UseRun(a, 2) /\ UNCHANGED <<client, connecting, current, call, steady>>
  BY <1>0, <1>1, TidyUseRun
<1>2. CASE FailAttempt(a, "down")
  BY <1>0, <1>2, TidyFail
<1> QED
  BY <1>1, <1>2 DEF RetryProof

\* The slot of a client that is minted one: the client has no other, and
\* would give it back to this daemon.
LEMMA TidyOpen ==
  ASSUME TidyInv, SessionsInv', NEW a \in Attempts, Open(a)
  PROVE  TidyInv'
<1>1. attempt[a].pc = "asked" /\ attempt[a] \in AttemptRec
  BY TypeHalves DEF Open, Verified, TidyInv, SessionsInv, ClientsOK
<1>2. attempt[a].pc \in InFlight /\ daemon' = daemon
  BY <1>1 DEF InFlight, Open
<1>3. CASE ~Minted(a)
  <2>1. FailAttempt(a, "full") /\ sessions' \subseteq sessions
    BY <1>3 DEF Open, SweepDead
  <2> QED
    BY <1>1, <1>2, <2>1, TidyFail
<1>4. CASE Minted(a)
  <2> DEFINE r == [attempt[a] EXCEPT !.pc = "opened", !.from = daemon.boot]
             o == OwnerOf(a)
  <2>1. r.pc = "opened" /\ r.from = daemon.boot /\ r.port = attempt[a].port
    BY <1>1 DEF AttemptRec
  <2>2. SetAttempt(a, r) /\ UNCHANGED <<client, connecting, current, call, excused, steady>>
    BY <1>4 DEF Open
  <2>3. sessions' \subseteq sessions \cup {Session(a)}
    BY <1>4 DEF Open, SweepDead
  <2> HIDE DEF r
  <2>4. ASSUME o \notin excused', client[o] # "gone" PROVE OneSlot(o)'
    <3>1. Tidy(o) /\ connecting[o] = a /\ SessionsOf(o) = {}
      BY <1>1, <1>2, <2>2, <2>4, InFlightIsCached
    <3>2. \A s \in sessions' : s.client = o => s = Session(a)
      BY <2>3, <3>1 DEF SessionsOf
    <3>3. Session(a).bearer = a
      BY DEF Session
    <3>4. attempt'[a] = r
      BY <2>2 DEF SetAttempt, TidyInv, SessionsInv, TypeOK
    <3>5. ListensAt(attempt[a].run.port) /\ attempt[a].port = attempt[a].run.port
      BY <1>1, <1>2, <3>1 DEF Open, Tidy, OneHandshake
    <3>6. Boot' = r.from /\ daemon' # None /\ daemon'.port = r.port
      BY <1>2, <2>1, <3>5 DEF Boot, ListensAt
    <3> SUFFICES ASSUME NEW s \in SessionsOf(o)'
                 PROVE  /\ s.bearer = connecting'[o]
                        /\ attempt'[s.bearer].pc \in {"opened", "ready"}
                        /\ attempt'[s.bearer].pc = "opened" => attempt'[s.bearer].from = Boot'
                        /\ ListensAt(attempt[s.bearer].port)'
                        /\ \A t \in SessionsOf(o)' : s = t
      BY <2>2 DEF OneSlot, OwnerOf
    <3>7. \A t \in SessionsOf(o)' : t = Session(a)
      BY <2>2, <3>2 DEF SessionsOf, OwnerOf
    <3>8. s.bearer = a
      BY <3>3, <3>7
    <3>9. ListensAt(attempt[s.bearer].port)'
      BY <3>4, <3>6, <3>8 DEF ListensAt
    <3> QED
      BY <2>1, <2>2, <3>1, <3>4, <3>6, <3>7, <3>8, <3>9
  <2>5. r.pc # "none" /\ r.pc \in InFlight /\ r.pc \notin {"run", "asked"}
    BY <2>1 DEF InFlight
  <2> QED
    BY <1>2, <2>2, <2>3, <2>4, <2>5, TidyHandshakeStep
<1> QED
  BY <1>3, <1>4

LEMMA TidyOpened ==
  ASSUME TidyInv, SessionsInv', NEW a \in Attempts, Opened(a)
  PROVE  TidyInv'
<1> DEFINE r == [Idle EXCEPT !.pc = "ready", !.port = attempt[a].port]
           o == OwnerOf(a)
<1>1. r.pc = "ready" /\ r.port = attempt[a].port
  BY DEF Idle
<1>2. /\ SetAttempt(a, r) /\ current' = [current EXCEPT ![o] = a]
      /\ attempt[a].pc = "opened" /\ attempt[a].pc \in InFlight
      /\ UNCHANGED <<daemon, sessions, client, connecting, call, excused, steady>>
  BY DEF Opened, InFlight, daemonVars
<1>3. attempt'[a] = r
  BY <1>2 DEF SetAttempt, TidyInv, SessionsInv, TypeOK
<1> HIDE DEF r
<1>4. ASSUME o \notin excused', client[o] # "gone" PROVE OneSlot(o)'
  <2>1. Tidy(o) /\ connecting[o] = a
    BY <1>2, <1>4, InFlightIsCached
  <2> SUFFICES ASSUME NEW s \in SessionsOf(o)'
               PROVE  /\ s.bearer = connecting'[o]
                      /\ attempt'[s.bearer].pc \in {"opened", "ready"}
                      /\ attempt'[s.bearer].pc = "opened" => attempt'[s.bearer].from = Boot'
                      /\ ListensAt(attempt[s.bearer].port)'
                      /\ \A t \in SessionsOf(o)' : s = t
    BY <1>2 DEF OneSlot, OwnerOf
  <2>2. SessionsOf(o)' = SessionsOf(o)
    BY <1>2 DEF SessionsOf, OwnerOf
  <2>3. /\ s.bearer = a /\ ListensAt(attempt[a].port)
        /\ \A t \in SessionsOf(o) : s = t
    BY <2>1, <2>2 DEF Tidy, OneSlot
  <2>4. ListensAt(attempt[s.bearer].port)'
    BY <1>1, <1>2, <1>3, <2>3 DEF ListensAt
  <2> QED
    BY <1>1, <1>2, <1>3, <2>1, <2>2, <2>3, <2>4
<1>5. r.pc # "none" /\ r.pc \notin {"run", "asked"}
  BY <1>1
<1> QED
  BY <1>1, <1>2, <1>4, <1>5, TidyHandshakeStep

LEMMA TidyHandshake ==
  ASSUME TidyInv, SessionsInv', NEW a \in Attempts, Handshake(a)
  PROVE  TidyInv'
<1>0. attempt[a] \in AttemptRec
  BY TypeHalves DEF TidyInv, SessionsInv, ClientsOK
<1>1. CASE FindDaemon(a)
  <2>1. /\ attempt[a].pc \in InFlight \ {"opened"} /\ attempt[a].pc # "opened"
        /\ daemon' = daemon /\ sessions' = sessions
    BY <1>1 DEF FindDaemon, InFlight, daemonVars
  <2>2. CASE Running(runFile)
    <3> DEFINE r == [attempt[a] EXCEPT !.pc = "found", !.port = runFile.port]
    <3>1. r.pc = "found"
      BY <1>0 DEF AttemptRec
    <3>2. SetAttempt(a, r) /\ UNCHANGED <<client, connecting, current, call, excused, steady>>
      BY <1>1, <2>2 DEF FindDaemon
    <3>3. r.pc \in InFlight /\ r.pc \notin {"run", "asked"}
      BY <3>1 DEF InFlight
    <3> HIDE DEF r
    <3> QED
      BY <2>1, <3>2, <3>3, TidyGoesOn
  <2>3. CASE ~Running(runFile)
    BY <1>1, <2>1, <2>3, TidyFail DEF FindDaemon
  <2> QED
    BY <2>2, <2>3
<1>2. CASE FindAgain(a)
  <2>1. /\ attempt[a].pc \in InFlight \ {"opened"} /\ attempt[a].pc # "opened"
        /\ daemon' = daemon /\ sessions' = sessions
    BY <1>2 DEF FindAgain, InFlight, daemonVars
  <2>2. CASE Running(runFile)
    BY <1>2, <2>1, <2>2, TidyUseRun DEF FindAgain
  <2>3. CASE ~Running(runFile)
    BY <1>2, <2>1, <2>3, TidyFail DEF FindAgain
  <2> QED
    BY <2>2, <2>3
<1>3. CASE AskIdentity(a)
  <2> DEFINE r == [attempt[a] EXCEPT !.pc = "asked", !.from = daemon.boot]
  <2>1. /\ r.pc = "asked" /\ r.port = attempt[a].port /\ r.run = attempt[a].run
    BY <1>0 DEF AttemptRec
  <2>2. /\ attempt[a].pc = "run" /\ SetAttempt(a, r)
        /\ UNCHANGED <<call, client, daemon, connecting, current, sessions, excused>>
    BY <1>3 DEF AskIdentity
  <2>3. attempt[a].pc \in InFlight \ {"opened"} /\ r.pc \in InFlight
    BY <2>1, <2>2 DEF InFlight
  <2> HIDE DEF r
  <2>4. CASE OwnerOf(a) \notin excused /\ client[OwnerOf(a)] # "gone"
    <3>1. r.port = r.run.port
      BY <2>1, <2>2, <2>3, <2>4, InFlightIsCached DEF Tidy, OneHandshake
    <3> QED
      BY <2>2, <2>3, <3>1, TidyGoesOn
  <2>5. CASE OwnerOf(a) \in excused
    BY <2>2, <2>3, <2>5, TidyGoesOn
  <2>6. CASE client[OwnerOf(a)] = "gone"
    BY <2>1, <2>2, <2>3, <2>6, TidyHandshakeStep DEF InFlight
  <2> QED
    BY <2>4, <2>5, <2>6
<1>4. CASE IdentityRefused(a) \/ NotVerified(a)
  <2>1. /\ attempt[a].pc \in {"run", "asked"} /\ RetryProof(a)
        /\ daemon' = daemon /\ sessions' = sessions
    BY <1>4 DEF IdentityRefused, NotVerified, daemonVars
  <2> QED
    BY <2>1, TidyRetry
<1>5. CASE OpenRefused(a)
  <2>1. /\ attempt[a].pc = "asked" /\ FailAttempt(a, "refused")
        /\ daemon' = daemon /\ sessions' \subseteq sessions
    BY <1>5 DEF OpenRefused, Verified, SweepDead
  <2>2. attempt[a].pc \in InFlight /\ attempt[a].pc # "opened"
    BY <2>1 DEF InFlight
  <2> QED
    BY <2>1, <2>2, TidyFail
<1>6. CASE OpenedLost(a)
  <2> DEFINE r == [Idle EXCEPT !.pc = "refused"]
  <2>1. r.pc = "refused"
    BY DEF Idle
  <2>2. /\ attempt[a].pc = "opened" /\ SetAttempt(a, r)
        /\ connecting' = [connecting EXCEPT ![OwnerOf(a)] = None]
        /\ UNCHANGED <<client, current, call, daemon, sessions>>
        /\ excused' = IF Known(a) THEN excused \cup {OwnerOf(a)} ELSE excused
    BY <1>6 DEF OpenedLost, daemonVars
  <2> HIDE DEF r
  <2>3. attempt[a].pc \in InFlight /\ r.pc \notin InFlight /\ r.pc \notin {"none", "run", "asked"}
    BY <2>1, <2>2 DEF InFlight
  <2>4. ASSUME OwnerOf(a) \notin excused', client[OwnerOf(a)] # "gone"
        PROVE  OneSlot(OwnerOf(a))'
    <3>1. OwnerOf(a) \notin excused /\ ~Known(a)
      BY <2>2, <2>4
    <3>2. Tidy(OwnerOf(a)) /\ connecting[OwnerOf(a)] = a
      BY <2>3, <2>4, <3>1, InFlightIsCached
    <3>3. SessionsOf(OwnerOf(a)) = {}
      BY <3>1, <3>2 DEF Tidy, OneSlot, SessionsOf, Known
    <3>4. SessionsOf(OwnerOf(a))' = {}
      BY <2>2, <3>3 DEF SessionsOf, OwnerOf
    <3> QED
      BY <3>4 DEF OneSlot
  <2>5. excused \subseteq excused' /\ sessions' \subseteq sessions \cup {Session(a)}
    BY <2>2
  <2> QED
    BY <2>2, <2>3, <2>4, <2>5, TidyHandshakeStep
<1> QED
  BY <1>1, <1>2, <1>3, <1>4, <1>5, <1>6, TidyOpen, TidyOpened DEF Handshake

\* A step of one call that leaves the handshakes alone.
LEMMA TidyCallStep ==
  ASSUME TidyInv, SessionsInv', NEW k \in Calls, NEW r,
         call' = [call EXCEPT ![k] = r],
         r.by = call[k].by, r.on \in {call[k].on, None}, r.pc # "waiting",
         r.pc = "unauthorized" =>
           r.on # None /\ attempt[r.on].pc = "ready" /\ ~Known(r.on),
         UNCHANGED <<client, connecting, current, attempt, excused, daemon>>,
         sessions' \subseteq sessions
  PROVE  TidyInv'
<1>1. TypeOK /\ PointersAreOwned /\ RejectedHaveNoSlot
  BY DEF TidyInv, SessionsInv
<1>2. \A j \in Calls : call'[j] = IF j = k THEN r ELSE call[j]
  BY <1>1 DEF TypeOK
<1>3. \A a \in Attempts : OwnerOf(a)' = OwnerOf(a)
  BY <1>2 DEF OwnerOf, Attempts
<1>4. PointersAreOwned'
  <2>1. ASSUME NEW c \in Clients, connecting[c] # None
        PROVE  OwnerOf(connecting[c])' = c /\ attempt[connecting[c]].pc # "none"
    <3>1. connecting[c] \in Attempts
      BY <1>1, <2>1 DEF TypeOK
    <3> QED
      BY <1>1, <1>3, <2>1, <3>1 DEF PointersAreOwned, OwnerOf
  <2>2. ASSUME NEW j \in Calls, call'[j].on # None
        PROVE  OwnerOf(call'[j].on) = call'[j].by /\ attempt[call'[j].on].pc # "none"
               /\ call'[j].on \in Attempts
    <3>1. call'[j].on = call[j].on /\ call'[j].by = call[j].by
      BY <1>2, <2>2
    <3> QED
      BY <1>1, <2>2, <3>1 DEF PointersAreOwned, TypeOK
  <2>3. ASSUME NEW j \in Calls, call'[j].on # None
        PROVE  call'[call'[j].on[1]].by = call'[j].by
    <3>1. call'[j].on[1] \in Calls
      BY <2>2, <2>3 DEF Attempts
    <3> QED
      BY <1>2, <2>2, <2>3, <3>1 DEF OwnerOf
  <2> QED
    BY <2>1, <2>2, <2>3 DEF PointersAreOwned, OwnerOf
<1>5. RejectedHaveNoSlot'
  <2> SUFFICES ASSUME NEW j \in Calls
               PROVE  /\ call'[j].pc = "waiting" => call'[j].on # None
                      /\ call'[j].pc = "unauthorized" =>
                           /\ call'[j].on # None /\ attempt[call'[j].on].pc = "ready"
                           /\ \A s \in sessions' : s.bearer # call'[j].on
    BY DEF RejectedHaveNoSlot, Known
  <2>1. CASE j = k
    BY <1>2, <2>1 DEF Known
  <2>2. CASE j # k
    BY <1>1, <1>2, <2>2 DEF RejectedHaveNoSlot, Known
  <2> QED
    BY <2>1, <2>2
<1>6. ASSUME NEW c \in Clients, c \notin excused, client[c] # "gone" PROVE Tidy(c)'
  <2>1. SessionsOf(c)' \subseteq SessionsOf(c)
    BY DEF SessionsOf
  <2>2. \A a \in Attempts :
          (attempt'[a].pc \in InFlight /\ OwnerOf(a)' = c) => OwnerOf(a) = c
    BY <1>3
  <2> QED
    BY <1>6, <2>1, <2>2, TidyFrame
<1> QED
  BY <1>4, <1>5, <1>6 DEF TidyInv

\* A call waits for the cached handshake or begins its own.
LEMMA TidyEnsure ==
  ASSUME TidyInv, SessionsInv', NEW k \in Calls, NEW c \in Clients, NEW n \in {1, 2},
         NEW cached \in {connecting[c], None}, EnsureSession(k, c, n, cached),
         attempt[<<k, n>>].pc = "none",
         \A i \in {1, 2} : attempt[<<k, i>>].pc # "none" => call[k].by = c,
         UNCHANGED <<client, daemon, sessions>>, excused \subseteq excused',
         current' = [current EXCEPT ![c] = None]
           \/ (current' = current /\ cached = connecting[c]),
         c \notin excused' =>
           /\ client[c] = "up"
           /\ cached = None => SessionsOf(c) = {}
                /\ \A a \in Attempts : OwnerOf(a) = c => attempt[a].pc \notin InFlight
  PROVE  TidyInv'
<1> DEFINE own == <<k, n>>
           a == IF cached = None THEN own ELSE cached
           r == [call[k] EXCEPT !.pc = "waiting", !.by = c, !.on = a, !.tries = n, !.from = 0]
           begun == [Idle EXCEPT !.pc = "begun"]
<1>1. /\ TypeOK /\ PointersAreOwned /\ RejectedHaveNoSlot
      /\ own \in Attempts /\ own # None /\ call[k] \in CallRec
  BY Constants, TypeHalves DEF TidyInv, SessionsInv, Attempts, ClientsOK
<1>2. r.pc = "waiting" /\ r.by = c /\ r.on = a /\ a # None /\ a \in Attempts
  BY <1>1 DEF CallRec, TypeOK
<1>3. begun.pc = "begun"
  BY DEF Idle
<1>4. /\ call' = [call EXCEPT ![k] = r]
      /\ connecting' = [connecting EXCEPT ![c] = a]
      /\ attempt' = IF cached = None THEN [attempt EXCEPT ![own] = begun] ELSE attempt
  BY <1>1 DEF EnsureSession
<1>5. own[1] = k /\ \A b \in Attempts : b[1] \in Calls /\ (b[1] = k => b \in {<<k, 1>>, <<k, 2>>})
  BY DEF Attempts
<1> HIDE DEF r, begun, a, own
<1>6. \A j \in Calls : call'[j] = IF j = k THEN r ELSE call[j]
  BY <1>1, <1>4 DEF TypeOK
<1>7. \A b \in Attempts : attempt'[b] = IF cached = None /\ b = own THEN begun ELSE attempt[b]
  BY <1>1, <1>4 DEF TypeOK
<1>8. connecting'[c] = a /\ \A d \in Clients \ {c} : connecting'[d] = connecting[d]
  BY <1>1, <1>4 DEF TypeOK
<1>9. attempt[own].pc = "none" /\ \A b \in Attempts : attempt[b].pc # "none" => attempt'[b] = attempt[b]
  BY <1>7 DEF own
<1>10. \A b \in Attempts : attempt[b].pc # "none" => OwnerOf(b)' = OwnerOf(b)
  <2> SUFFICES ASSUME NEW b \in Attempts, attempt[b].pc # "none"
               PROVE  call'[b[1]].by = call[b[1]].by
    BY DEF OwnerOf
  <2>1. CASE b[1] = k
    BY <1>2, <1>5, <1>6, <2>1
  <2>2. CASE b[1] # k
    BY <1>5, <1>6, <2>2
  <2> QED
    BY <2>1, <2>2
<1>11. OwnerOf(own)' = c
  BY <1>2, <1>5, <1>6 DEF OwnerOf
<1>12. /\ cached # None => a = connecting[c] /\ OwnerOf(a) = c /\ attempt[a].pc # "none"
       /\ cached = None => a = own
  BY <1>1 DEF a, PointersAreOwned
<1>13. OwnerOf(a)' = c /\ attempt'[a].pc # "none"
  <2>1. CASE cached = None
    <3>1. attempt'[a] = begun
      BY <1>2, <1>7, <1>12, <2>1
    <3> QED
      BY <1>3, <1>11, <1>12, <2>1, <3>1
  <2>2. CASE cached # None
    BY <1>2, <1>9, <1>10, <1>12, <2>2
  <2> QED
    BY <2>1, <2>2
<1>14. PointersAreOwned'
  <2>1. ASSUME NEW d \in Clients, connecting'[d] # None
        PROVE  call'[connecting'[d][1]].by = d /\ attempt'[connecting'[d]].pc # "none"
    <3>1. CASE d = c
      BY <1>8, <1>13, <3>1 DEF OwnerOf
    <3>2. CASE d # c
      <4>1. connecting'[d] = connecting[d] /\ connecting[d] \in Attempts
        BY <1>1, <1>8, <2>1, <3>2 DEF TypeOK
      <4>2. OwnerOf(connecting[d]) = d /\ attempt[connecting[d]].pc # "none"
        BY <1>1, <2>1, <4>1 DEF PointersAreOwned
      <4>3. \A b \in Attempts : attempt[b].pc # "none" => call'[b[1]].by = OwnerOf(b)
        BY <1>10 DEF OwnerOf
      <4> QED
        BY <1>9, <4>1, <4>2, <4>3
    <3> QED
      BY <3>1, <3>2
  <2>2. ASSUME NEW j \in Calls, call'[j].on # None
        PROVE  call'[call'[j].on[1]].by = call'[j].by /\ attempt'[call'[j].on].pc # "none"
    <3>1. CASE j = k
      BY <1>2, <1>6, <1>13, <3>1 DEF OwnerOf
    <3>2. CASE j # k
      <4>1. call'[j] = call[j] /\ call[j].on \in Attempts
        BY <1>1, <1>6, <2>2, <3>2 DEF TypeOK
      <4>2. OwnerOf(call[j].on) = call[j].by /\ attempt[call[j].on].pc # "none"
        BY <1>1, <2>2, <4>1 DEF PointersAreOwned
      <4>3. \A b \in Attempts : attempt[b].pc # "none" => call'[b[1]].by = OwnerOf(b)
        BY <1>10 DEF OwnerOf
      <4> QED
        BY <1>9, <4>1, <4>2, <4>3
    <3> QED
      BY <3>1, <3>2
  <2> QED
    BY <2>1, <2>2 DEF PointersAreOwned, OwnerOf
<1>15. RejectedHaveNoSlot'
  <2> SUFFICES ASSUME NEW j \in Calls
               PROVE  /\ call'[j].pc = "waiting" => call'[j].on # None
                      /\ call'[j].pc = "unauthorized" =>
                           /\ call'[j].on # None /\ attempt'[call'[j].on].pc = "ready"
                           /\ \A s \in sessions : s.bearer # call'[j].on
    BY DEF RejectedHaveNoSlot, Known
  <2>1. CASE j = k
    BY <1>2, <1>6, <2>1
  <2>2. CASE j # k
    <3>1. call'[j] = call[j] /\ call[j].on \in Attempts \cup {None}
      BY <1>1, <1>6, <2>2 DEF TypeOK
    <3> QED
      BY <1>1, <1>9, <3>1 DEF RejectedHaveNoSlot, Known
  <2> QED
    BY <2>1, <2>2
<1>16. ASSUME NEW d \in Clients, d \notin excused', client[d] # "gone",
              d # c \/ cached # None
       PROVE  Tidy(d)'
  <2>1. connecting'[d] = connecting[d] /\ current'[d] \in {current[d], None}
    BY <1>1, <1>8, <1>12, <1>16 DEF TypeOK
  <2>2. ASSUME NEW b \in Attempts, attempt'[b].pc \in InFlight, OwnerOf(b)' = d
        PROVE  OwnerOf(b) = d /\ attempt'[b] = attempt[b]
    <3>1. attempt[b].pc # "none"
      <4>1. CASE cached = None /\ b = own
        BY <1>11, <1>16, <2>2, <4>1
      <4>2. CASE ~(cached = None /\ b = own)
        BY <1>7, <2>2, <4>2 DEF InFlight
      <4> QED
        BY <4>1, <4>2
    <3> QED
      BY <1>9, <1>10, <2>2, <3>1
  <2>3. \A b \in Attempts :
          (attempt[b].pc # "none" /\ OwnerOf(b) = d) => attempt'[b] = attempt[b]
    BY <1>9
  <2>4. SessionsOf(d)' \subseteq SessionsOf(d)
    BY DEF SessionsOf
  <2>5. d \notin excused /\ client'[d] = client[d]
    BY <1>16
  <2> QED
    BY <1>16, <2>1, <2>2, <2>3, <2>4, <2>5, TidyFrame
<1>17. ASSUME c \notin excused', client[c] # "gone", cached = None PROVE Tidy(c)'
  <2>1. /\ c \notin excused /\ client[c] = "up" /\ SessionsOf(c) = {}
        /\ \A b \in Attempts : OwnerOf(b) = c => attempt[b].pc \notin InFlight
    BY <1>17
  <2>2. current'[c] = None
    <3>1. CASE current' = current /\ cached = connecting[c]
      BY <1>1, <1>17, <2>1, <3>1 DEF TidyInv, Tidy, CurrentIsCached
    <3>2. CASE current' = [current EXCEPT ![c] = None]
      BY <1>1, <3>2 DEF TypeOK
    <3> QED
      BY <3>1, <3>2
  <2>3. OneHandshake(c)'
    <3> SUFFICES ASSUME NEW b \in Attempts, OwnerOf(b)' = c, attempt'[b].pc \in InFlight
                 PROVE  b = own
      BY <1>3, <1>7, <1>8, <1>12, <1>17 DEF OneHandshake
    <3>1. CASE attempt[b].pc = "none"
      BY <1>7, <3>1 DEF InFlight
    <3>2. CASE attempt[b].pc # "none"
      BY <1>9, <1>10, <2>1, <3>2
    <3> QED
      BY <3>1, <3>2
  <2>4. SessionsOf(c)' = {}
    BY <2>1 DEF SessionsOf
  <2> QED
    BY <2>1, <2>2, <2>3, <2>4 DEF Tidy, CurrentIsCached, OneSlot, LeftNothing
<1> QED
  BY <1>14, <1>15, <1>16, <1>17 DEF TidyInv

LEMMA TidyCall ==
  ASSUME TidyInv, SessionsInv', NEW k \in Calls,
         ToolCall(k) \/ \E c \in Clients : BeginCall(k, c)
  PROVE  TidyInv'
<1>0. TypeOK /\ call[k] \in CallRec /\ PointersAreOwned /\ RejectedHaveNoSlot
  BY TypeHalves DEF TidyInv, SessionsInv, ClientsOK
<1>1. ASSUME NEW how \in Settled, Settle(k, how) PROVE TidyInv'
  <2> DEFINE r == [call[k] EXCEPT !.pc = how, !.on = None, !.from = 0]
  <2>1. r.pc = how /\ r.by = call[k].by /\ r.on = None
    BY <1>0 DEF CallRec
  <2>2. /\ call' = [call EXCEPT ![k] = r]
        /\ UNCHANGED <<client, connecting, current, attempt, excused, daemon, sessions>>
    BY <1>1 DEF Settle, daemonVars
  <2>3. r.pc \notin {"waiting", "unauthorized"}
    BY <2>1 DEF Settled
  <2> HIDE DEF r
  <2> QED
    BY <2>1, <2>2, <2>3, TidyCallStep
<1>2. CASE HandshakeFailed(k) \/ PostFailed(k) \/ Answered(k) \/ AnswerLost(k) \/ TimesOut(k)
  <2>1. \E how \in Settled : Settle(k, how)
    BY <1>2 DEF HandshakeFailed, PostFailed, Answered, AnswerLost, TimesOut, Settled
  <2> QED
    BY <1>1, <2>1
<1>3. CASE Post(k)
  <2> DEFINE verdict == Authenticate(call[k].on)
             r == [call[k] EXCEPT !.pc = verdict, !.from = Boot]
  <2>1. r.pc = verdict /\ r.by = call[k].by /\ r.on = call[k].on
    BY <1>0 DEF CallRec
  <2>2. verdict # "waiting" /\ (verdict = "unauthorized" => ~Known(call[k].on))
    BY DEF Authenticate
  <2>3. /\ call' = [call EXCEPT ![k] = r]
        /\ UNCHANGED <<client, connecting, current, attempt, excused, daemon>>
        /\ sessions' \subseteq sessions
    BY <1>3 DEF Post, SweepDead
  <2>4. call[k].on # None /\ attempt[call[k].on].pc = "ready"
    BY <1>0, <1>3 DEF Post, RejectedHaveNoSlot
  <2> HIDE DEF r, verdict
  <2> QED
    BY <2>1, <2>2, <2>3, <2>4, TidyCallStep
<1>4. CASE Reconnect(k)
  <2> DEFINE c == call[k].by
  <2>1. /\ c \in Clients /\ call[k].pc = "unauthorized" /\ EnsureSession(k, c, 2, None)
        /\ call[k].tries # 2
    BY <1>4 DEF Reconnect, TidyInv, SessionsInv, LinkInv, CallsAreOwned
  <2>2. attempt[<<k, 2>>].pc = "none"
    BY <2>1 DEF TidyInv, SessionsInv, LinkInv, HandshakesAreFresh
  <2>3. /\ UNCHANGED <<client, daemon, sessions>> /\ excused \subseteq excused'
        /\ current' = [current EXCEPT ![c] = None]
    BY <1>4 DEF Reconnect, daemonVars
  <2>4. ASSUME c \notin excused'
        PROVE  /\ client[c] = "up" /\ SessionsOf(c) = {}
               /\ \A a \in Attempts : OwnerOf(a) = c => attempt[a].pc \notin InFlight
    <3>1. connecting[c] \in {None, call[k].on} /\ client[c] = "up" /\ c \notin excused
      BY <1>4, <2>4 DEF Reconnect
    <3>2. Tidy(c)
      BY <2>1, <3>1 DEF TidyInv
    <3>3. /\ call[k].on # None /\ attempt[call[k].on].pc = "ready"
          /\ \A s \in sessions : s.bearer # call[k].on
      BY <1>0, <2>1 DEF RejectedHaveNoSlot, Known
    <3>4. SessionsOf(c) = {}
      <4>1. \A s \in SessionsOf(c) : s.bearer = connecting[c] /\ s.bearer # None
        BY <1>0, <3>2, Constants DEF Tidy, OneSlot, SessionsOf, TypeOK
      <4> QED
        BY <3>1, <3>3, <4>1 DEF SessionsOf
    <3>5. \A a \in Attempts : OwnerOf(a) = c => attempt[a].pc \notin InFlight
      BY <3>1, <3>2, <3>3, Constants DEF Tidy, OneHandshake, InFlight
    <3> QED
      BY <3>1, <3>4, <3>5
  <2> QED
    BY <2>1, <2>2, <2>3, <2>4, TidyEnsure
<1>5. ASSUME NEW c \in Clients, BeginCall(k, c) PROVE TidyInv'
  <2>1. /\ call[k].pc = "none" /\ client[c] = "up"
        /\ EnsureSession(k, c, 1, connecting[c])
        /\ UNCHANGED <<client, daemon, sessions, current, excused>>
    BY <1>5 DEF BeginCall, SharedPromise, daemonVars
  <2>2. attempt[<<k, 1>>].pc = "none" /\ attempt[<<k, 2>>].pc = "none"
    BY <2>1 DEF TidyInv, SessionsInv, LinkInv, HandshakesAreFresh
  <2>3. ASSUME c \notin excused', connecting[c] = None
        PROVE  /\ SessionsOf(c) = {}
               /\ \A a \in Attempts : OwnerOf(a) = c => attempt[a].pc \notin InFlight
    <3>1. Tidy(c)
      BY <2>1, <2>3 DEF TidyInv
    <3>2. \A s \in SessionsOf(c) : s.bearer = connecting[c] /\ s.bearer # None
      BY <1>0, <3>1, Constants DEF Tidy, OneSlot, SessionsOf, TypeOK
    <3> QED
      BY <2>3, <3>1, <3>2, Constants DEF Tidy, OneHandshake
  <2> QED
    BY <2>1, <2>2, <2>3, TidyEnsure
<1> QED
  BY <1>2, <1>3, <1>4, <1>5 DEF ToolCall

\* A step that leaves handshakes and calls alone.
LEMMA PointersStay ==
  ASSUME TidyInv, UNCHANGED <<attempt, call>>, sessions' \subseteq sessions,
         \A c \in Clients : connecting'[c] \in {connecting[c], None}
  PROVE  PointersAreOwned' /\ RejectedHaveNoSlot'
<1>1. PointersAreOwned'
  <2> SUFFICES ASSUME NEW c \in Clients, connecting'[c] # None
               PROVE  /\ call[connecting'[c][1]].by = c
                      /\ attempt[connecting'[c]].pc # "none"
    BY DEF TidyInv, PointersAreOwned, OwnerOf
  <2>1. connecting'[c] = connecting[c] /\ connecting[c] # None
    OBVIOUS
  <2> QED
    BY <2>1 DEF TidyInv, PointersAreOwned, OwnerOf
<1>2. RejectedHaveNoSlot'
  BY DEF TidyInv, RejectedHaveNoSlot, Known
<1> QED
  BY <1>1, <1>2

LEMMA TidyEnd ==
  ASSUME TidyInv, SessionsInv', NEW c \in Clients, Close(c) \/ EndOf(c)
  PROVE  TidyInv' \/ Leave(c)
<1> SUFFICES ASSUME ~Leave(c) PROVE TidyInv'
  OBVIOUS
<1>0. TypeOK
  BY DEF TidyInv, SessionsInv
<1>1. CASE Close(c) \/ ReleaseNothing(c) \/ ReleaseGivesUp(c)
  <2>1. /\ UNCHANGED <<daemon, sessions, connecting, current, attempt, call>>
        /\ excused \subseteq excused' /\ client[c] # "gone"
        /\ \/ client' = [client EXCEPT ![c] = "releasing"]
           \/ client' = [client EXCEPT ![c] = "leaving"]
                /\ (connecting[c] = None \/ c \in excused')
    BY <1>1 DEF Close, ReleaseNothing, ReleaseGivesUp, NothingPending, daemonVars
  <2>2. PointersAreOwned' /\ RejectedHaveNoSlot'
    BY <2>1, PointersStay
  <2>3. ASSUME NEW d \in Clients, d \notin excused', client'[d] # "gone" PROVE Tidy(d)'
    <3>1. d \notin excused /\ client[d] # "gone"
      BY <1>0, <2>1, <2>3 DEF TypeOK
    <3>2. client'[d] = "leaving" => client[d] = "leaving" \/ connecting[d] = None
      BY <1>0, <2>1, <2>3 DEF TypeOK
    <3>3. SessionsOf(d)' \subseteq SessionsOf(d)
      BY <2>1 DEF SessionsOf
    <3>4. \A a \in Attempts : OwnerOf(a)' = OwnerOf(a) /\ attempt'[a] = attempt[a]
      BY <2>1 DEF OwnerOf
    <3> QED
      BY <2>1, <3>1, <3>2, <3>3, <3>4, TidyFrame
  <2> QED
    BY <2>2, <2>3 DEF TidyInv
<1>2. CASE Release(c)
  <2>1. /\ UNCHANGED <<daemon, attempt, call, excused>>
        /\ client[c] = "releasing" /\ current[c] # None
        /\ client' = [client EXCEPT ![c] = "leaving"]
        /\ current' = [current EXCEPT ![c] = None]
        /\ connecting' = [connecting EXCEPT ![c] = None]
        /\ sessions' = IF ListensAt(attempt[current[c]].port)
                       THEN {s \in sessions : s.bearer # current[c]} ELSE sessions
    BY <1>2 DEF Release
  <2>2. \A d \in Clients : connecting'[d] = IF d = c THEN None ELSE connecting[d]
    BY <1>0, <2>1 DEF TypeOK
  <2>3. sessions' \subseteq sessions
    BY <2>1
  <2>4. PointersAreOwned' /\ RejectedHaveNoSlot'
    BY <2>1, <2>2, <2>3, PointersStay
  <2>5. ASSUME NEW d \in Clients, d \notin excused', client'[d] # "gone", d # c PROVE Tidy(d)'
    <3>1. /\ d \notin excused /\ client[d] # "gone" /\ client'[d] = client[d]
          /\ connecting'[d] = connecting[d] /\ current'[d] = current[d]
      BY <1>0, <2>1, <2>2, <2>5 DEF TypeOK
    <3>2. SessionsOf(d)' \subseteq SessionsOf(d)
      BY <2>3 DEF SessionsOf
    <3>3. \A a \in Attempts : OwnerOf(a)' = OwnerOf(a) /\ attempt'[a] = attempt[a]
      BY <2>1 DEF OwnerOf
    <3> QED
      BY <2>1, <3>1, <3>2, <3>3, TidyFrame
  <2>6. ASSUME c \notin excused PROVE Tidy(c)'
    <3>1. Tidy(c)
      BY <2>1, <2>6 DEF TidyInv
    <3>2. connecting[c] = current[c] /\ attempt[current[c]].pc = "ready"
      BY <2>1, <3>1 DEF Tidy, CurrentIsCached
    <3>3. \A s \in SessionsOf(c) : s.bearer = current[c] /\ ListensAt(attempt[current[c]].port)
      BY <3>1, <3>2 DEF Tidy, OneSlot
    <3>4. SessionsOf(c)' = {}
      BY <2>1, <3>3 DEF SessionsOf
    <3>5. \A a \in Attempts : OwnerOf(a) = c => attempt[a].pc \notin InFlight
      BY <3>1, <3>2 DEF Tidy, OneHandshake, InFlight
    <3>6. OneHandshake(c)'
      BY <2>1, <3>5 DEF OneHandshake, OwnerOf
    <3>7. connecting'[c] = None /\ current'[c] = None
      BY <1>0, <2>1 DEF TypeOK
    <3> QED
      BY <3>4, <3>6, <3>7 DEF Tidy, CurrentIsCached, OneSlot, LeftNothing
  <2> QED
    BY <2>1, <2>4, <2>5, <2>6 DEF TidyInv
<1>3. CASE ReleaseFails(c)
  <2>1. /\ UNCHANGED <<daemon, sessions, attempt, call>>
        /\ client[c] = "releasing" /\ current[c] # None
        /\ client' = [client EXCEPT ![c] = "leaving"]
        /\ current' = [current EXCEPT ![c] = None]
        /\ connecting' = [connecting EXCEPT ![c] = None]
        /\ excused' = IF Known(current[c]) THEN excused \cup {c} ELSE excused
    BY <1>3 DEF ReleaseFails, daemonVars
  <2>2. \A d \in Clients : connecting'[d] = IF d = c THEN None ELSE connecting[d]
    BY <1>0, <2>1 DEF TypeOK
  <2>3. PointersAreOwned' /\ RejectedHaveNoSlot'
    BY <2>1, <2>2, PointersStay
  <2>4. ASSUME NEW d \in Clients, d \notin excused', client'[d] # "gone", d # c PROVE Tidy(d)'
    <3>1. /\ d \notin excused /\ client[d] # "gone" /\ client'[d] = client[d]
          /\ connecting'[d] = connecting[d] /\ current'[d] = current[d]
      BY <1>0, <2>1, <2>2, <2>4 DEF TypeOK
    <3>2. SessionsOf(d)' \subseteq SessionsOf(d)
      BY <2>1 DEF SessionsOf
    <3>3. \A a \in Attempts : OwnerOf(a)' = OwnerOf(a) /\ attempt'[a] = attempt[a]
      BY <2>1 DEF OwnerOf
    <3> QED
      BY <2>1, <3>1, <3>2, <3>3, TidyFrame
  <2>5. ASSUME c \notin excused' PROVE Tidy(c)'
    <3>1. Tidy(c) /\ ~Known(current[c])
      BY <2>1, <2>5 DEF TidyInv
    <3>2. connecting[c] = current[c] /\ attempt[current[c]].pc = "ready"
      BY <2>1, <3>1 DEF Tidy, CurrentIsCached
    <3>3. SessionsOf(c)' = {}
      BY <2>1, <3>1, <3>2 DEF Tidy, OneSlot, SessionsOf, Known
    <3>4. \A a \in Attempts : OwnerOf(a) = c => attempt[a].pc \notin InFlight
      BY <3>1, <3>2 DEF Tidy, OneHandshake, InFlight
    <3>5. OneHandshake(c)'
      BY <2>1, <3>4 DEF OneHandshake, OwnerOf
    <3>6. connecting'[c] = None /\ current'[c] = None
      BY <1>0, <2>1 DEF TypeOK
    <3> QED
      BY <3>3, <3>5, <3>6 DEF Tidy, CurrentIsCached, OneSlot, LeftNothing
  <2> QED
    BY <2>1, <2>3, <2>4, <2>5 DEF TidyInv
<1> QED
  BY <1>1, <1>2, <1>3 DEF EndOf

\* The death of one client, which forgets all it had.
LEMMA TidyDeath ==
  ASSUME TidyInv, SessionsInv', NEW c \in Clients, Die(c)
  PROVE  TidyInv'
<1>0. TypeOK /\ PointersAreOwned /\ RejectedHaveNoSlot
  BY DEF TidyInv, SessionsInv
<1>1. /\ \A a \in Attempts : attempt'[a] = IF OwnerOf(a) = c THEN Idle ELSE attempt[a]
      /\ \A j \in Calls : call'[j] = IF call[j].by = c THEN Cut ELSE call[j]
      /\ \A d \in Clients : /\ connecting'[d] = IF d = c THEN None ELSE connecting[d]
                            /\ current'[d] = IF d = c THEN None ELSE current[d]
                            /\ client'[d] = IF d = c THEN "gone" ELSE client[d]
      /\ excused' = excused \ {c} /\ UNCHANGED <<daemon, sessions>>
  BY <1>0 DEF Die, TypeOK, daemonVars
<1>2. Cut.pc = "cut" /\ Cut.on = None /\ Idle.pc = "none"
  BY DEF Cut, NoCall, Idle
<1>3. \A a \in Attempts : a[1] \in Calls
  BY DEF Attempts
<1>4. \A a \in Attempts : OwnerOf(a) # c => OwnerOf(a)' = OwnerOf(a) /\ attempt'[a] = attempt[a]
  BY <1>1, <1>3 DEF OwnerOf
<1>5. \A a \in Attempts : OwnerOf(a) # c => call'[a[1]].by = OwnerOf(a)
  BY <1>4 DEF OwnerOf
<1>6. PointersAreOwned'
  <2>1. ASSUME NEW d \in Clients, connecting'[d] # None
        PROVE  call'[connecting'[d][1]].by = d /\ attempt'[connecting'[d]].pc # "none"
    <3>1. /\ d # c /\ connecting'[d] = connecting[d] /\ connecting[d] \in Attempts
          /\ OwnerOf(connecting[d]) = d /\ attempt[connecting[d]].pc # "none"
      BY <1>0, <1>1, <2>1 DEF PointersAreOwned, TypeOK
    <3> QED
      BY <1>4, <1>5, <3>1
  <2>2. ASSUME NEW j \in Calls, call'[j].on # None
        PROVE  call'[call'[j].on[1]].by = call'[j].by /\ attempt'[call'[j].on].pc # "none"
    <3>1. /\ call[j].by # c /\ call'[j] = call[j] /\ call[j].on \in Attempts
          /\ OwnerOf(call[j].on) = call[j].by /\ attempt[call[j].on].pc # "none"
      BY <1>0, <1>1, <1>2, <2>2 DEF PointersAreOwned, TypeOK
    <3> QED
      BY <1>4, <1>5, <3>1
  <2> QED
    BY <2>1, <2>2 DEF PointersAreOwned, OwnerOf
<1>7. RejectedHaveNoSlot'
  <2> SUFFICES ASSUME NEW j \in Calls
               PROVE  /\ call'[j].pc = "waiting" => call'[j].on # None
                      /\ call'[j].pc = "unauthorized" =>
                           /\ call'[j].on # None /\ attempt'[call'[j].on].pc = "ready"
                           /\ \A s \in sessions : s.bearer # call'[j].on
    BY <1>1 DEF RejectedHaveNoSlot, Known
  <2>1. CASE call[j].by = c
    BY <1>1, <1>2, <2>1
  <2>2. CASE call[j].by # c
    <3>1. /\ call'[j] = call[j] /\ call[j].on \in Attempts \cup {None}
          /\ call[j].on # None => OwnerOf(call[j].on) # c
      BY <1>0, <1>1, <2>2 DEF TypeOK, PointersAreOwned
    <3> QED
      BY <1>0, <1>4, <3>1 DEF RejectedHaveNoSlot, Known
  <2> QED
    BY <2>1, <2>2
<1>8. ASSUME NEW d \in Clients, d \notin excused', client'[d] # "gone" PROVE Tidy(d)'
  <2>1. /\ d # c /\ d \notin excused /\ client[d] # "gone" /\ client'[d] = client[d]
        /\ connecting'[d] = connecting[d] /\ current'[d] = current[d] /\ daemon' = daemon
    BY <1>1, <1>8
  <2>2. \A a \in Attempts :
          (attempt'[a].pc \in InFlight /\ OwnerOf(a)' = d) =>
            OwnerOf(a) = d /\ attempt'[a] = attempt[a]
    BY <1>1, <1>2, <1>4 DEF InFlight
  <2>3. \A a \in Attempts :
          (attempt[a].pc # "none" /\ OwnerOf(a) = d) => attempt'[a] = attempt[a]
    BY <1>1, <2>1
  <2>4. SessionsOf(d)' \subseteq SessionsOf(d)
    BY <1>1 DEF SessionsOf
  <2> QED
    BY <2>1, <2>2, <2>3, <2>4, TidyFrame
<1> QED
  BY <1>6, <1>7, <1>8 DEF TidyInv

LEMMA TidyDaemon ==
  ASSUME TidyInv, SessionsInv', Start \/ Stop \/ Expire \/ Rebind \/ UNCHANGED vars
  PROVE  TidyInv'
<1>1. /\ UNCHANGED <<client, connecting, current, attempt, call, excused>>
      /\ sessions' \subseteq sessions /\ (daemon' = daemon \/ sessions' = {})
  BY DEF Start, Stop, Expire, Rebind, vars, clientVars, daemonVars
<1>2. PointersAreOwned' /\ RejectedHaveNoSlot'
  BY <1>1, PointersStay
<1>3. ASSUME NEW c \in Clients, c \notin excused, client[c] # "gone" PROVE Tidy(c)'
  <2>1. SessionsOf(c)' \subseteq SessionsOf(c) /\ (daemon' = daemon \/ SessionsOf(c)' = {})
    BY <1>1 DEF SessionsOf
  <2>2. \A a \in Attempts : OwnerOf(a)' = OwnerOf(a) /\ attempt'[a] = attempt[a]
    BY <1>1 DEF OwnerOf
  <2> QED
    BY <1>1, <1>3, <2>1, <2>2, TidyFrame
<1> QED
  BY <1>1, <1>2, <1>3 DEF TidyInv

LEMMA NextTidy == TidyInv /\ [Next]_vars => TidyInv'
<1> SUFFICES ASSUME TidyInv, [Next]_vars PROVE TidyInv'
  OBVIOUS
<1>0. SessionsInv'
  BY NextSessionsInv DEF TidyInv
<1>1. CASE Start \/ Stop \/ Expire \/ Rebind \/ UNCHANGED vars
  BY <1>0, <1>1, TidyDaemon
<1>2. ASSUME NEW a \in Attempts, Handshake(a) PROVE TidyInv'
  BY <1>0, <1>2, TidyHandshake
<1>3. ASSUME NEW k \in Calls, ToolCall(k) \/ \E c \in Clients : BeginCall(k, c) PROVE TidyInv'
  BY <1>0, <1>3, TidyCall
<1>4. ASSUME NEW c \in Clients, Close(c) \/ EndOf(c) \/ Kill(c) PROVE TidyInv'
  BY <1>0, <1>4, TidyEnd, TidyDeath DEF Leave, Kill
<1> QED
  BY <1>1, <1>2, <1>3, <1>4 DEF Next

\* A slot of a living client is the one its calls share and its release gives
\* back, however its calls interleave and whatever becomes of the daemon,
\* unless the client has lost track of a session in one of the named ways.
THEOREM SlotsAreGivenBack == Spec => []SlotsAreAccountedFor
<1>1. TidyInv => SlotsAreAccountedFor
  <2> SUFFICES ASSUME TidyInv, NEW c \in Clients, c \notin excused, client[c] # "gone",
                      NEW s \in SessionsOf(c)
               PROVE  s.bearer = connecting[c] /\ client[c] # "leaving"
    BY DEF SlotsAreAccountedFor
  <2>1. Tidy(c) /\ TypeOK
    BY DEF TidyInv, SessionsInv
  <2>2. s.bearer = connecting[c] /\ s.bearer # None
    BY <2>1, Constants DEF Tidy, OneSlot, SessionsOf, TypeOK
  <2> QED
    BY <2>1, <2>2 DEF Tidy, LeftNothing
<1> QED
  BY <1>1, InitTidy, NextTidy, PTL DEF Spec
=============================================================================
