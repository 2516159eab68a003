------------------------------ MODULE Sessions ------------------------------
(***************************************************************************)
(* One daemon home as its local clients see it: the handshake that proves  *)
(* the daemon and mints a session (client/handshake.ts,                    *)
(* client/session-exchange.ts, daemon/ipc/handshake.ts,                    *)
(* daemon/ipc/sessions.ts), the session each client caches and shares      *)
(* between its tool calls (client/ipc-stub.ts), and the gate every tool    *)
(* call passes (daemon/ipc/routes.ts).  The daemon may stop, crash and     *)
(* come back on another port; a client may be killed; a binding may be     *)
(* replaced under a session.                                               *)
(*                                                                         *)
(* A request and its handler are one step, as the handlers run without an  *)
(* await up to their effect; the answer is another.  An answer is lost     *)
(* when the daemon that gave it is gone, or when the client, whose every   *)
(* request has a timeout, no longer waits for it.  How the client finds or *)
(* spawns the daemon is module DaemonElection.                             *)
(***************************************************************************)
EXTENDS Naturals, FiniteSets

CONSTANTS
  Clients,     \* client processes, one per host session
  Calls,       \* tool calls
  Ports,       \* ephemeral ports the system hands out
  Capacity,    \* MAX_PENDING_HANDSHAKES, and MAX_ACTIVE_SESSIONS which equals it
  Bindings,    \* identities (bot, group, agent) a project may be bound to
  None,
  MaxBoots,    \* bound: daemon starts
  MaxRebinds   \* bound: changes of the project's binding

ASSUME SessionsAssumption ==
  /\ Capacity \in Nat \ {0}
  /\ MaxBoots \in Nat /\ MaxRebinds \in Nat
  /\ None \notin Ports \cup Bindings \cup (Calls \X {1, 2})

VARIABLES
  daemon,      \* the running daemon: its boot and port, None when none runs
  runFile,     \* run/daemon.json: boot stands for pid and secret
  boots,       \* how many daemons have been started
  nonces,      \* PendingHandshakeStore: nonces issued and not consumed
  expired,     \* those of them past HANDSHAKE_NONCE_TTL_SECONDS
  sessions,    \* SessionStore and the frozen records: bearer, client, binding
  binding,     \* what the reconciler manages for the project, None if unbound or
               \* bound to another group than the project file names (R4)
  rebinds,
  client,      \* each process: "up", "releasing", "leaving", "gone"
  connecting,  \* createIpcSession's shared promise
  current,     \* the settled session that release would revoke
  attempt,     \* the handshakes
  call,        \* the tool calls
  excused,     \* history: clients that have lost track of a session of theirs
  steady       \* history: calls made under the daemon that still runs

daemonVars == <<daemon, runFile, boots, nonces, expired, sessions>>
bindVars == <<binding, rebinds>>
clientVars == <<client, connecting, current, attempt, call, excused, steady>>
vars == <<daemonVars, bindVars, clientVars>>

(* A call may start one handshake when it begins and one after a 401. *)
Attempts == Calls \X {1, 2}
OwnerOf(a) == call[a[1]].by
Run == [boot : 1..MaxBoots, port : Ports]

Idle == [pc |-> "none", port |-> None, run |-> None, round |-> 0, from |-> 0]
NoCall == [pc |-> "none", by |-> None, on |-> None, tries |-> 0, from |-> 0]

Boot == IF daemon = None THEN 0 ELSE daemon.boot
ListensAt(port) == daemon # None /\ daemon.port = port
Running(run) == run # None /\ daemon # None /\ daemon.boot = run.boot

Init ==
  /\ daemon = None /\ runFile = None /\ boots = 0
  /\ nonces = {} /\ expired = {} /\ sessions = {}
  /\ binding \in Bindings /\ rebinds = 0
  /\ client = [c \in Clients |-> "up"]
  /\ connecting = [c \in Clients |-> None]
  /\ current = [c \in Clients |-> None]
  /\ attempt = [a \in Attempts |-> Idle]
  /\ call = [k \in Calls |-> NoCall]
  /\ excused = {} /\ steady = {}

-----------------------------------------------------------------------------
(* The daemon's life. *)

(* A daemon listens on a port of the system's choice and publishes it with  *)
(* a fresh secret; its stores are empty.                                    *)
Start ==
  /\ daemon = None /\ boots < MaxBoots
  /\ boots' = boots + 1
  /\ \E p \in Ports : daemon' = [boot |-> boots + 1, port |-> p]
  /\ runFile' = daemon'
  /\ nonces' = {} /\ expired' = {} /\ sessions' = {}
  /\ UNCHANGED <<bindVars, clientVars>>

(* An orderly stop closes every connection and removes the run file; a      *)
(* crash leaves it, naming a dead pid.                                      *)
Stop ==
  /\ daemon # None
  /\ daemon' = None
  /\ runFile' \in {None, runFile}
  /\ nonces' = {} /\ expired' = {} /\ sessions' = {}
  /\ UNCHANGED <<boots, bindVars>>
  /\ steady' = {}
  /\ UNCHANGED <<client, connecting, current, attempt, call, excused>>

Expire ==
  /\ \E n \in nonces \ expired : expired' = expired \cup {n}
  /\ UNCHANGED <<daemon, runFile, boots, nonces, sessions, bindVars, clientVars>>

(* The reconciler replaces, removes or adds the project's binding. *)
Rebind ==
  /\ rebinds < MaxRebinds
  /\ rebinds' = rebinds + 1
  /\ binding' \in (Bindings \cup {None}) \ {binding}
  /\ UNCHANGED <<daemonVars, clientVars>>

-----------------------------------------------------------------------------
(* The daemon's handlers, as operators on its stores. *)

SweepExpired(ns) == ns \ expired

Issue(n) ==
  /\ nonces' = SweepExpired(nonces) \cup {n}
  /\ expired' = {}
TableIsFull == Cardinality(SweepExpired(nonces)) >= Capacity

(* consume: one-shot, and the expired are gone before it looks. *)
Consumable(n) == n \in SweepExpired(nonces)
Consume(n) == nonces' = SweepExpired(nonces) \ {n} /\ expired' = {}

(* Mutant: an open counts the dead. *)
SweepNobody(ss) == ss
SweepDead(ss) == {s \in ss : client[s.client] # "gone"}

Session(a) == [bearer |-> a, client |-> OwnerOf(a), frozen |-> binding]

(* authenticateBearer and authenticateSessionForTool. *)
Known(bearer) == \E s \in sessions : s.bearer = bearer
Frozen(bearer) == \E s \in sessions : s.bearer = bearer /\ s.frozen = binding
Authenticate(bearer) ==
  IF ~Known(bearer) THEN "unauthorized"
  ELSE IF ~Frozen(bearer) THEN "changed" ELSE "served"

-----------------------------------------------------------------------------
(* The client's shared handshake. *)

SetAttempt(a, r) == attempt' = [attempt EXCEPT ![a] = r]

(* connect() throws: the cached promise is cleared, whatever it is now, and *)
(* every call that awaited this attempt sees it fail.                       *)
FailAttempt(a, why) ==
  /\ SetAttempt(a, [Idle EXCEPT !.pc = why])
  /\ connecting' = [connecting EXCEPT ![OwnerOf(a)] = None]
  /\ UNCHANGED <<client, current, call, excused, steady>>

(* ensureDaemonRunning returned a live run file; its port is kept for the   *)
(* tool calls.  Without one the wait times out.                             *)
FindDaemon(a) ==
  /\ attempt[a].pc = "begun"
  /\ IF Running(runFile)
     THEN /\ SetAttempt(a, [attempt[a] EXCEPT !.pc = "found", !.port = runFile.port])
          /\ UNCHANGED <<client, connecting, current, call, excused, steady>>
     ELSE FailAttempt(a, "down")
  /\ UNCHANGED <<daemonVars, bindVars>>

(* The run file the handshake goes by, which may name another daemon than   *)
(* the port that was kept.                                                  *)
UseRun(a, round) ==
  /\ SetAttempt(a, [attempt[a] EXCEPT !.pc = "run", !.run = runFile,
                                      !.round = round, !.from = 0])
  /\ excused' = IF runFile.port = attempt[a].port THEN excused
                ELSE excused \cup {OwnerOf(a)}

(* performHandshake looks again, and uses what it finds then. *)
FindAgain(a) ==
  /\ attempt[a].pc = "found"
  /\ IF Running(runFile)
     THEN /\ UseRun(a, 1)
          /\ UNCHANGED <<client, connecting, current, call, steady>>
     ELSE FailAttempt(a, "down")
  /\ UNCHANGED <<daemonVars, bindVars>>

(* An identity that did not arrive or did not verify: the run file is read  *)
(* once more, and the second failure is final.                              *)
RetryProof(a) ==
  /\ IF attempt[a].round = 1 /\ Running(runFile)
     THEN /\ UseRun(a, 2)
          /\ UNCHANGED <<client, connecting, current, call, steady>>
     ELSE FailAttempt(a, "down")
  /\ UNCHANGED bindVars

(* GET /identity: a nonce is issued unless too many are pending. *)
AskIdentity(a) ==
  /\ attempt[a].pc = "run"
  /\ ListensAt(attempt[a].run.port)
  /\ ~TableIsFull
  /\ Issue(<<a, attempt[a].round>>)
  /\ SetAttempt(a, [attempt[a] EXCEPT !.pc = "asked", !.from = daemon.boot])
  /\ UNCHANGED <<daemon, runFile, boots, sessions, bindVars>>
  /\ UNCHANGED <<client, connecting, current, call, excused, steady>>

IdentityRefused(a) ==
  /\ attempt[a].pc = "run"
  /\ IF ListensAt(attempt[a].run.port)
     THEN TableIsFull /\ nonces' = SweepExpired(nonces) /\ expired' = {}
     ELSE UNCHANGED <<nonces, expired>>
  /\ RetryProof(a)
  /\ UNCHANGED <<daemon, runFile, boots, sessions>>

(* The proof verifies when the daemon that answered holds the secret of the *)
(* run file.                                                                *)
Verified(a) == attempt[a].pc = "asked" /\ attempt[a].from = attempt[a].run.boot

(* The proof does not verify, or the request was abandoned after            *)
(* IPC_REQUEST_TIMEOUT, with its nonce issued.                              *)
NotVerified(a) ==
  /\ attempt[a].pc = "asked"
  /\ RetryProof(a)
  /\ UNCHANGED daemonVars

(* SessionStore.mint, under the proof of the secret this daemon holds. *)
Minted(a) == attempt[a].run.boot = daemon.boot /\ Cardinality(SweepDead(sessions)) < Capacity

(* POST /session, as soon as the proof is verified.  The dead are swept,    *)
(* then the binding, the nonce, the proof and the capacity are looked at in *)
(* that order.                                                              *)
Open(a) ==
  /\ Verified(a)
  /\ ListensAt(attempt[a].run.port)
  /\ binding # None
  /\ Consumable(<<a, attempt[a].round>>)
  /\ Consume(<<a, attempt[a].round>>)
  /\ IF Minted(a)
     THEN /\ sessions' = SweepDead(sessions) \cup {Session(a)}
          /\ SetAttempt(a, [attempt[a] EXCEPT !.pc = "opened", !.from = daemon.boot])
          /\ UNCHANGED <<client, connecting, current, call, excused, steady>>
     ELSE /\ sessions' = SweepDead(sessions)
          /\ FailAttempt(a, "full")
  /\ UNCHANGED <<daemon, runFile, boots, bindVars>>

OpenRefused(a) ==
  /\ Verified(a)
  /\ IF ListensAt(attempt[a].run.port)
     THEN /\ binding = None \/ ~Consumable(<<a, attempt[a].round>>)
          /\ sessions' = SweepDead(sessions)
          /\ IF binding = None THEN UNCHANGED <<nonces, expired>>
             ELSE nonces' = SweepExpired(nonces) /\ expired' = {}
     ELSE UNCHANGED <<sessions, nonces, expired>>
  /\ FailAttempt(a, "refused")
  /\ UNCHANGED <<daemon, runFile, boots, bindVars>>

(* The promise resolves: the session is what release would give back. *)
Opened(a) ==
  /\ attempt[a].pc = "opened"
  /\ SetAttempt(a, [Idle EXCEPT !.pc = "ready", !.port = attempt[a].port])
  /\ current' = [current EXCEPT ![OwnerOf(a)] = a]
  /\ UNCHANGED <<daemonVars, bindVars, client, connecting, call, excused, steady>>

(* The answer never comes, as the daemon has gone, or comes after           *)
(* IPC_REQUEST_TIMEOUT: the slot it minted is then lost to the client.      *)
OpenedLost(a) ==
  /\ attempt[a].pc = "opened"
  /\ SetAttempt(a, [Idle EXCEPT !.pc = "refused"])
  /\ connecting' = [connecting EXCEPT ![OwnerOf(a)] = None]
  /\ excused' = IF Known(a) THEN excused \cup {OwnerOf(a)} ELSE excused
  /\ UNCHANGED <<client, current, call, steady>>
  /\ UNCHANGED <<daemonVars, bindVars>>

(* One step of the handshake a. *)
Handshake(a) ==
  \/ FindDaemon(a) \/ FindAgain(a)
  \/ AskIdentity(a) \/ IdentityRefused(a) \/ NotVerified(a)
  \/ Open(a) \/ OpenRefused(a) \/ Opened(a) \/ OpenedLost(a)

-----------------------------------------------------------------------------
(* Tool calls. *)

(* Mutant: each call that finds no settled session starts a handshake. *)
OnlySettled(c) == IF connecting[c] # None /\ attempt[connecting[c]].pc = "ready"
                  THEN connecting[c] ELSE None
SharedPromise(c) == connecting[c]

(* ensureSession: the call awaits the cached promise, or caches its own. *)
EnsureSession(k, c, tries, cached) ==
  LET a == IF cached = None THEN <<k, tries>> ELSE cached
  IN /\ call' = [call EXCEPT ![k] = [@ EXCEPT !.pc = "waiting", !.by = c, !.on = a,
                   !.tries = tries, !.from = 0]]
     /\ connecting' = [connecting EXCEPT ![c] = a]
     /\ attempt' = IF cached = None
                   THEN [attempt EXCEPT ![a] = [Idle EXCEPT !.pc = "begun"]]
                   ELSE attempt

BeginCall(k, c) ==
  /\ call[k].pc = "none" /\ client[c] = "up"
  /\ EnsureSession(k, c, 1, SharedPromise(c))
  /\ UNCHANGED <<daemonVars, bindVars, client, current, excused>>
  /\ steady' = steady \cup {j \in {k} : daemon # None}

Settle(k, how) ==
  /\ call' = [call EXCEPT ![k] = [@ EXCEPT !.pc = how, !.on = None, !.from = 0]]
  /\ steady' = steady \ {k}
  /\ UNCHANGED <<daemonVars, bindVars, client, connecting, current, attempt, excused>>

HandshakeFailed(k) ==
  /\ call[k].pc = "waiting"
  /\ attempt[call[k].on].pc \in {"down", "refused", "full"}
  /\ Settle(k, "no session")

(* postOnce reaches the daemon that listens on the session's port: the gate *)
(* is passed or not at once, and the tool may then work for a while.  The   *)
(* status tool also sweeps the sessions of the dead.                        *)
Post(k) ==
  LET verdict == Authenticate(call[k].on) IN
  /\ call[k].pc = "waiting" /\ attempt[call[k].on].pc = "ready"
  /\ ListensAt(attempt[call[k].on].port)
  /\ call' = [call EXCEPT ![k] = [@ EXCEPT !.pc = verdict, !.from = Boot]]
  /\ sessions' \in {sessions} \cup {SweepDead(sessions) : v \in {verdict} \cap {"served"}}
  /\ UNCHANGED <<daemon, runFile, boots, nonces, expired, bindVars>>
  /\ UNCHANGED <<client, connecting, current, attempt, excused, steady>>

PostFailed(k) ==
  /\ call[k].pc = "waiting" /\ attempt[call[k].on].pc = "ready"
  /\ ~ListensAt(attempt[call[k].on].port)
  /\ Settle(k, "unreachable")

(* A 401 throws the cached handshake away, whichever it is by now, and the  *)
(* call tries once more with one of its own.                                *)
Reconnect(k) ==
  LET c == call[k].by IN
  /\ call[k].pc = "unauthorized" /\ call[k].tries = 1
  /\ EnsureSession(k, c, 2, None)
  /\ current' = [current EXCEPT ![c] = None]
  /\ excused' = IF connecting[c] \in {None, call[k].on} /\ client[c] = "up"
                THEN excused ELSE excused \cup {c}
  /\ UNCHANGED <<daemonVars, bindVars, client, steady>>

Answered(k) ==
  /\ \/ call[k].pc \in {"served", "changed"}
     \/ call[k].pc = "unauthorized" /\ call[k].tries = 2
  /\ Settle(k, "answered")

(* The daemon that was at work on the call is gone. *)
AnswerLost(k) ==
  /\ call[k].pc \in {"served", "changed", "unauthorized"} /\ call[k].from # Boot
  /\ Settle(k, "unreachable")

(* IPC_REQUEST_TIMEOUT runs out while the daemon is at work on the call. *)
TimesOut(k) ==
  /\ call[k].pc = "served"
  /\ Settle(k, "timed out")

Settled == {"no session", "unreachable", "timed out", "answered", "cut"}

ToolCall(k) ==
  \/ HandshakeFailed(k) \/ Post(k) \/ PostFailed(k)
  \/ Reconnect(k) \/ Answered(k) \/ AnswerLost(k) \/ TimesOut(k)

-----------------------------------------------------------------------------
(* The end of a client. *)

(* The transport closes: no more calls, and release() begins. *)
Close(c) ==
  /\ client[c] = "up"
  /\ client' = [client EXCEPT ![c] = "releasing"]
  /\ UNCHANGED <<daemonVars, bindVars, connecting, current, attempt, call, excused, steady>>

NothingPending(c) == connecting[c] = None

(* DELETE /session for the settled session, wherever it was opened. *)
Release(c) ==
  /\ client[c] = "releasing" /\ current[c] # None
  /\ sessions' = IF ListensAt(attempt[current[c]].port)
                 THEN {s \in sessions : s.bearer # current[c]} ELSE sessions
  /\ client' = [client EXCEPT ![c] = "leaving"]
  /\ current' = [current EXCEPT ![c] = None]
  /\ connecting' = [connecting EXCEPT ![c] = None]
  /\ UNCHANGED <<daemon, runFile, boots, nonces, expired, bindVars, attempt, call, excused, steady>>

(* The DELETE is abandoned after SESSION_RELEASE_TIMEOUT, its failure       *)
(* swallowed, and the slot stays taken.                                     *)
ReleaseFails(c) ==
  /\ client[c] = "releasing" /\ current[c] # None
  /\ ListensAt(attempt[current[c]].port)
  /\ client' = [client EXCEPT ![c] = "leaving"]
  /\ current' = [current EXCEPT ![c] = None]
  /\ connecting' = [connecting EXCEPT ![c] = None]
  /\ excused' = IF Known(current[c]) THEN excused \cup {c} ELSE excused
  /\ UNCHANGED <<daemonVars, bindVars, attempt, call, steady>>

ReleaseNothing(c) ==
  /\ client[c] = "releasing" /\ current[c] = None
  /\ NothingPending(c)
  /\ client' = [client EXCEPT ![c] = "leaving"]
  /\ UNCHANGED <<daemonVars, bindVars, connecting, current, attempt, call, excused, steady>>

(* The handshake in flight has not settled within SESSION_RELEASE_TIMEOUT. *)
ReleaseGivesUp(c) ==
  /\ client[c] = "releasing" /\ current[c] = None /\ connecting[c] # None
  /\ client' = [client EXCEPT ![c] = "leaving"]
  /\ excused' = excused \cup {c}
  /\ UNCHANGED <<daemonVars, bindVars, connecting, current, attempt, call, steady>>

(* A process ends when its last request has; or it is killed at any time. *)
Busy(c) == \/ \E k \in Calls : call[k].by = c /\ call[k].pc \notin Settled \cup {"none"}
           \/ \E a \in Attempts : /\ OwnerOf(a) = c
                                  /\ attempt[a].pc \notin {"none", "ready", "down", "refused", "full"}
(* What a dead process knew is forgotten. *)
Cut == [NoCall EXCEPT !.pc = "cut"]
Die(c) ==
  /\ client' = [client EXCEPT ![c] = "gone"]
  /\ current' = [current EXCEPT ![c] = None]
  /\ connecting' = [connecting EXCEPT ![c] = None]
  /\ attempt' = [a \in Attempts |-> IF OwnerOf(a) = c THEN Idle ELSE attempt[a]]
  /\ call' = [k \in Calls |-> IF call[k].by = c THEN Cut ELSE call[k]]
  /\ excused' = excused \ {c}
  /\ steady' = {k \in steady : call[k].by # c}
  /\ UNCHANGED <<daemonVars, bindVars>>
Leave(c) == client[c] = "leaving" /\ ~Busy(c) /\ Die(c)
Kill(c) == client[c] # "gone" /\ Die(c)

EndOf(c) == Release(c) \/ ReleaseFails(c) \/ ReleaseNothing(c) \/ ReleaseGivesUp(c) \/ Leave(c)

Next ==
  \/ Start \/ Stop \/ Expire \/ Rebind
  \/ \E a \in Attempts : Handshake(a)
  \/ \E k \in Calls : ToolCall(k) \/ \E c \in Clients : BeginCall(k, c)
  \/ \E c \in Clients : Close(c) \/ EndOf(c) \/ Kill(c)

Spec == Init /\ [][Next]_vars

-----------------------------------------------------------------------------
AttemptState == {"none", "begun", "found", "run", "asked", "opened",
                 "ready", "down", "refused", "full"}
CallState == {"none", "waiting", "served", "changed", "unauthorized"} \cup Settled

TypeOK ==
  /\ daemon \in Run \cup {None}
  /\ runFile \in Run \cup {None}
  /\ boots \in 0..MaxBoots /\ rebinds \in 0..MaxRebinds
  /\ nonces \subseteq Attempts \X {1, 2}
  /\ expired \subseteq nonces
  /\ sessions \subseteq [bearer : Attempts, client : Clients, frozen : Bindings]
  /\ binding \in Bindings \cup {None}
  /\ client \in [Clients -> {"up", "releasing", "leaving", "gone"}]
  /\ connecting \in [Clients -> Attempts \cup {None}]
  /\ current \in [Clients -> Attempts \cup {None}]
  /\ attempt \in [Attempts -> [pc : AttemptState, port : Ports \cup {None},
                    run : Run \cup {None}, round : 0..2, from : 0..MaxBoots]]
  /\ call \in [Calls -> [pc : CallState, by : Clients \cup {None},
                 on : Attempts \cup {None}, tries : 0..2, from : 0..MaxBoots]]
  /\ excused \subseteq Clients /\ steady \subseteq Calls

SessionsOf(c) == {s \in sessions : s.client = c}

(* A slot of a living client is the one its calls share and its release     *)
(* gives back, so that it holds one at most however its calls interleave,   *)
(* and none when it leaves; unless two of its calls met a 401 together, or  *)
(* a call met one after the release, or the release gave up on a handshake  *)
(* or on its own request, or the answer that brings the session came too    *)
(* late, or the daemon was replaced between the two times a handshake       *)
(* looked for it.                                                           *)
SlotsAreAccountedFor ==
  \A c \in Clients \ excused : client[c] # "gone" =>
    \A s \in SessionsOf(c) : s.bearer = connecting[c] /\ client[c] # "leaving"

Refused(a) == attempt'[a].pc = "full" /\ attempt[a].pc # "full"
NotIdentified(a) == /\ attempt[a].pc = "run" /\ ListensAt(attempt[a].run.port)
                    /\ attempt'[a] \notin {attempt[a], Idle} /\ attempt'[a].pc # "asked"

(* A client is turned away only for living ones: a session is refused when  *)
(* every slot belongs to a client that is alive, those of the dead, which   *)
(* nobody releases, taken back first; an identity is refused when the table *)
(* is full of handshakes that may still be finished.                        *)
OnlyTheLivingFillTheHouse ==
  [][\A a \in Attempts :
       /\ Refused(a) => \/ attempt[a].run.boot # daemon.boot
                        \/ /\ Cardinality(sessions') = Capacity
                           /\ \A s \in sessions' : client[s.client] # "gone"
       /\ NotIdentified(a) => Cardinality(nonces \ expired) >= Capacity]_vars

(* A call begun while a daemon runs reaches it if it goes on running, also  *)
(* when an earlier daemon had served this client.                           *)
RestartIsHealed ==
  [][\A k \in Calls : call'[k].pc = "unreachable" /\ call[k].pc # "unreachable"
       => k \notin steady]_vars
=============================================================================
