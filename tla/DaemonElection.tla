--------------------------- MODULE DaemonElection ---------------------------
(***************************************************************************)
(* How one user's home gets one daemon: the lock algorithm of              *)
(* src/daemon/lifecycle/lock.ts, which src/client/run-state.ts repeats for *)
(* run/spawn.lock, the client's ensureDaemonRunning, and the start, the    *)
(* heartbeat and the stop of src/daemon/bootstrap.ts as far as they touch  *)
(* the files of run/.                                                      *)
(*                                                                         *)
(* Each file operation is one step and the processes interleave between    *)
(* any two of them: a reclaimer reads a lock, unlinks it and creates its   *)
(* own in three steps, a heartbeat reads and then writes.  Any process may *)
(* die at any step, and the home may hold the locks of a process that died *)
(* before the system starts.                                               *)
(***************************************************************************)
EXTENDS Naturals, FiniteSets

CONSTANTS
  Daemons,      \* processes that run the daemon's main.js
  Clients,      \* processes that call ensureDaemonRunning
  NoOne,        \* no such file
  Ghost,        \* a process that died before the system starts
  DaemonStale,  \* DAEMON_LOCK_STALE_SECONDS, in ticks
  SpawnWait,    \* SPAWN_WAIT_SECONDS, in ticks
  MaxLogins,    \* bound: how often launchd starts a daemon, at login
  MaxCrashes    \* bound: how many processes die

Procs == Daemons \cup Clients

ASSUME ProcsAssumption ==
  /\ Daemons \cap Clients = {}
  /\ {NoOne, Ghost} \cap Procs = {} /\ NoOne # Ghost

ASSUME TimesAssumption ==
  DaemonStale \in Nat \ {0} /\ SpawnWait \in Nat /\ MaxCrashes \in Nat /\
  MaxLogins \in Nat

Files  == {"daemon.lock", "spawn.lock"}
Owners == Procs \cup {Ghost, NoOne}

VARIABLES
  place,    \* where each process is in its program
  lock,     \* the pid in each lock file, or NoOne when there is no file
  age,      \* lockAgeSeconds of each lock file, in ticks
  runFile,  \* the pid in run/daemon.json
  holds,    \* the processes acquireLock has returned a handle to
  verdict,  \* the pid a reclaimer read before it decided to unlink
  waited,   \* how long each client has been in waitForRunFile
  answer,   \* the daemon each client has found, NoOne until then
  logins, crashes,
  robbed,   \* history: the files whose living owner was judged too old
  raced     \* history: the files of which a reclaimer unlinked another
            \* than the one it had read

files   == <<lock, age>>
clients == <<waited, answer>>
outside == <<logins, crashes>>
history == <<robbed, raced>>
vars    == <<place, lock, age, runFile, holds, verdict, waited, answer,
             logins, crashes, robbed, raced>>

Acquiring == {"creating", "inspecting", "unlinking", "recreating"}
Booting   == Acquiring \cup {"starting"}
Running   == {"opening", "serving", "beating"}
Leaving   == {"stopping", "erasing", "releasing", "removing"}
Gone      == {"refused", "exited", "crashed"}

DaemonPlaces == {"unborn"} \cup Booting \cup Running \cup Leaving \cup Gone
ClientPlaces == {"idle", "elected", "waiting", "releasing", "removing",
                 "served", "gaveUp", "crashed"} \cup Acquiring

FileOf(p) == IF p \in Daemons THEN "daemon.lock" ELSE "spawn.lock"

\* Mutant: one stale window for both files.
OneWindow(f) == DaemonStale

StaleAfter(f) == IF f = "daemon.lock" THEN DaemonStale
                                      ELSE SpawnWait + DaemonStale

Alive(p) == p \in Procs /\ place[p] \notin {"unborn"} \cup Gone

RunFileIsLive == Alive(runFile)
-----------------------------------------------------------------------------
(* What the home may look like when nobody runs yet. *)
Init ==
  /\ place = [p \in Procs |-> IF p \in Daemons THEN "unborn" ELSE "idle"]
  /\ lock \in [Files -> {NoOne, Ghost}]
  /\ age = [f \in Files |-> 0]
  /\ runFile \in {NoOne, Ghost}
  /\ holds = {}
  /\ verdict = [p \in Procs |-> NoOne]
  /\ waited = [c \in Clients |-> 0]
  /\ answer = [c \in Clients |-> NoOne]
  /\ logins = 0 /\ crashes = 0
  /\ robbed = {}
  /\ raced = {}

Goto(p, there) == place' = [place EXCEPT ![p] = there]

(* Where a process continues once it owns its lock, and once it is refused. *)
Won(p)  == IF p \in Daemons THEN "starting" ELSE "elected"

\* Mutants: a daemon that is refused starts all the same; a client does not
\* catch SpawnLockHeldError.
LostButStarts(p) == IF p \in Daemons THEN "starting" ELSE "waiting"
LostIsFatal(p) == "refused"

Lost(p) == IF p \in Daemons THEN "refused" ELSE "waiting"

(***************************************************************************)
(* acquireLock and acquireSpawnLock.                                       *)
(***************************************************************************)

\* Mutant: the file is written with flag w.
CreateAnyway(p) ==
  /\ lock' = [lock EXCEPT ![FileOf(p)] = p]
  /\ age' = [age EXCEPT ![FileOf(p)] = 0]
  /\ holds' = holds \cup {p}
  /\ Goto(p, Won(p))

(* writeLockFile with flag wx: the create and nothing else is exclusive. *)
CreateWins(p) ==
  /\ lock[FileOf(p)] = NoOne
  /\ lock' = [lock EXCEPT ![FileOf(p)] = p]
  /\ age' = [age EXCEPT ![FileOf(p)] = 0]
  /\ holds' = holds \cup {p}
  /\ Goto(p, Won(p))

CreateFails(p, there) ==
  /\ lock[FileOf(p)] # NoOne
  /\ Goto(p, there)
  /\ UNCHANGED <<files, holds>>

Create(p) ==
  /\ \/ place[p] = "creating" /\ CreateFails(p, "inspecting")
     \/ place[p] = "recreating" /\ CreateFails(p, Lost(p))
     \/ place[p] \in {"creating", "recreating"} /\ CreateWins(p)
  /\ UNCHANGED <<runFile, verdict, clients, outside, history>>

\* Mutant: the pid is not looked at.
OnlyAgeIsStale(f) == lock[f] = NoOne \/ age[f] >= StaleAfter(f)

(* A pid that is gone, a file that is gone (its age is Infinity) and an old
   file make the lock stale. *)
IsStale(f) == ~Alive(lock[f]) \/ age[f] >= StaleAfter(f)

Inspect(p) ==
  LET f == FileOf(p) IN
  /\ place[p] = "inspecting"
  /\ verdict' = [verdict EXCEPT ![p] = IF IsStale(f) THEN lock[f] ELSE NoOne]
  /\ Goto(p, IF IsStale(f) THEN "unlinking" ELSE Lost(p))
  /\ robbed' = IF IsStale(f) /\ Alive(lock[f]) THEN robbed \cup {f} ELSE robbed
  /\ UNCHANGED <<files, runFile, holds, clients, outside, raced>>

Unlink(p) ==
  LET f == FileOf(p) IN
  /\ place[p] = "unlinking"
  /\ raced' = IF lock[f] \in {NoOne, verdict[p]} THEN raced ELSE raced \cup {f}
  /\ lock' = [lock EXCEPT ![f] = NoOne]
  /\ Goto(p, "recreating")
  /\ verdict' = [verdict EXCEPT ![p] = NoOne]
  /\ UNCHANGED <<age, runFile, holds, clients, outside, robbed>>

(* releaseLock and releaseSpawnLock: read and compare, then unlink. *)
AfterRelease(p) ==
  IF p \in Daemons THEN "exited"
  ELSE IF answer[p] = NoOne THEN "gaveUp" ELSE "served"

Drop(p) == Goto(p, AfterRelease(p)) /\ holds' = holds \ {p}

Release(p) ==
  /\ place[p] = "releasing"
  /\ IF lock[FileOf(p)] = p
     THEN Goto(p, "removing") /\ UNCHANGED holds
     ELSE Drop(p)
  /\ UNCHANGED <<files, runFile, verdict, clients, outside, history>>

Remove(p) ==
  /\ place[p] = "removing"
  /\ lock' = [lock EXCEPT ![FileOf(p)] = NoOne]
  /\ Drop(p)
  /\ UNCHANGED <<age, runFile, verdict, clients, outside, history>>
-----------------------------------------------------------------------------
(***************************************************************************)
(* startDaemon.  The ledger is opened, then the IPC server listens and the *)
(* run file names it, then the bindings are reconciled, and only then do   *)
(* heartbeats begin.                                                       *)
(***************************************************************************)
Launch(d) ==
  /\ logins < MaxLogins /\ place[d] = "unborn"
  /\ Goto(d, "creating")
  /\ logins' = logins + 1
  /\ UNCHANGED <<files, runFile, holds, verdict, clients, crashes, history>>

WriteRunFile(d) ==
  /\ place[d] = "starting"
  /\ runFile' = d
  /\ Goto(d, "opening")
  /\ UNCHANGED <<files, holds, verdict, clients, outside, history>>

StartHeartbeat(d) ==
  /\ place[d] = "opening"
  /\ Goto(d, "serving")
  /\ UNCHANGED <<files, runFile, holds, verdict, clients, outside, history>>

(* The catch of startDaemon: the lock is released, a run file stays. *)
StartFails(d) ==
  /\ place[d] \in {"starting", "opening"}
  /\ Goto(d, "releasing")
  /\ UNCHANGED <<files, runFile, holds, verdict, clients, outside, history>>

(* updateHeartbeat: the read finds the daemon's own lock, then the write. *)
ReadOwnLock(d) ==
  /\ place[d] = "serving"
  /\ lock["daemon.lock"] = d /\ age["daemon.lock"] > 0
  /\ Goto(d, "beating")
  /\ UNCHANGED <<files, runFile, holds, verdict, clients, outside, history>>

Beat(d) ==
  /\ place[d] = "beating"
  /\ lock' = [lock EXCEPT !["daemon.lock"] = d]
  /\ age' = [age EXCEPT !["daemon.lock"] = 0]
  /\ Goto(d, "serving")
  /\ UNCHANGED <<runFile, holds, verdict, clients, outside, history>>

(* stop: a signal, or the idle check.  Heartbeats end first; the tick in
   flight, the pollers and the IPC server are awaited. *)
Stop(d) ==
  /\ place[d] = "serving"
  /\ Goto(d, "stopping")
  /\ UNCHANGED <<files, runFile, holds, verdict, clients, outside, history>>

(* deleteRunFile: read and compare, then unlink. *)
ReadRunFile(d) ==
  /\ place[d] = "stopping"
  /\ Goto(d, IF runFile = d THEN "erasing" ELSE "releasing")
  /\ UNCHANGED <<files, runFile, holds, verdict, clients, outside, history>>

EraseRunFile(d) ==
  /\ place[d] = "erasing"
  /\ runFile' = NoOne
  /\ Goto(d, "releasing")
  /\ UNCHANGED <<files, holds, verdict, clients, outside, history>>
-----------------------------------------------------------------------------
(***************************************************************************)
(* ensureDaemonRunning.                                                    *)
(***************************************************************************)

(* A client is started, or reconnects when its daemon has gone. *)
Call(c) ==
  /\ place[c] \in {"idle", "served"} /\ ~RunFileIsLive
  /\ Goto(c, "creating")
  /\ waited' = [waited EXCEPT ![c] = 0]
  /\ answer' = [answer EXCEPT ![c] = NoOne]
  /\ UNCHANGED <<files, runFile, holds, verdict, outside, history>>

(* The return, through the finally that releases a held lock. *)
Return(c, found) ==
  /\ answer' = [answer EXCEPT ![c] = found]
  /\ Goto(c, IF c \in holds THEN "releasing"
             ELSE IF found = NoOne THEN "gaveUp" ELSE "served")

Found(c) ==
  /\ RunFileIsLive
  /\ Return(c, runFile)
  /\ UNCHANGED <<lock, age, runFile, holds, verdict, waited, outside, history>>

\* Mutant: the winner releases its lock when it has spawned.
SpawnAndRelease(c) ==
  /\ place[c] = "elected" /\ ~RunFileIsLive
  /\ \E d \in Daemons :
       /\ place[d] = "unborn"
       /\ place' = [place EXCEPT ![c] = "waiting", ![d] = "creating"]
  /\ lock' = [lock EXCEPT !["spawn.lock"] = NoOne]
  /\ holds' = holds \ {c}
  /\ UNCHANGED <<age, runFile, verdict, clients, outside, history>>

(* spawnIfStillNeeded: read the run file again, then spawn.  A spawn that
   fails is not noticed: child.on("error") swallows it. *)
Spawn(c) ==
  /\ place[c] = "elected" /\ ~RunFileIsLive
  /\ \/ \E d \in Daemons :
          /\ place[d] = "unborn"
          /\ place' = [place EXCEPT ![c] = "waiting", ![d] = "creating"]
     \/ /\ \A d \in Daemons : place[d] # "unborn"
        /\ Goto(c, "waiting")
  /\ UNCHANGED <<files, runFile, holds, verdict, clients, outside, history>>

SkipSpawn(c) == place[c] = "elected" /\ Found(c)

(* waitForRunFile watches before it reads, so no write of the run file is
   missed; other events of the directory only make it read earlier. *)
FindRunFile(c) == place[c] = "waiting" /\ Found(c)

Timeout(c) ==
  /\ place[c] = "waiting" /\ waited[c] = SpawnWait
  /\ Return(c, NoOne)
  /\ UNCHANGED <<files, runFile, holds, verdict, waited, outside, history>>
-----------------------------------------------------------------------------
Crash(p) ==
  /\ crashes < MaxCrashes /\ Alive(p)
  /\ Goto(p, "crashed")
  /\ holds' = holds \ {p}
  /\ crashes' = crashes + 1
  /\ UNCHANGED <<files, runFile, verdict, clients, logins, history>>

(* Time passes while processes await something: the synchronous stretches of
   a client and of the lock algorithm take no time, and an abort signal is
   prompt.  A start, a stop and the gap between two heartbeats may be long. *)
TakesNoTime(p) ==
  \/ place[p] \in Acquiring \cup {"elected", "beating", "erasing", "releasing", "removing"}
  \/ place[p] = "waiting" /\ waited[p] = SpawnWait

Tick ==
  /\ \A p \in Procs : ~TakesNoTime(p)
  /\ age' = [f \in Files |->
       IF lock[f] # NoOne /\ age[f] < StaleAfter(f) THEN age[f] + 1 ELSE age[f]]
  /\ waited' = [c \in Clients |->
       IF place[c] = "waiting" THEN waited[c] + 1 ELSE waited[c]]
  /\ <<age, waited>>' # <<age, waited>>
  /\ UNCHANGED <<place, lock, runFile, holds, verdict, answer, outside, history>>

Locking(p) == Create(p) \/ Inspect(p) \/ Unlink(p) \/ Release(p) \/ Remove(p)

DaemonStep(d) ==
  \/ WriteRunFile(d) \/ StartHeartbeat(d) \/ ReadOwnLock(d) \/ Beat(d)
  \/ ReadRunFile(d) \/ EraseRunFile(d)

ClientStep(c) == Spawn(c) \/ SkipSpawn(c) \/ FindRunFile(c) \/ Timeout(c)

Next ==
  \/ \E p \in Procs : Locking(p) \/ Crash(p)
  \/ \E d \in Daemons : DaemonStep(d) \/ Launch(d) \/ StartFails(d) \/ Stop(d)
  \/ \E c \in Clients : ClientStep(c) \/ Call(c)
  \/ Tick

Spec == Init /\ [][Next]_vars
-----------------------------------------------------------------------------
(***************************************************************************)
(* Properties.                                                             *)
(***************************************************************************)
TypeOK ==
  /\ place \in [Procs -> DaemonPlaces \cup ClientPlaces]
  /\ \A d \in Daemons : place[d] \in DaemonPlaces
  /\ \A c \in Clients : place[c] \in ClientPlaces
  /\ lock \in [Files -> Owners]
  /\ age \in [Files -> Nat] /\ \A f \in Files : age[f] <= StaleAfter(f)
  /\ runFile \in Daemons \cup {Ghost, NoOne}
  /\ holds \subseteq Procs
  /\ verdict \in [Procs -> Owners]
  /\ waited \in [Clients -> 0..SpawnWait]
  /\ answer \in [Clients -> Daemons \cup {NoOne, Ghost}]
  /\ logins \in 0..MaxLogins /\ crashes \in 0..MaxCrashes
  /\ robbed \subseteq Files /\ raced \subseteq Files

Holders(f) == {p \in holds : FileOf(p) = f}

(* As long as no reclaimer has judged a living owner too old, nor unlinked
   another lock than the one it read, whoever holds a handle has its pid in
   the file, so nobody holds it with him: acquireLock and acquireSpawnLock,
   reclaiming a dead owner's lock included, exclude. *)
ElectionExcludes ==
  \A f \in Files : f \notin robbed \cup raced =>
    \A p, q \in Holders(f) : p = q

(* Under the same condition a live run file names the daemon that holds the
   lock: clients are never sent to a daemon that was refused, and a daemon
   that leaves does not erase the run file of the next. *)
RunFileNamesTheDaemon ==
  (RunFileIsLive /\ "daemon.lock" \notin robbed \cup raced) =>
     lock["daemon.lock"] = runFile

(* Two daemons race to reclaim one lock only if one of them came without an
   election, or the clients' election itself was disturbed: a client died or
   gave up, or its spawn.lock was raced or taken while it lived.  This is
   what "the winner releases run/spawn.lock only after the wait" is for. *)
ElectionPreventsRaces ==
  "daemon.lock" \in raced =>
    \/ logins > 0
    \/ \E c \in Clients : place[c] \in {"gaveUp", "crashed"}
    \/ "spawn.lock" \in robbed \cup raced

(* A waiting client's spawn.lock is never too old while it lives:
   SPAWN_LOCK_STALE_SECONDS outlasts SPAWN_WAIT_SECONDS. *)
SpawnLockOutlivesWait == "spawn.lock" \notin robbed

(* A client gives up (DaemonSpawnTimeoutError) only with a cause: a daemon is
   still starting, one is stopping, failed or has died, or another client
   died with the election.  A dead owner's lock, a lost election or a
   reclaim race are no cause. *)
GivesUpWithCause ==
  [][\A c \in Clients : Timeout(c) =>
       \/ \E d \in Daemons : place[d] \in Booting \cup Leaving \cup {"exited", "crashed"}
       \/ \E b \in Clients : place[b] = "crashed"
       \/ RunFileIsLive]_vars
=============================================================================
