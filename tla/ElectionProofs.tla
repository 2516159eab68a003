--------------------------- MODULE ElectionProofs ---------------------------
(***************************************************************************)
(* Theorems about DaemonElection, for any number of daemons and clients    *)
(* and any stale windows.                                                  *)
(***************************************************************************)
EXTENDS DaemonElection, TLAPS

\* The places at which a process has a handle.
Keeping == {"starting", "opening", "serving", "beating", "elected"} \cup Leaving

Sound(f) == f \notin robbed \cup raced

\* A process that holds runs, and one that is past the election holds.
HoldersRun ==
  \A p \in Procs :
    /\ p \in holds => place[p] \in Keeping \cup {"waiting"}
    /\ place[p] \in Keeping => p \in holds

HoldersOwn == \A p \in holds : Sound(FileOf(p)) => lock[FileOf(p)] = p

\* What a reclaimer is about to unlink has no owner that could come back.
VerdictsAreFinal ==
  \A p \in Procs :
    (place[p] = "unlinking" /\ Sound(FileOf(p)) /\ verdict[p] \in Procs) =>
      place[verdict[p]] \in Gone

OwnersWereBorn == \A f \in Files : lock[f] \in Procs => place[lock[f]] # "unborn"

\* Whoever wrote the run file had won the daemon lock before.
RunFileIsOurs ==
  runFile \in Daemons => place[runFile] \notin {"unborn"} \cup Acquiring

ElectionInv ==
  /\ TypeOK /\ HoldersRun /\ HoldersOwn /\ VerdictsAreFinal
  /\ OwnersWereBorn /\ RunFileIsOurs

\* While its client lives, a spawn.lock is no older than its client has waited.
SpawnLockIsHeld ==
  /\ lock["spawn.lock"] \notin Daemons
  /\ \A c \in Clients : (lock["spawn.lock"] = c /\ Alive(c)) => c \in holds

SpawnLockAge ==
  \A c \in Clients : (lock["spawn.lock"] = c /\ c \in holds) =>
    /\ age["spawn.lock"] <= SpawnWait
    /\ place[c] = "elected" => age["spawn.lock"] = 0
    /\ place[c] = "waiting" => age["spawn.lock"] <= waited[c]

PatienceInv == ElectionInv /\ SpawnLockIsHeld /\ SpawnLockAge
-----------------------------------------------------------------------------
(* Types.                                                                  *)

LEMMA FilesOfProcs == \A p : FileOf(p) \in Files
  BY DEF FileOf, Files

LEMMA StaleTypes == \A f \in Files : StaleAfter(f) \in Nat \ {0}
  BY TimesAssumption DEF StaleAfter, Files

LEMMA TypeInit == Init => TypeOK
  BY ProcsAssumption, TimesAssumption, StaleTypes
  DEF Init, TypeOK, Owners, Procs, DaemonPlaces, ClientPlaces

\* The lock algorithm.
LEMMA TypeLocking ==
  ASSUME TypeOK, NEW p \in Procs, Locking(p)
  PROVE  TypeOK'
<1>0. FileOf(p) \in Files
  BY FilesOfProcs
<1>1. CASE Create(p)
  BY <1>0, <1>1, ProcsAssumption, StaleTypes
  DEF Create, CreateWins, CreateFails, Goto, Won, Lost, TypeOK, Owners, Procs,
      DaemonPlaces, ClientPlaces, Acquiring, Booting, Gone, files, clients, outside, history
<1>2. CASE Inspect(p)
  BY <1>0, <1>2, ProcsAssumption
  DEF Inspect, Goto, Lost, TypeOK, Owners, Procs,
      DaemonPlaces, ClientPlaces, Acquiring, Booting, Gone, files, clients, outside
<1>3. CASE Unlink(p)
  BY <1>0, <1>3, ProcsAssumption
  DEF Unlink, Goto, TypeOK, Owners, Procs,
      DaemonPlaces, ClientPlaces, Acquiring, Booting, clients, outside
<1>4. CASE Release(p)
  BY <1>0, <1>4, ProcsAssumption
  DEF Release, Drop, AfterRelease, Goto, TypeOK, Owners, Procs,
      DaemonPlaces, ClientPlaces, Leaving, Gone, files, clients, outside, history
<1>5. CASE Remove(p)
  BY <1>0, <1>5, ProcsAssumption
  DEF Remove, Drop, AfterRelease, Goto, TypeOK, Owners, Procs,
      DaemonPlaces, ClientPlaces, Gone, clients, outside, history
<1> QED
  BY <1>1, <1>2, <1>3, <1>4, <1>5 DEF Locking

LEMMA TypeDaemon ==
  ASSUME TypeOK, NEW d \in Daemons,
         DaemonStep(d) \/ Launch(d) \/ StartFails(d) \/ Stop(d)
  PROVE  TypeOK'
<1> USE ProcsAssumption, TimesAssumption, StaleTypes
    DEF TypeOK, Goto, Owners, Procs, DaemonPlaces, ClientPlaces, Files, Booting,
        Running, Leaving, files, clients, outside, history
<1>1. CASE WriteRunFile(d)
  BY <1>1 DEF WriteRunFile
<1>2. CASE StartHeartbeat(d)
  BY <1>2 DEF StartHeartbeat
<1>3. CASE ReadOwnLock(d)
  BY <1>3 DEF ReadOwnLock
<1>4. CASE Beat(d)
  BY <1>4 DEF Beat
<1>5. CASE ReadRunFile(d)
  BY <1>5 DEF ReadRunFile
<1>6. CASE EraseRunFile(d)
  BY <1>6 DEF EraseRunFile
<1>7. CASE Launch(d)
  BY <1>7 DEF Launch, Acquiring
<1>8. CASE StartFails(d)
  BY <1>8 DEF StartFails
<1>9. CASE Stop(d)
  BY <1>9 DEF Stop
<1> QED
  BY <1>1, <1>2, <1>3, <1>4, <1>5, <1>6, <1>7, <1>8, <1>9 DEF DaemonStep

LEMMA TypeClient ==
  ASSUME TypeOK, NEW c \in Clients, ClientStep(c) \/ Call(c)
  PROVE  TypeOK'
<1> USE ProcsAssumption, TimesAssumption
    DEF TypeOK, Goto, Owners, Procs, DaemonPlaces, ClientPlaces, Acquiring, Booting,
        files, clients, outside, history
<1>1. CASE Spawn(c)
  BY <1>1 DEF Spawn
<1>2. CASE SkipSpawn(c) \/ FindRunFile(c)
  BY <1>2 DEF SkipSpawn, FindRunFile, Found, Return
<1>3. CASE Timeout(c)
  BY <1>3 DEF Timeout, Return
<1>4. CASE Call(c)
  BY <1>4 DEF Call
<1> QED
  BY <1>1, <1>2, <1>3, <1>4 DEF ClientStep

LEMMA TypeCrash ==
  ASSUME TypeOK, NEW p \in Procs, Crash(p)
  PROVE  TypeOK'
  BY ProcsAssumption, TimesAssumption
  DEF TypeOK, Crash, Goto, Owners, Procs, DaemonPlaces, ClientPlaces, Gone,
      files, clients, history

LEMMA TypeTick ==
  ASSUME TypeOK, Tick
  PROVE  TypeOK'
<1>1. age' \in [Files -> Nat] /\ \A f \in Files : age'[f] <= StaleAfter(f)
  BY StaleTypes DEF TypeOK, Tick
<1>2. waited' \in [Clients -> 0..SpawnWait]
  <2>1. \A c \in Clients : place[c] = "waiting" => waited[c] # SpawnWait
    BY DEF Tick, TakesNoTime, Procs
  <2> QED
    BY <2>1, TimesAssumption DEF TypeOK, Tick
<1>3. UNCHANGED <<place, lock, runFile, holds, verdict, answer, logins, crashes,
                  robbed, raced>>
  BY DEF Tick, outside, history
<1> QED
  BY <1>1, <1>2, <1>3 DEF TypeOK

LEMMA TypeNext == TypeOK /\ [Next]_vars => TypeOK'
<1> SUFFICES ASSUME TypeOK, [Next]_vars PROVE TypeOK'
  OBVIOUS
<1>1. CASE \E p \in Procs : Locking(p) \/ Crash(p)
  BY <1>1, TypeLocking, TypeCrash
<1>2. CASE \E d \in Daemons : DaemonStep(d) \/ Launch(d) \/ StartFails(d) \/ Stop(d)
  BY <1>2, TypeDaemon
<1>3. CASE \E c \in Clients : ClientStep(c) \/ Call(c)
  BY <1>3, TypeClient
<1>4. CASE Tick
  BY <1>4, TypeTick
<1>5. CASE UNCHANGED vars
  BY <1>5 DEF TypeOK, vars
<1> QED
  BY <1>1, <1>2, <1>3, <1>4, <1>5 DEF Next

THEOREM ElectionTypeCorrect == Spec => []TypeOK
  BY TypeInit, TypeNext, PTL DEF Spec
-----------------------------------------------------------------------------
(* Exclusion.                                                              *)

LEMMA InvInit == Init => ElectionInv
<1> SUFFICES ASSUME Init PROVE ElectionInv
  OBVIOUS
<1>1. TypeOK
  BY TypeInit
<1>2. HoldersRun /\ HoldersOwn /\ VerdictsAreFinal
  BY ProcsAssumption
  DEF Init, HoldersRun, HoldersOwn, VerdictsAreFinal, Keeping, Leaving, Procs
<1>3. OwnersWereBorn /\ RunFileIsOurs
  BY ProcsAssumption DEF Init, OwnersWereBorn, RunFileIsOurs, Procs
<1> QED
  BY <1>1, <1>2, <1>3 DEF ElectionInv

\* A step that leaves the locks alone, gives nobody a handle and moves one
\* process within its part of the program.
LEMMA StayingStep ==
  ASSUME ElectionInv, TypeOK', NEW p \in Procs, NEW there,
         place' = [place EXCEPT ![p] = there],
         UNCHANGED <<lock, holds, verdict, robbed, raced>>,
         runFile' \in {runFile, NoOne},
         place[p] \notin Gone,
         there \notin {"unborn", "unlinking", "waiting"},
         there \in Keeping <=> p \in holds,
         there \in Acquiring /\ p \in Daemons => runFile # p
  PROVE  ElectionInv'
<1>1. HoldersRun'
  BY DEF ElectionInv, HoldersRun, TypeOK, Keeping, Leaving
<1>2. HoldersOwn' /\ VerdictsAreFinal'
  BY DEF ElectionInv, HoldersOwn, VerdictsAreFinal, Sound, TypeOK
<1>3. OwnersWereBorn' /\ RunFileIsOurs'
  BY ProcsAssumption DEF ElectionInv, OwnersWereBorn, RunFileIsOurs, TypeOK, Procs
<1> QED
  BY <1>1, <1>2, <1>3 DEF ElectionInv

LEMMA InvCreate ==
  ASSUME ElectionInv, NEW p \in Procs, Create(p)
  PROVE  ElectionInv'
<1>0. TypeOK' /\ FileOf(p) \in Files
  BY TypeLocking, FilesOfProcs DEF Locking, ElectionInv
<1> USE ProcsAssumption DEF ElectionInv, TypeOK, Create, CreateWins, CreateFails, Goto,
     Won, Lost, files, clients, outside, history
<1>1. HoldersRun'
  BY <1>0 DEF HoldersRun, Keeping, Leaving, Acquiring, Procs
<1>2. HoldersOwn'
  <2>1. CASE lock[FileOf(p)] # NoOne
    BY <2>1 DEF HoldersOwn, Sound
  <2>2. CASE CreateWins(p)
    <3> SUFFICES ASSUME NEW q \in holds', Sound(FileOf(q))
                 PROVE  lock'[FileOf(q)] = q
      BY DEF HoldersOwn, Sound
    <3>1. CASE q = p
      BY <1>0, <2>2, <3>1
    <3>2. CASE q # p
      <4>1. lock[FileOf(q)] = q /\ q \in Procs
        BY <2>2, <3>2 DEF HoldersOwn
      <4> QED
        BY <1>0, <2>2, <4>1
    <3> QED
      BY <3>1, <3>2
  <2> QED
    BY <2>1, <2>2
<1>3. VerdictsAreFinal'
  BY <1>0 DEF VerdictsAreFinal, Sound, Gone
<1>4. OwnersWereBorn'
  BY <1>0 DEF OwnersWereBorn, Files, Procs
<1>5. RunFileIsOurs'
  BY <1>0 DEF RunFileIsOurs, Acquiring, Procs
<1> QED
  BY <1>0, <1>1, <1>2, <1>3, <1>4, <1>5

LEMMA InvInspect ==
  ASSUME ElectionInv, NEW p \in Procs, Inspect(p)
  PROVE  ElectionInv'
<1>0. TypeOK' /\ FileOf(p) \in Files
  BY TypeLocking, FilesOfProcs DEF Locking, ElectionInv
<1> USE ProcsAssumption DEF ElectionInv, TypeOK, Inspect, Goto, Lost, files, clients, outside
<1>1. HoldersRun'
  BY <1>0 DEF HoldersRun, Keeping, Leaving, Procs
<1>2. HoldersOwn'
  BY <1>0 DEF HoldersOwn, Sound
<1>3. VerdictsAreFinal'
  BY <1>0 DEF VerdictsAreFinal, Sound, Gone, IsStale, Alive, OwnersWereBorn
<1>4. OwnersWereBorn'
  BY <1>0 DEF OwnersWereBorn
<1>5. RunFileIsOurs'
  BY <1>0 DEF RunFileIsOurs, Acquiring, Procs
<1> QED
  BY <1>0, <1>1, <1>2, <1>3, <1>4, <1>5

\* What is unlinked, if it is what was read, has no holder.
LEMMA InvUnlink ==
  ASSUME ElectionInv, NEW p \in Procs, Unlink(p)
  PROVE  ElectionInv'
<1>0. TypeOK' /\ FileOf(p) \in Files
  BY TypeLocking, FilesOfProcs DEF Locking, ElectionInv
<1> USE ProcsAssumption DEF ElectionInv, TypeOK, Unlink, Goto, clients, outside
<1>1. HoldersRun'
  BY <1>0 DEF HoldersRun, Keeping, Leaving, Procs
<1>2. HoldersOwn'
  <2> SUFFICES ASSUME NEW q \in holds, Sound(FileOf(q))', FileOf(q) = FileOf(p)
               PROVE  FALSE
    BY <1>0 DEF HoldersOwn, Sound
  <2>1. Sound(FileOf(p)) /\ lock[FileOf(p)] \in {NoOne, verdict[p]}
    BY <1>0 DEF Sound
  <2>2. lock[FileOf(p)] = q /\ q \in Procs
    BY <2>1 DEF HoldersOwn
  <2>3. verdict[p] = q
    BY <2>1, <2>2
  <2>4. place[q] \in Gone
    BY <2>1, <2>2, <2>3 DEF VerdictsAreFinal
  <2> QED
    BY <2>2, <2>4 DEF HoldersRun, Keeping, Leaving, Gone
<1>3. VerdictsAreFinal'
  BY <1>0 DEF VerdictsAreFinal, Sound, Gone
<1>4. OwnersWereBorn'
  BY <1>0 DEF OwnersWereBorn
<1>5. RunFileIsOurs'
  BY <1>0 DEF RunFileIsOurs, Acquiring, Procs
<1> QED
  BY <1>0, <1>1, <1>2, <1>3, <1>4, <1>5

LEMMA InvRelease ==
  ASSUME ElectionInv, NEW p \in Procs, Release(p) \/ Remove(p)
  PROVE  ElectionInv'
<1>0. TypeOK' /\ FileOf(p) \in Files
  BY TypeLocking, FilesOfProcs DEF Locking, ElectionInv
<1>1. p \in holds
  BY DEF ElectionInv, HoldersRun, Keeping, Leaving, Release, Remove
<1> USE ProcsAssumption DEF ElectionInv, TypeOK, Release, Remove, Drop, AfterRelease, Goto,
     files, clients, outside, history
<1>2. HoldersRun'
  BY <1>0, <1>1 DEF HoldersRun, Keeping, Leaving, Procs
<1>3. HoldersOwn'
  <2> SUFFICES ASSUME NEW q \in holds', Sound(FileOf(q))
               PROVE  lock'[FileOf(q)] = q
    BY DEF HoldersOwn, Sound
  <2>1. q \in holds /\ lock[FileOf(q)] = q
    BY DEF HoldersOwn
  <2>2. CASE Release(p)
    BY <2>1, <2>2
  <2>3. CASE Remove(p)
    <3>1. q # p
      BY <2>3
    <3>2. Sound(FileOf(p)) => lock[FileOf(p)] = p
      BY <1>1 DEF HoldersOwn
    <3>3. FileOf(q) # FileOf(p)
      BY <2>1, <3>1, <3>2
    <3> QED
      BY <1>0, <2>1, <2>3, <3>3
  <2> QED
    BY <2>2, <2>3
<1>4. VerdictsAreFinal'
  <2>0. place'[p] \in {"removing", "exited", "gaveUp", "served"}
    BY <1>0
  <2>1. \A q \in Procs : place'[q] = "unlinking" => place[q] = "unlinking"
    BY <1>0, <2>0
  <2>2. \A q \in Procs : place[q] \in Gone => place'[q] \in Gone
    BY <1>0 DEF Gone
  <2> QED
    BY <1>0, <2>1, <2>2 DEF VerdictsAreFinal, Sound
<1>5. OwnersWereBorn'
  BY <1>0 DEF OwnersWereBorn
<1>6. RunFileIsOurs'
  BY <1>0 DEF RunFileIsOurs, Acquiring, Procs
<1> QED
  BY <1>0, <1>2, <1>3, <1>4, <1>5, <1>6

LEMMA InvDaemon ==
  ASSUME ElectionInv, NEW d \in Daemons,
         DaemonStep(d) \/ Launch(d) \/ StartFails(d) \/ Stop(d)
  PROVE  ElectionInv'
<1>0. TypeOK' /\ TypeOK /\ d \in Procs
  BY TypeDaemon DEF ElectionInv, Procs
<1>1. /\ place[d] \in Keeping => d \in holds
      /\ d \in holds => place[d] \in Keeping \cup {"waiting"}
  BY <1>0 DEF ElectionInv, HoldersRun
<1>2. CASE WriteRunFile(d)
  <2>1. d \in holds
    BY <1>1, <1>2 DEF WriteRunFile, Keeping
  <2>2. HoldersRun' /\ HoldersOwn' /\ VerdictsAreFinal' /\ OwnersWereBorn'
    BY <1>0, <1>2, <2>1
    DEF WriteRunFile, ElectionInv, HoldersRun, HoldersOwn, VerdictsAreFinal, OwnersWereBorn,
        Sound, Goto, Keeping, Leaving, Gone, TypeOK, files, history
  <2>3. RunFileIsOurs'
    BY <1>0, <1>2 DEF WriteRunFile, RunFileIsOurs, Goto, Acquiring, TypeOK
  <2> QED
    BY <1>0, <2>2, <2>3 DEF ElectionInv
<1>3. CASE StartHeartbeat(d) \/ ReadOwnLock(d) \/ StartFails(d) \/ Stop(d)
  BY <1>0, <1>1, <1>3, StayingStep
  DEF StartHeartbeat, ReadOwnLock, StartFails, Stop, Goto, Keeping, Leaving, Acquiring,
      Gone, files, history
<1>4. CASE ReadRunFile(d) \/ EraseRunFile(d)
  BY <1>0, <1>1, <1>4, StayingStep
  DEF ReadRunFile, EraseRunFile, Goto, Keeping, Leaving, Acquiring, Gone, files, history
<1>5. CASE Launch(d)
  <2>1. runFile # d
    BY <1>0, <1>5 DEF Launch, ElectionInv, RunFileIsOurs
  <2> QED
    BY <1>0, <1>1, <1>5, <2>1, StayingStep
    DEF Launch, Goto, Keeping, Leaving, Acquiring, Gone, files, history
<1>6. CASE Beat(d)
  <2>1. d \in holds /\ FileOf(d) = "daemon.lock"
    BY <1>1, <1>6 DEF Beat, Keeping, FileOf
  <2>2. HoldersRun' /\ VerdictsAreFinal' /\ OwnersWereBorn' /\ RunFileIsOurs'
    BY <1>0, <1>6, <2>1
    DEF Beat, ElectionInv, HoldersRun, VerdictsAreFinal, OwnersWereBorn, RunFileIsOurs,
        Sound, Goto, Keeping, Leaving, Acquiring, Gone, TypeOK, history
  <2>3. HoldersOwn'
    <3> SUFFICES ASSUME Sound("daemon.lock") PROVE lock' = lock
      BY <1>6, <2>1 DEF Beat, ElectionInv, HoldersOwn, Sound, FileOf, TypeOK, Files, history
    <3>1. lock["daemon.lock"] = d
      BY <2>1 DEF ElectionInv, HoldersOwn
    <3> QED
      BY <1>0, <1>6, <3>1 DEF Beat, TypeOK
  <2> QED
    BY <1>0, <2>2, <2>3 DEF ElectionInv
<1> QED
  BY <1>2, <1>3, <1>4, <1>5, <1>6 DEF DaemonStep

LEMMA InvClient ==
  ASSUME ElectionInv, NEW c \in Clients, ClientStep(c) \/ Call(c)
  PROVE  ElectionInv'
<1>0. TypeOK' /\ TypeOK /\ c \in Procs /\ c \notin Daemons
  BY TypeClient, ProcsAssumption DEF ElectionInv, Procs
<1>1. /\ place[c] \in Keeping => c \in holds
      /\ c \in holds => place[c] \in Keeping \cup {"waiting"}
  BY <1>0 DEF ElectionInv, HoldersRun
<1>2. CASE Spawn(c)
  <2>1. UNCHANGED <<lock, runFile, holds, verdict, robbed, raced>>
    BY <1>2 DEF Spawn, files, history
  <2>2. \/ place' = [place EXCEPT ![c] = "waiting"]
        \/ \E d \in Daemons : /\ place[d] = "unborn"
                              /\ place' = [place EXCEPT ![c] = "waiting", ![d] = "creating"]
    BY <1>2 DEF Spawn, Goto
  <2>3. place[c] = "elected" /\ c \in holds
    BY <1>1, <1>2 DEF Spawn, Keeping
  <2>4. CASE place' = [place EXCEPT ![c] = "waiting"]
    BY <1>0, <2>1, <2>3, <2>4
    DEF ElectionInv, HoldersRun, HoldersOwn, VerdictsAreFinal, OwnersWereBorn,
        RunFileIsOurs, Sound, Keeping, Leaving, Gone, TypeOK
  <2>5. ASSUME NEW d \in Daemons, place[d] = "unborn",
               place' = [place EXCEPT ![c] = "waiting", ![d] = "creating"]
        PROVE  ElectionInv'
    <3>1. d \in Procs /\ d # c /\ d \notin holds /\ runFile # d
      BY <1>0, <2>5 DEF Procs, ElectionInv, HoldersRun, RunFileIsOurs, Keeping, Leaving
    <3>2. /\ place'[c] = "waiting" /\ place'[d] = "creating"
          /\ \A p \in Procs \ {c, d} : place'[p] = place[p]
      BY <1>0, <2>5, <3>1 DEF TypeOK
    <3>3. HoldersRun' /\ HoldersOwn'
      BY <1>0, <2>1, <2>3, <3>1, <3>2
      DEF ElectionInv, HoldersRun, HoldersOwn, Sound, Keeping, Leaving
    <3>4. VerdictsAreFinal' /\ OwnersWereBorn'
      BY <1>0, <2>1, <2>3, <2>5, <3>1, <3>2
      DEF ElectionInv, VerdictsAreFinal, OwnersWereBorn, Sound, Gone
    <3>5. RunFileIsOurs'
      BY <1>0, <2>1, <3>1, <3>2 DEF ElectionInv, RunFileIsOurs, Procs
    <3> QED
      BY <1>0, <3>3, <3>4, <3>5 DEF ElectionInv
  <2> QED
    BY <2>2, <2>4, <2>5
<1>3. CASE SkipSpawn(c) \/ FindRunFile(c) \/ Timeout(c)
  BY <1>0, <1>1, <1>3, StayingStep
  DEF SkipSpawn, FindRunFile, Found, Timeout, Return, Goto, Keeping, Leaving, Acquiring,
      Gone, files, history
<1>4. CASE Call(c)
  BY <1>0, <1>1, <1>4, StayingStep
  DEF Call, Goto, Keeping, Leaving, Acquiring, Gone, files, history
<1> QED
  BY <1>2, <1>3, <1>4 DEF ClientStep

LEMMA InvCrash ==
  ASSUME ElectionInv, NEW p \in Procs, Crash(p)
  PROVE  ElectionInv'
<1>0. TypeOK'
  BY TypeCrash DEF ElectionInv
<1> QED
  BY <1>0
  DEF Crash, ElectionInv, HoldersRun, HoldersOwn, VerdictsAreFinal, OwnersWereBorn,
      RunFileIsOurs, Sound, Goto, Keeping, Leaving, Acquiring, Gone, TypeOK, files, history

LEMMA InvTick ==
  ASSUME ElectionInv, Tick \/ UNCHANGED vars
  PROVE  ElectionInv'
<1>0. TypeOK'
  BY TypeTick DEF ElectionInv, TypeOK, vars
<1>1. UNCHANGED <<place, lock, runFile, holds, verdict, robbed, raced>>
  BY DEF Tick, vars, history
<1> QED
  BY <1>0, <1>1 DEF ElectionInv, HoldersRun, HoldersOwn, VerdictsAreFinal, OwnersWereBorn,
                    RunFileIsOurs, Sound

LEMMA InvNext == ElectionInv /\ [Next]_vars => ElectionInv'
<1> SUFFICES ASSUME ElectionInv, [Next]_vars PROVE ElectionInv'
  OBVIOUS
<1>1. CASE \E p \in Procs : Locking(p) \/ Crash(p)
  BY <1>1, InvCreate, InvInspect, InvUnlink, InvRelease, InvCrash DEF Locking
<1>2. CASE \E d \in Daemons : DaemonStep(d) \/ Launch(d) \/ StartFails(d) \/ Stop(d)
  BY <1>2, InvDaemon
<1>3. CASE \E c \in Clients : ClientStep(c) \/ Call(c)
  BY <1>3, InvClient
<1>4. CASE Tick \/ UNCHANGED vars
  BY <1>4, InvTick
<1> QED
  BY <1>1, <1>2, <1>3, <1>4 DEF Next

\* Unless a living owner was judged too old or two reclaimers raced, each
\* lock file has one holder, whoever reclaims, dies or restarts.
THEOREM LocksExclude == Spec => []ElectionExcludes
<1>1. ElectionInv => ElectionExcludes
  BY DEF ElectionInv, HoldersOwn, ElectionExcludes, Holders, Sound
<1> QED
  BY <1>1, InvInit, InvNext, PTL DEF Spec

\* Under the same condition a live run/daemon.json names the lock's holder.
THEOREM RunFileIsTheDaemons == Spec => []RunFileNamesTheDaemon
<1>1. ElectionInv => RunFileNamesTheDaemon
  <2> SUFFICES ASSUME ElectionInv, RunFileIsLive, Sound("daemon.lock")
               PROVE  lock["daemon.lock"] = runFile
    BY DEF RunFileNamesTheDaemon, Sound
  <2>1. runFile \in Daemons /\ runFile \in Procs /\ FileOf(runFile) = "daemon.lock"
    BY ProcsAssumption DEF ElectionInv, TypeOK, RunFileIsLive, Alive, Procs, FileOf
  <2>2. place[runFile] \in Keeping
    BY <2>1
    DEF ElectionInv, TypeOK, RunFileIsLive, Alive, RunFileIsOurs, DaemonPlaces, Booting,
        Running, Keeping, Leaving, Acquiring, Gone
  <2>3. runFile \in holds
    BY <2>1, <2>2 DEF ElectionInv, HoldersRun
  <2> QED
    BY <2>1, <2>3 DEF ElectionInv, HoldersOwn
<1> QED
  BY <1>1, InvInit, InvNext, PTL DEF Spec
-----------------------------------------------------------------------------
(* The client's patience.                                                  *)

LEMMA PatienceInit == Init => SpawnLockIsHeld /\ SpawnLockAge
  BY ProcsAssumption DEF Init, SpawnLockIsHeld, SpawnLockAge, Files, Procs

\* A step that touches neither spawn.lock nor any client.
LEMMA PatienceStays ==
  ASSUME PatienceInv,
         lock'["spawn.lock"] = lock["spawn.lock"], age'["spawn.lock"] = age["spawn.lock"],
         UNCHANGED waited, \A c \in Clients : place'[c] = place[c],
         \A c \in Clients : c \in holds' <=> c \in holds
  PROVE  SpawnLockIsHeld' /\ SpawnLockAge'
  BY DEF PatienceInv, SpawnLockIsHeld, SpawnLockAge, Alive

LEMMA PatienceLocking ==
  ASSUME PatienceInv, NEW p \in Procs, Locking(p)
  PROVE  SpawnLockIsHeld' /\ SpawnLockAge'
<1>1. CASE p \in Daemons
  <2>1. FileOf(p) = "daemon.lock" /\ FileOf(p) # "spawn.lock" /\ p \notin Clients
    BY <1>1, ProcsAssumption DEF FileOf
  <2> QED
    BY <2>1, PatienceStays
    DEF PatienceInv, ElectionInv, TypeOK, Locking, Create, CreateWins, CreateFails, Inspect,
        Unlink, Release, Remove, Drop, Goto, Files, Procs, files, clients, outside, history
<1>2. CASE p \in Clients
  <2>1. FileOf(p) = "spawn.lock" /\ p \notin Daemons /\ "spawn.lock" \in Files
    BY <1>2, ProcsAssumption DEF FileOf, Files
  <2>2. /\ TypeOK /\ p \in Procs /\ age["spawn.lock"] \in Nat
        /\ p \in holds => place[p] \in Keeping \cup {"waiting"}
        /\ lock["spawn.lock"] = p /\ place[p] \notin Gone \cup {"unborn"} => p \in holds
    BY <1>2, <2>1 DEF PatienceInv, ElectionInv, HoldersRun, TypeOK, SpawnLockIsHeld, Alive
  <2> USE TimesAssumption DEF TypeOK, Goto, files, clients, outside, history
  <2>3. CASE Create(p) /\ lock["spawn.lock"] = NoOne
    BY <2>1, <2>2, <2>3, ProcsAssumption
    DEF Create, CreateWins, CreateFails, Won, PatienceInv, SpawnLockIsHeld, SpawnLockAge, Alive,
        Procs
  <2>4. CASE (Create(p) /\ lock["spawn.lock"] # NoOne) \/ Inspect(p)
    <3>1. place[p] \in Acquiring /\ p \notin holds /\ lock["spawn.lock"] # p
      BY <2>2, <2>4 DEF Create, Inspect, Acquiring, Keeping, Leaving, Gone
    <3>2. UNCHANGED <<lock, age, holds, waited>>
      BY <2>1, <2>4 DEF Create, CreateWins, CreateFails, Inspect
    <3>3. \A b \in Clients \ {p} : place'[b] = place[b]
      BY <2>1, <2>2, <2>4 DEF Create, CreateWins, CreateFails, Inspect, Procs
    <3>4. SpawnLockIsHeld'
      BY <1>2, <3>1, <3>2, <3>3 DEF PatienceInv, SpawnLockIsHeld, Alive
    <3>5. SpawnLockAge'
      BY <1>2, <3>1, <3>2, <3>3 DEF PatienceInv, SpawnLockAge
    <3> QED
      BY <3>4, <3>5
  <2>5. CASE Unlink(p) \/ Remove(p)
    <3>1. lock'["spawn.lock"] = NoOne
      BY <2>1, <2>2, <2>5 DEF Unlink, Remove
    <3>2. NoOne \notin Daemons /\ NoOne \notin Clients
      BY ProcsAssumption DEF Procs
    <3> QED
      BY <3>1, <3>2 DEF SpawnLockIsHeld, SpawnLockAge
  <2>6. CASE Release(p)
    <3>1. UNCHANGED <<lock, age, waited>> /\ \A b \in Clients \ {p} : place'[b] = place[b]
      BY <2>2, <2>6 DEF Release, Drop, Procs
    <3>2. place'[p] \in {"removing", "served", "gaveUp"} /\ place[p] = "releasing"
      BY <2>1, <2>2, <2>6 DEF Release, Drop, AfterRelease
    <3>3. \/ UNCHANGED holds
          \/ holds' = holds \ {p} /\ lock["spawn.lock"] # p
      BY <2>1, <2>6 DEF Release, Drop
    <3> QED
      BY <1>2, <3>1, <3>2, <3>3 DEF PatienceInv, SpawnLockIsHeld, SpawnLockAge, Alive, Gone
  <2> QED
    BY <2>3, <2>4, <2>5, <2>6 DEF Locking
<1> QED
  BY <1>1, <1>2 DEF Procs

LEMMA PatienceDaemon ==
  ASSUME PatienceInv, NEW d \in Daemons,
         DaemonStep(d) \/ Launch(d) \/ StartFails(d) \/ Stop(d)
  PROVE  SpawnLockIsHeld' /\ SpawnLockAge'
  BY ProcsAssumption, PatienceStays
  DEF PatienceInv, ElectionInv, TypeOK, DaemonStep, WriteRunFile, StartHeartbeat, ReadOwnLock,
      Beat, ReadRunFile, EraseRunFile, Launch, StartFails, Stop, Goto, Files, Procs,
      files, clients, outside, history

LEMMA PatienceClient ==
  ASSUME PatienceInv, NEW c \in Clients, ClientStep(c) \/ Call(c)
  PROVE  SpawnLockIsHeld' /\ SpawnLockAge'
<1>1. /\ TypeOK /\ c \in Procs /\ c \notin Daemons /\ age["spawn.lock"] \in Nat
      /\ c \in holds => place[c] \in Keeping \cup {"waiting"}
      /\ place[c] = "elected" => c \in holds
      /\ lock["spawn.lock"] = c /\ place[c] \notin Gone \cup {"unborn"} => c \in holds
      /\ lock["spawn.lock"] = c /\ place[c] = "elected" => age["spawn.lock"] = 0
  BY ProcsAssumption
  DEF PatienceInv, ElectionInv, HoldersRun, TypeOK, SpawnLockIsHeld, SpawnLockAge, Alive,
      Keeping, Procs, Files
<1> USE TimesAssumption DEF Goto, files, clients, outside, history
<1>2. CASE Spawn(c)
  <2>1. place'[c] = "waiting" /\ \A b \in Clients \ {c} : place'[b] = place[b]
    BY <1>1, <1>2, ProcsAssumption DEF Spawn, TypeOK, Procs
  <2>2. UNCHANGED <<lock, age, holds, waited>> /\ waited[c] \in Nat /\ place[c] = "elected"
    BY <1>1, <1>2 DEF Spawn, TypeOK
  <2>3. SpawnLockIsHeld'
    BY <1>1, <2>1, <2>2 DEF PatienceInv, SpawnLockIsHeld, Alive, Gone
  <2>4. SpawnLockAge'
    <3>1. lock["spawn.lock"] = c => age["spawn.lock"] <= waited[c]
      BY <1>1, <2>2
    <3> QED
      BY <2>1, <2>2, <3>1 DEF PatienceInv, SpawnLockAge
  <2> QED
    BY <2>3, <2>4
<1>3. CASE SkipSpawn(c) \/ FindRunFile(c) \/ Timeout(c)
  <2>1. UNCHANGED <<lock, age, holds, waited>> /\ \A b \in Clients \ {c} : place'[b] = place[b]
    BY <1>1, <1>3 DEF SkipSpawn, FindRunFile, Found, Timeout, Return, TypeOK, Procs
  <2>2. /\ place'[c] \in {"releasing", "served", "gaveUp"}
        /\ place[c] \in {"elected", "waiting"}
    BY <1>1, <1>3 DEF SkipSpawn, FindRunFile, Found, Timeout, Return, TypeOK
  <2> QED
    BY <1>1, <2>1, <2>2 DEF PatienceInv, SpawnLockIsHeld, SpawnLockAge, Alive, Gone
<1>4. CASE Call(c)
  <2>1. UNCHANGED <<lock, age, holds>>
    BY <1>4 DEF Call
  <2>2. \A b \in Clients \ {c} : place'[b] = place[b] /\ waited'[b] = waited[b]
    BY <1>1, <1>4 DEF Call, TypeOK
  <2>3. place'[c] = "creating" /\ place[c] \in {"idle", "served"}
    BY <1>1, <1>4 DEF Call, TypeOK
  <2> QED
    BY <1>1, <2>1, <2>2, <2>3
    DEF PatienceInv, SpawnLockIsHeld, SpawnLockAge, Alive, Gone, Keeping, Leaving
<1> QED
  BY <1>2, <1>3, <1>4 DEF ClientStep

LEMMA PatienceCrash ==
  ASSUME PatienceInv, NEW p \in Procs, Crash(p)
  PROVE  SpawnLockIsHeld' /\ SpawnLockAge'
  BY DEF Crash, Goto, PatienceInv, ElectionInv, TypeOK, SpawnLockIsHeld, SpawnLockAge, Alive,
         Gone, Procs, files, clients

\* Time passes only while no client is about to act, so a lock ages with
\* its client's patience.
LEMMA PatienceTick ==
  ASSUME PatienceInv, Tick
  PROVE  SpawnLockIsHeld' /\ SpawnLockAge'
<1>1. UNCHANGED <<place, lock, holds>>
  BY DEF Tick
<1>2. SpawnLockIsHeld'
  BY <1>1 DEF PatienceInv, SpawnLockIsHeld, Alive
<1>3. SpawnLockAge'
  <2> SUFFICES ASSUME NEW c \in Clients, lock["spawn.lock"] = c, c \in holds
               PROVE  /\ age'["spawn.lock"] <= SpawnWait
                      /\ place[c] # "elected"
                      /\ place[c] = "waiting" => age'["spawn.lock"] <= waited'[c]
    BY <1>1 DEF SpawnLockAge
  <2>1. place[c] = "waiting" /\ waited[c] # SpawnWait
    BY ProcsAssumption
    DEF PatienceInv, ElectionInv, HoldersRun, TypeOK, ClientPlaces, Keeping, Leaving, Tick,
        TakesNoTime, Procs, Acquiring
  <2>2. /\ age["spawn.lock"] \in Nat /\ waited[c] \in 0..SpawnWait
        /\ age["spawn.lock"] <= waited[c]
    BY <2>1 DEF PatienceInv, ElectionInv, TypeOK, SpawnLockAge, Files
  <2>3. age'["spawn.lock"] <= age["spawn.lock"] + 1 /\ waited'[c] = waited[c] + 1
    BY <2>1, <2>2 DEF Tick, Files
  <2>4. age'["spawn.lock"] \in Nat
    BY <2>2, TypeTick DEF PatienceInv, ElectionInv, TypeOK, Files
  <2> QED
    BY <2>1, <2>2, <2>3, <2>4, TimesAssumption
<1> QED
  BY <1>2, <1>3

LEMMA PatienceNext == PatienceInv /\ [Next]_vars => PatienceInv'
<1> SUFFICES ASSUME PatienceInv, [Next]_vars PROVE PatienceInv'
  OBVIOUS
<1>0. ElectionInv'
  BY InvNext DEF PatienceInv
<1>1. CASE \E p \in Procs : Locking(p) \/ Crash(p)
  BY <1>0, <1>1, PatienceLocking, PatienceCrash DEF PatienceInv
<1>2. CASE \E d \in Daemons : DaemonStep(d) \/ Launch(d) \/ StartFails(d) \/ Stop(d)
  BY <1>0, <1>2, PatienceDaemon DEF PatienceInv
<1>3. CASE \E c \in Clients : ClientStep(c) \/ Call(c)
  BY <1>0, <1>3, PatienceClient DEF PatienceInv
<1>4. CASE Tick
  BY <1>0, <1>4, PatienceTick DEF PatienceInv
<1>5. CASE UNCHANGED vars
  BY <1>0, <1>5 DEF vars, PatienceInv, SpawnLockIsHeld, SpawnLockAge, Alive
<1> QED
  BY <1>1, <1>2, <1>3, <1>4, <1>5 DEF Next

\* For every SPAWN_WAIT_SECONDS and every DAEMON_LOCK_STALE_SECONDS above
\* zero, no client's spawn.lock is taken for old while its client lives.
THEOREM SpawnLockIsNeverRobbed == Spec => []SpawnLockOutlivesWait
<1>1. Init => PatienceInv /\ SpawnLockOutlivesWait
  BY InvInit, PatienceInit DEF PatienceInv, Init, SpawnLockOutlivesWait
<1>2. PatienceInv /\ SpawnLockOutlivesWait /\ [Next]_vars => SpawnLockOutlivesWait'
  <2> SUFFICES ASSUME PatienceInv, SpawnLockOutlivesWait, [Next]_vars
               PROVE  "spawn.lock" \notin robbed'
    BY DEF SpawnLockOutlivesWait
  <2>1. CASE UNCHANGED robbed
    BY <2>1 DEF SpawnLockOutlivesWait
  <2>2. ASSUME NEW p \in Procs, Inspect(p) PROVE "spawn.lock" \notin robbed'
    <3>1. Alive(lock["spawn.lock"]) => ~IsStale("spawn.lock")
      <4> SUFFICES ASSUME Alive(lock["spawn.lock"])
                   PROVE  ~(age["spawn.lock"] >= StaleAfter("spawn.lock"))
        BY DEF IsStale
      <4>0. StaleAfter("spawn.lock") = SpawnWait + DaemonStale
        BY DEF StaleAfter
      <4>1. lock["spawn.lock"] \in Clients
        BY DEF Alive, Procs, PatienceInv, SpawnLockIsHeld
      <4>2. age["spawn.lock"] <= SpawnWait /\ age["spawn.lock"] \in Nat
        BY <4>1 DEF PatienceInv, SpawnLockIsHeld, SpawnLockAge, ElectionInv, TypeOK, Files
      <4> QED
        BY <4>0, <4>2, TimesAssumption
    <3> QED
      BY <2>2, <3>1 DEF Inspect, SpawnLockOutlivesWait
  <2>3. (\E p \in Procs : Inspect(p)) \/ UNCHANGED robbed
    BY DEF Next, Locking, Create, Unlink, Release, Remove, Crash, DaemonStep, WriteRunFile,
           StartHeartbeat, ReadOwnLock, Beat, ReadRunFile, EraseRunFile, Launch, StartFails,
           Stop, ClientStep, Spawn, SkipSpawn, FindRunFile, Found, Timeout, Call, Tick,
           history, vars
  <2> QED
    BY <2>1, <2>2, <2>3
<1> QED
  BY <1>1, <1>2, PatienceNext, PTL DEF Spec
-----------------------------------------------------------------------------
(* Races for daemon.lock.                                                  *)

\* Every daemon was spawned by an election that nothing has disturbed.
Orderly ==
  /\ logins = 0
  /\ \A c \in Clients : place[c] \notin {"gaveUp", "crashed"}
  /\ "spawn.lock" \notin robbed \cup raced

\* The winner that spawned a daemon keeps spawn.lock until the daemon has
\* written the run file, or gives up.
AwaitsABoot(c) ==
  /\ c \in holds
  /\ \/ place[c] = "waiting"
     \/ place[c] \in {"releasing", "removing"} /\ answer[c] = NoOne

BootsAreAwaited ==
  \A d \in Daemons : place[d] \in Booting =>
    /\ ~RunFileIsLive
    /\ \A e \in Daemons : place[e] \in Booting => e = d
    /\ \E c \in Clients : AwaitsABoot(c)

\* So no daemon boots beside one that runs, and the run file is the latter's.
RunnersAreNamed ==
  \A d \in Daemons : place[d] \in Running \cup {"stopping", "erasing"} => runFile = d

VerdictsStand ==
  \A d \in Daemons : place[d] = "unlinking" =>
    lock["daemon.lock"] \in {NoOne, verdict[d]}

OrderInv ==
  /\ ElectionInv
  /\ Orderly => BootsAreAwaited /\ RunnersAreNamed /\ VerdictsStand
  /\ ElectionPreventsRaces

LEMMA OrderInit == Init => OrderInv
<1> SUFFICES ASSUME Init PROVE OrderInv
  OBVIOUS
<1>1. ElectionInv
  BY InvInit
<1>2. BootsAreAwaited /\ RunnersAreNamed /\ VerdictsStand /\ ElectionPreventsRaces
  BY DEF Init, BootsAreAwaited, RunnersAreNamed, VerdictsStand, ElectionPreventsRaces,
         Procs, Booting, Acquiring, Running
<1> QED
  BY <1>1, <1>2 DEF OrderInv

\* What has disturbed the elections stays.
LEMMA OrderlyBefore ==
  ASSUME TypeOK, [Next]_vars, Orderly'
  PROVE  Orderly
<1>1. logins = 0
  <2>1. logins' = logins \/ logins' = logins + 1
    BY DEF Next, Locking, Create, Inspect, Unlink, Release, Remove, Crash, DaemonStep,
       WriteRunFile, StartHeartbeat, ReadOwnLock, Beat, ReadRunFile, EraseRunFile, Launch,
       StartFails, Stop, ClientStep, Spawn, SkipSpawn, FindRunFile, Found, Timeout, Call,
       Tick, outside, vars
  <2>2. logins \in Nat /\ logins' = 0
    BY TimesAssumption DEF TypeOK, Orderly
  <2> QED
    BY <2>1, <2>2
<1>2. robbed \subseteq robbed' /\ raced \subseteq raced'
  BY DEF Next, Locking, Create, Inspect, Unlink, Release, Remove, Crash, DaemonStep,
     WriteRunFile, StartHeartbeat, ReadOwnLock, Beat, ReadRunFile, EraseRunFile, Launch,
     StartFails, Stop, ClientStep, Spawn, SkipSpawn, FindRunFile, Found, Timeout, Call,
     Tick, history, vars
<1>3. ASSUME NEW c \in Clients, place[c] \in {"gaveUp", "crashed"}
      PROVE  place'[c] \in {"gaveUp", "crashed"}
  <2>0. c \in Procs /\ c \notin Daemons /\ place \in [Procs -> DaemonPlaces \cup ClientPlaces]
    BY ProcsAssumption DEF Procs, TypeOK
  <2>1. ASSUME NEW p \in Procs, Locking(p) PROVE place'[c] = place[c]
    <3>1. p # c
      BY <1>3, <2>1 DEF Locking, Create, Inspect, Unlink, Release, Remove
    <3>2. \E there : place' = [place EXCEPT ![p] = there]
      BY <2>1 DEF Locking, Create, CreateWins, CreateFails, Inspect, Unlink, Release, Remove,
         Drop, Goto
    <3> QED
      BY <2>0, <3>1, <3>2
  <2>2. ASSUME NEW p \in Procs, Crash(p) PROVE place'[c] \in {"gaveUp", "crashed"}
    BY <1>3, <2>0, <2>2 DEF Crash, Goto
  <2>3. ASSUME NEW d \in Daemons, DaemonStep(d) \/ Launch(d) \/ StartFails(d) \/ Stop(d)
        PROVE  place'[c] = place[c]
    <3>1. \E there : place' = [place EXCEPT ![d] = there]
      BY <2>3 DEF DaemonStep, WriteRunFile, StartHeartbeat, ReadOwnLock, Beat, ReadRunFile,
         EraseRunFile, Launch, StartFails, Stop, Goto
    <3> QED
      BY <2>0, <3>1
  <2>4. ASSUME NEW b \in Clients, ClientStep(b) \/ Call(b) PROVE place'[c] = place[c]
    <3>1. b # c
      BY <1>3, <2>4 DEF ClientStep, Spawn, SkipSpawn, FindRunFile, Timeout, Call
    <3>2. \/ \E there : place' = [place EXCEPT ![b] = there]
          \/ \E d \in Daemons : place' = [place EXCEPT ![b] = "waiting", ![d] = "creating"]
      BY <2>4 DEF ClientStep, Spawn, SkipSpawn, FindRunFile, Found, Return, Timeout, Call, Goto
    <3> QED
      BY <2>0, <3>1, <3>2
  <2>5. Tick \/ UNCHANGED vars => place' = place
    BY DEF Tick, vars
  <2> QED
    BY <1>3, <2>1, <2>2, <2>3, <2>4, <2>5 DEF Next
<1> QED
  BY <1>1, <1>2, <1>3 DEF Orderly

\* What the steps of an orderly home have to keep.
OrderKept ==
  BootsAreAwaited' /\ RunnersAreNamed' /\ VerdictsStand' /\ "daemon.lock" \notin raced'

\* A daemon that runs keeps every other from booting.
LEMMA NoBootBeside ==
  ASSUME OrderInv, Orderly, NEW d \in Daemons,
         place[d] \in Running \cup {"stopping", "erasing"}
  PROVE  /\ runFile = d
         /\ \A e \in Daemons : place[e] \notin Booting
<1>1. runFile = d
  BY DEF OrderInv, RunnersAreNamed
<1>2. RunFileIsLive
  BY <1>1 DEF RunFileIsLive, Alive, Running, Gone, Procs
<1> QED
  BY <1>1, <1>2 DEF OrderInv, BootsAreAwaited

\* A client elected while another awaits a boot would hold its lock with it.
LEMMA NoBootWhileElected ==
  ASSUME OrderInv, Orderly, NEW c \in Clients, place[c] = "elected"
  PROVE  \A e \in Daemons : place[e] \notin Booting
<1>1. c \in holds
  BY DEF OrderInv, ElectionInv, HoldersRun, Keeping, Procs
<1>2. ASSUME NEW b \in Clients, b \in holds PROVE b = c
  <2>1. FileOf(b) = "spawn.lock" /\ FileOf(c) = "spawn.lock"
    BY ProcsAssumption DEF FileOf
  <2> QED
    BY <1>1, <1>2, <2>1 DEF OrderInv, ElectionInv, HoldersOwn, Sound, Orderly
<1>3. \A b \in Clients : ~AwaitsABoot(b)
  BY <1>2 DEF AwaitsABoot
<1> QED
  BY <1>3 DEF OrderInv, BootsAreAwaited

LEMMA OrderFacts ==
  ASSUME OrderInv, Orderly
  PROVE  /\ TypeOK /\ BootsAreAwaited /\ RunnersAreNamed /\ VerdictsStand
         /\ "daemon.lock" \notin raced
  BY DEF OrderInv, ElectionInv, ElectionPreventsRaces, Orderly, TypeOK

\* A step of one daemon that neither lets it boot nor lets it run.
LEMMA OrderOfADaemon ==
  ASSUME OrderInv, Orderly, NEW d \in Daemons, NEW there,
         place' = [place EXCEPT ![d] = there],
         there \in Booting => place[d] \in Booting, place[d] \notin Gone,
         there \notin {"unlinking", "unborn"} \cup Running \cup {"stopping", "erasing"},
         UNCHANGED <<runFile, answer, raced>>,
         \A c \in Clients : c \in holds => c \in holds',
         \/ lock'["daemon.lock"] \in {lock["daemon.lock"], NoOne} /\ verdict' = verdict
         \/ place[d] \in Booting
  PROVE  OrderKept
<1>1. /\ TypeOK /\ BootsAreAwaited /\ RunnersAreNamed /\ VerdictsStand
      /\ "daemon.lock" \notin raced
  BY OrderFacts
<1>2. d \in Procs /\ \A e \in Procs \ {d} : place'[e] = place[e]
  BY <1>1 DEF Procs, TypeOK
<1>3. place'[d] = there
  BY <1>1, <1>2 DEF TypeOK
<1>4. \A c \in Clients : c \in Procs \ {d}
  BY ProcsAssumption DEF Procs
<1>5. RunnersAreNamed'
  BY <1>1, <1>2, <1>3 DEF RunnersAreNamed, Procs
<1>6. VerdictsStand'
  <2> SUFFICES ASSUME NEW e \in Daemons, place'[e] = "unlinking"
               PROVE  lock'["daemon.lock"] \in {NoOne, verdict'[e]}
    BY DEF VerdictsStand
  <2>1. e # d /\ place[e] = "unlinking"
    BY <1>2, <1>3 DEF Procs
  <2>2. place[d] \notin Booting
    BY <1>1, <2>1 DEF BootsAreAwaited, Booting, Acquiring
  <2> QED
    BY <1>1, <2>1, <2>2 DEF VerdictsStand
<1>7. BootsAreAwaited'
  <2> SUFFICES ASSUME NEW e \in Daemons, place'[e] \in Booting
               PROVE  /\ ~RunFileIsLive'
                      /\ \A g \in Daemons : place'[g] \in Booting => g = e
                      /\ \E c \in Clients : AwaitsABoot(c)'
    BY DEF BootsAreAwaited
  <2>1. \A g \in Daemons : place'[g] \in Booting => place[g] \in Booting
    BY <1>2, <1>3 DEF Procs
  <2>2. ~RunFileIsLive /\ \A g \in Daemons : place'[g] \in Booting => g = e
    BY <1>1, <2>1 DEF BootsAreAwaited
  <2>3. \E c \in Clients : AwaitsABoot(c)'
    <3>1. PICK c \in Clients : AwaitsABoot(c)
      BY <1>1, <2>1 DEF BootsAreAwaited
    <3>2. place'[c] = place[c]
      BY <1>2, <1>4
    <3> QED
      BY <3>1, <3>2 DEF AwaitsABoot
  <2>4. ~RunFileIsLive'
    <3>1. CASE runFile = d
      <4>1. place[d] # "unborn"
        BY <3>1 DEF OrderInv, ElectionInv, RunFileIsOurs
      <4>2. RunFileIsLive
        BY <1>2, <3>1, <4>1 DEF RunFileIsLive, Alive
      <4> QED
        BY <2>2, <4>2
    <3>2. CASE runFile # d
      BY <1>2, <2>2, <3>2 DEF RunFileIsLive, Alive
    <3> QED
      BY <3>1, <3>2
  <2> QED
    BY <2>2, <2>3, <2>4
<1> QED
  BY <1>1, <1>5, <1>6, <1>7 DEF OrderKept

\* The daemon's side of the election.
LEMMA OrderDaemonLocking ==
  ASSUME OrderInv, Orderly, NEW d \in Daemons, Locking(d)
  PROVE  OrderKept
<1>1. /\ TypeOK /\ BootsAreAwaited /\ RunnersAreNamed /\ VerdictsStand
      /\ "daemon.lock" \notin raced
  BY OrderFacts
<1>2. /\ FileOf(d) = "daemon.lock" /\ "daemon.lock" \in Files /\ d \in Procs
      /\ \A c \in Clients : c # d
  BY ProcsAssumption DEF FileOf, Files, Procs
<1>3. CASE Create(d)
  <2>1. /\ place[d] \in {"creating", "recreating"} /\ UNCHANGED <<runFile, answer, raced, verdict>>
        /\ \A c \in Clients : c \in holds => c \in holds'
        /\ \E there \in {"inspecting", "refused", "starting"} :
             place' = [place EXCEPT ![d] = there]
    BY <1>3 DEF Create, CreateWins, CreateFails, Won, Lost, Goto, clients, history
  <2> QED
    BY <2>1, OrderOfADaemon DEF Booting, Acquiring, Running, Gone
<1>4. CASE Inspect(d)
  <2>1. CASE ~IsStale("daemon.lock")
    BY <1>2, <1>4, <2>1, OrderOfADaemon
    DEF Inspect, Lost, Goto, clients, Booting, Acquiring, Running, Gone
  <2>2. CASE IsStale("daemon.lock")
    <3>1. /\ place' = [place EXCEPT ![d] = "unlinking"] /\ place[d] = "inspecting"
          /\ verdict' = [verdict EXCEPT ![d] = lock["daemon.lock"]]
          /\ UNCHANGED <<lock, runFile, holds, answer, raced>>
      BY <1>2, <1>4, <2>2 DEF Inspect, Goto, clients, files
    <3>2. place'[d] = "unlinking" /\ \A e \in Procs \ {d} : place'[e] = place[e]
      BY <1>1, <1>2, <3>1 DEF TypeOK
    <3>3. \A e \in Daemons : place'[e] \in Booting <=> place[e] \in Booting
      BY <3>1, <3>2 DEF Booting, Acquiring, Procs
    <3>4. ~RunFileIsLive' /\ \A e \in Daemons : place[e] \in Booting => e = d
      <4>1. ~RunFileIsLive /\ \A e \in Daemons : place[e] \in Booting => e = d
        BY <1>1, <3>1 DEF BootsAreAwaited, Booting, Acquiring
      <4> QED
        BY <3>1, <3>2, <4>1 DEF RunFileIsLive, Alive, Gone
    <3>5. \E c \in Clients : AwaitsABoot(c)'
      <4>1. PICK c \in Clients : AwaitsABoot(c)
        BY <1>1, <3>1 DEF BootsAreAwaited, Booting, Acquiring
      <4> QED
        BY <1>2, <3>1, <3>2, <4>1 DEF AwaitsABoot, Procs
    <3>6. BootsAreAwaited'
      BY <3>3, <3>4, <3>5 DEF BootsAreAwaited
    <3>7. RunnersAreNamed'
      BY <1>1, <3>1, <3>2 DEF RunnersAreNamed, Running, Procs
    <3>8. VerdictsStand'
      <4>1. \A e \in Daemons : place'[e] = "unlinking" => e = d
        BY <3>3, <3>4 DEF Booting, Acquiring
      <4> QED
        BY <1>1, <1>2, <3>1, <4>1 DEF VerdictsStand, TypeOK
    <3> QED
      BY <1>1, <3>1, <3>6, <3>7, <3>8 DEF OrderKept
  <2> QED
    BY <2>1, <2>2
<1>5. CASE Unlink(d)
  <2>1. lock["daemon.lock"] \in {NoOne, verdict[d]}
    BY <1>1, <1>5 DEF Unlink, VerdictsStand
  <2>2. /\ raced' = raced /\ UNCHANGED <<runFile, holds, answer>>
        /\ place[d] = "unlinking" /\ place' = [place EXCEPT ![d] = "recreating"]
    BY <1>2, <1>5, <2>1 DEF Unlink, Goto, clients
  <2> QED
    BY <2>2, OrderOfADaemon DEF Booting, Acquiring, Running, Gone
<1>6. CASE Release(d) \/ Remove(d)
  <2>1. /\ place[d] \in {"releasing", "removing"}
        /\ UNCHANGED <<runFile, answer, raced, verdict>>
        /\ \A c \in Clients : c \in holds => c \in holds'
        /\ \E there \in {"removing", "exited"} : place' = [place EXCEPT ![d] = there]
    BY <1>2, <1>6 DEF Release, Remove, Drop, AfterRelease, Goto, clients, history
  <2>2. lock'["daemon.lock"] \in {lock["daemon.lock"], NoOne}
    BY <1>1, <1>2, <1>6 DEF Release, Remove, files, TypeOK
  <2> QED
    BY <2>1, <2>2, OrderOfADaemon DEF Booting, Acquiring, Running, Gone
<1> QED
  BY <1>3, <1>4, <1>5, <1>6 DEF Locking

LEMMA OrderDaemonStep ==
  ASSUME OrderInv, Orderly, Orderly', NEW d \in Daemons,
         DaemonStep(d) \/ Launch(d) \/ StartFails(d) \/ Stop(d)
  PROVE  OrderKept
<1>1. /\ TypeOK /\ BootsAreAwaited /\ RunnersAreNamed /\ VerdictsStand
      /\ "daemon.lock" \notin raced
  BY OrderFacts
<1>2. d \in Procs /\ d \in Daemons
  BY DEF Procs
<1>3. CASE StartFails(d)
  BY <1>3, OrderOfADaemon
  DEF StartFails, Goto, files, clients, history, Booting, Acquiring, Running, Gone
<1>4. CASE Launch(d)
  <2>1. logins' = logins + 1 /\ logins = 0 /\ logins' = 0
    BY <1>4 DEF Launch, Orderly
  <2> QED
    BY <2>1
<1>5. CASE WriteRunFile(d)
  <2>1. /\ runFile' = d /\ place[d] = "starting" /\ place' = [place EXCEPT ![d] = "opening"]
        /\ raced' = raced
    BY <1>5 DEF WriteRunFile, Goto, history
  <2>2. ~RunFileIsLive /\ \A e \in Daemons : place[e] \in Booting => e = d
    BY <1>1, <2>1 DEF BootsAreAwaited, Booting
  <2>3. \A e \in Daemons : place'[e] \notin Booting
    BY <1>1, <1>2, <2>1, <2>2 DEF TypeOK, Procs, Booting, Acquiring
  <2>4. \A e \in Daemons \ {d} : place'[e] \notin Running \cup {"stopping", "erasing"}
    <3> SUFFICES ASSUME NEW e \in Daemons \ {d},
                        place[e] \in Running \cup {"stopping", "erasing"}
                 PROVE  FALSE
      BY <1>1, <2>1 DEF TypeOK, Procs
    <3> QED
      BY <1>2, <2>1, NoBootBeside DEF Booting
  <2> QED
    BY <1>1, <2>1, <2>3, <2>4
    DEF OrderKept, BootsAreAwaited, RunnersAreNamed, VerdictsStand, Booting, Acquiring
<1>6. CASE StartHeartbeat(d) \/ ReadOwnLock(d) \/ Beat(d) \/ Stop(d) \/ ReadRunFile(d)
           \/ EraseRunFile(d)
  <2>1. /\ place[d] \in Running \cup {"stopping", "erasing"} /\ raced' = raced
        /\ \E there \in {"serving", "beating", "stopping", "erasing", "releasing"} :
             /\ place' = [place EXCEPT ![d] = there]
             /\ there = "releasing" \/ runFile' = runFile
    BY <1>6 DEF StartHeartbeat, ReadOwnLock, Beat, Stop, ReadRunFile, EraseRunFile, Running,
       Goto, history
  <2>2. runFile = d /\ \A e \in Daemons : place[e] \notin Booting
    BY <2>1, NoBootBeside
  <2>3. \A e \in Daemons : place'[e] \notin Booting
    BY <1>1, <1>2, <2>1, <2>2 DEF TypeOK, Procs, Booting, Acquiring
  <2>4. \A e \in Daemons \ {d} : place'[e] \notin Running \cup {"stopping", "erasing"}
    BY <1>1, <1>2, <2>1, <2>2 DEF TypeOK, Procs, RunnersAreNamed
  <2>5. place'[d] \in Running \cup {"stopping", "erasing"} => runFile' = d
    BY <1>1, <1>2, <2>1, <2>2 DEF TypeOK, Running
  <2> QED
    BY <1>1, <2>1, <2>3, <2>4, <2>5
    DEF OrderKept, BootsAreAwaited, RunnersAreNamed, VerdictsStand, Booting, Acquiring
<1> QED
  BY <1>3, <1>4, <1>5, <1>6 DEF DaemonStep

\* A step of one client that leaves the daemons as they are, and does not end
\* what it awaits.
LEMMA OrderOfAClient ==
  ASSUME OrderInv, Orderly, NEW c \in Clients,
         \A e \in Procs \ {c} : place'[e] = place[e],
         place'[c] \notin {"unborn"} \cup Gone, place[c] \notin {"unborn"} \cup Gone,
         UNCHANGED <<runFile, lock["daemon.lock"]>>,
         \A e \in Daemons : verdict'[e] = verdict[e],
         \A b \in Clients \ {c} : b \in holds => b \in holds',
         \A b \in Clients \ {c} : answer'[b] = answer[b],
         AwaitsABoot(c) => AwaitsABoot(c)' \/ \A e \in Daemons : place[e] \notin Booting,
         "daemon.lock" \notin raced'
  PROVE  OrderKept
<1>1. /\ TypeOK /\ BootsAreAwaited /\ RunnersAreNamed /\ VerdictsStand
  BY OrderFacts
<1>2. \A e \in Daemons : place'[e] = place[e]
  BY ProcsAssumption DEF Procs
<1>3. RunFileIsLive' <=> RunFileIsLive
  BY DEF RunFileIsLive, Alive
<1>4. BootsAreAwaited'
  <2>1. ASSUME NEW b \in Clients, AwaitsABoot(b)
        PROVE  AwaitsABoot(b)' \/ \A e \in Daemons : place[e] \notin Booting
    BY <2>1 DEF AwaitsABoot, Procs
  <2> QED
    BY <1>1, <1>2, <1>3, <2>1 DEF BootsAreAwaited
<1> QED
  BY <1>1, <1>2, <1>4 DEF OrderKept, RunnersAreNamed, VerdictsStand

LEMMA OrderClientLocking ==
  ASSUME OrderInv, Orderly, Orderly', NEW c \in Clients, Locking(c)
  PROVE  OrderKept
<1>1. TypeOK /\ "daemon.lock" \notin raced
  BY OrderFacts
<1>2. /\ FileOf(c) = "spawn.lock" /\ c \in Procs /\ c \notin Daemons
      /\ "spawn.lock" \in Files /\ place'[c] \notin {"gaveUp", "crashed"}
  BY ProcsAssumption DEF FileOf, Files, Procs, Orderly
<1>3. UNCHANGED <<runFile, answer>>
  BY DEF Locking, Create, Inspect, Unlink, Release, Remove, clients
<1>4. lock'["daemon.lock"] = lock["daemon.lock"] /\ "daemon.lock" \notin raced'
  BY <1>1, <1>2 DEF Locking, Create, CreateWins, CreateFails, Inspect, Unlink, Release,
     Remove, TypeOK, Files, files, history
<1>5. /\ \A e \in Daemons : verdict'[e] = verdict[e]
      /\ \A b \in Clients \ {c} : b \in holds => b \in holds'
  BY <1>1, <1>2 DEF Locking, Create, CreateWins, CreateFails, Inspect, Unlink, Release,
     Remove, Drop, TypeOK, Procs
<1>6. \E there : place' = [place EXCEPT ![c] = there]
  BY DEF Locking, Create, CreateWins, CreateFails, Inspect, Unlink, Release, Remove, Drop, Goto
<1>7. place[c] \in Acquiring \cup {"releasing", "removing"}
  BY DEF Locking, Create, Inspect, Unlink, Release, Remove, Acquiring
<1>8. place'[c] \in Acquiring \cup {"elected", "waiting", "removing", "served"}
  BY <1>1, <1>2 DEF Locking, Create, CreateWins, CreateFails, Inspect, Unlink, Release,
     Remove, Drop, AfterRelease, Won, Lost, Goto, Acquiring, TypeOK
<1>9. AwaitsABoot(c) => AwaitsABoot(c)'
  <2> SUFFICES ASSUME AwaitsABoot(c) PROVE AwaitsABoot(c)'
    OBVIOUS
  <2>1. place[c] \in {"releasing", "removing"} /\ answer[c] = NoOne /\ c \in holds
    BY <1>7 DEF AwaitsABoot, Acquiring
  <2>2. place'[c] = "removing" /\ holds' = holds
    BY <1>1, <1>2, <2>1 DEF Locking, Create, Inspect, Unlink, Release, Remove, Drop,
       AfterRelease, Goto, TypeOK
  <2> QED
    BY <1>3, <2>1, <2>2 DEF AwaitsABoot
<1>10. \A e \in Procs \ {c} : place'[e] = place[e]
  BY <1>1, <1>6 DEF TypeOK
<1> QED
  BY <1>3, <1>4, <1>5, <1>7, <1>8, <1>9, <1>10, OrderOfAClient DEF Acquiring, Gone

LEMMA OrderClientStep ==
  ASSUME OrderInv, Orderly, Orderly', NEW c \in Clients, ClientStep(c) \/ Call(c)
  PROVE  OrderKept
<1>1. /\ TypeOK /\ BootsAreAwaited /\ RunnersAreNamed /\ VerdictsStand
      /\ "daemon.lock" \notin raced
  BY OrderFacts
<1>2. c \in Procs /\ c \notin Daemons /\ place'[c] \notin {"gaveUp", "crashed"}
  BY ProcsAssumption DEF Procs, Orderly
<1>3. UNCHANGED <<lock, runFile, holds, verdict, raced>>
  BY DEF ClientStep, Spawn, SkipSpawn, FindRunFile, Found, Timeout, Call, files, history
<1>4. CASE Spawn(c)
  <2>1. place[c] = "elected" /\ ~RunFileIsLive /\ c \in holds
    BY <1>2, <1>4 DEF Spawn, OrderInv, ElectionInv, HoldersRun, Keeping
  <2>2. \A e \in Daemons : place[e] \notin Booting
    BY <2>1, NoBootWhileElected
  <2>3. CASE place' = [place EXCEPT ![c] = "waiting"]
    <3>1. \A e \in Daemons : place'[e] = place[e]
      BY <1>1, <1>2, <2>3 DEF TypeOK, Procs
    <3> QED
      BY <1>1, <1>3, <2>2, <3>1
      DEF OrderKept, BootsAreAwaited, RunnersAreNamed, VerdictsStand
  <2>4. ASSUME NEW d \in Daemons, place[d] = "unborn",
               place' = [place EXCEPT ![c] = "waiting", ![d] = "creating"]
        PROVE  OrderKept
    <3>1. /\ place'[c] = "waiting" /\ place'[d] = "creating" /\ d \in Procs
          /\ \A p \in Procs \ {c, d} : place'[p] = place[p]
      BY <1>1, <1>2, <2>4 DEF TypeOK, Procs
    <3>2. ~RunFileIsLive'
      <4>1. runFile # d
        BY <2>4 DEF OrderInv, ElectionInv, RunFileIsOurs
      <4>2. runFile # c
        BY <1>1, <1>2, ProcsAssumption DEF TypeOK, Procs
      <4> QED
        BY <1>3, <2>1, <3>1, <4>1, <4>2 DEF RunFileIsLive, Alive
    <3>3. \A e \in Daemons : place'[e] \in Booting => e = d
      BY <1>2, <2>2, <3>1 DEF Procs
    <3>4. AwaitsABoot(c)'
      BY <1>3, <2>1, <3>1 DEF AwaitsABoot
    <3>5. BootsAreAwaited'
      BY <3>2, <3>3, <3>4 DEF BootsAreAwaited
    <3>6. RunnersAreNamed' /\ VerdictsStand'
      BY <1>1, <1>2, <1>3, <3>1 DEF RunnersAreNamed, VerdictsStand, Running, Procs
    <3> QED
      BY <1>1, <1>3, <3>5, <3>6 DEF OrderKept
  <2> QED
    BY <1>4, <2>3, <2>4 DEF Spawn, Goto
<1>5. CASE SkipSpawn(c) \/ FindRunFile(c)
  <2>1. \A e \in Daemons : place[e] \notin Booting
    BY <1>1, <1>5 DEF SkipSpawn, FindRunFile, Found, BootsAreAwaited
  <2>2. \A e \in Daemons : place'[e] = place[e]
    BY <1>1, <1>2, <1>5 DEF SkipSpawn, FindRunFile, Found, Return, Goto, TypeOK, Procs
  <2> QED
    BY <1>1, <1>3, <2>1, <2>2 DEF OrderKept, BootsAreAwaited, RunnersAreNamed, VerdictsStand
<1>6. CASE Timeout(c)
  <2>1. /\ place[c] = "waiting" /\ answer' = [answer EXCEPT ![c] = NoOne]
        /\ \E there \in {"releasing", "served", "gaveUp"} :
             place' = [place EXCEPT ![c] = there]
        /\ c \in holds => place' = [place EXCEPT ![c] = "releasing"]
    BY <1>6 DEF Timeout, Return, Goto
  <2>2. /\ \A e \in Procs \ {c} : place'[e] = place[e]
        /\ \A b \in Clients \ {c} : answer'[b] = answer[b]
        /\ place'[c] \in {"releasing", "served"} /\ answer'[c] = NoOne
        /\ c \in holds => place'[c] = "releasing"
    BY <1>1, <1>2, <2>1 DEF TypeOK
  <2>3. AwaitsABoot(c) => AwaitsABoot(c)'
    BY <1>3, <2>2 DEF AwaitsABoot
  <2> QED
    BY <1>1, <1>3, <2>1, <2>2, <2>3, OrderOfAClient DEF Gone
<1>7. CASE Call(c)
  <2>1. /\ place[c] \in {"idle", "served"} /\ place'[c] = "creating"
        /\ \A e \in Procs \ {c} : place'[e] = place[e]
        /\ \A b \in Clients \ {c} : answer'[b] = answer[b]
    BY <1>1, <1>2, <1>7 DEF Call, Goto, TypeOK
  <2>2. ~AwaitsABoot(c)
    BY <2>1 DEF AwaitsABoot
  <2> QED
    BY <1>1, <1>3, <2>1, <2>2, OrderOfAClient DEF Gone
<1> QED
  BY <1>4, <1>5, <1>6, <1>7 DEF ClientStep

LEMMA OrderCrash ==
  ASSUME OrderInv, Orderly, Orderly', NEW p \in Procs, Crash(p)
  PROVE  OrderKept
<1>1. /\ p \in Daemons /\ p \notin Clients
  BY ProcsAssumption DEF Crash, Goto, Orderly, OrderInv, ElectionInv, TypeOK, Procs
<1>2. /\ place' = [place EXCEPT ![p] = "crashed"] /\ place[p] \notin Gone
      /\ UNCHANGED <<lock, runFile, verdict, answer, raced>>
      /\ \A c \in Clients : c \in holds => c \in holds'
  BY <1>1 DEF Crash, Goto, Alive, clients, files, history
<1> QED
  BY <1>1, <1>2, OrderOfADaemon DEF Booting, Acquiring, Running

LEMMA OrderNext == OrderInv /\ [Next]_vars => OrderInv'
<1> SUFFICES ASSUME OrderInv, [Next]_vars PROVE OrderInv'
  OBVIOUS
<1>1. ElectionInv' /\ TypeOK
  BY InvNext DEF OrderInv, ElectionInv
<1>2. CASE ~Orderly'
  <2>1. ElectionPreventsRaces'
    BY <1>1, <1>2, TimesAssumption
    DEF ElectionPreventsRaces, Orderly, ElectionInv, TypeOK
  <2> QED
    BY <1>1, <1>2, <2>1 DEF OrderInv
<1>3. CASE Orderly'
  <2>1. Orderly
    BY <1>1, <1>3, OrderlyBefore
  <2>2. ASSUME NEW p \in Procs, Locking(p) \/ Crash(p) PROVE OrderKept
    BY <1>3, <2>1, <2>2, OrderDaemonLocking, OrderClientLocking, OrderCrash DEF Procs
  <2>3. ASSUME NEW d \in Daemons, DaemonStep(d) \/ Launch(d) \/ StartFails(d) \/ Stop(d)
        PROVE  OrderKept
    BY <1>3, <2>1, <2>3, OrderDaemonStep
  <2>4. ASSUME NEW c \in Clients, ClientStep(c) \/ Call(c) PROVE OrderKept
    BY <1>3, <2>1, <2>4, OrderClientStep
  <2>5. ASSUME Tick \/ UNCHANGED vars PROVE OrderKept
    <3>1. UNCHANGED <<place, lock, runFile, holds, verdict, answer, raced>>
      BY <2>5 DEF Tick, vars, history
    <3>2. BootsAreAwaited'
      BY <2>1, <3>1, OrderFacts
      DEF BootsAreAwaited, AwaitsABoot, RunFileIsLive, Alive
    <3>3. RunnersAreNamed /\ VerdictsStand /\ "daemon.lock" \notin raced
      BY <2>1, OrderFacts
    <3>4. RunnersAreNamed' /\ VerdictsStand'
      BY <3>1, <3>3 DEF RunnersAreNamed, VerdictsStand
    <3> QED
      BY <3>1, <3>2, <3>3, <3>4 DEF OrderKept
  <2>6. OrderKept
    <3>1. CASE \E p \in Procs : Locking(p) \/ Crash(p)
      BY <2>2, <3>1
    <3>2. CASE \E d \in Daemons : DaemonStep(d) \/ Launch(d) \/ StartFails(d) \/ Stop(d)
      BY <2>3, <3>2
    <3>3. CASE \E c \in Clients : ClientStep(c) \/ Call(c)
      BY <2>4, <3>3
    <3> QED
      BY <2>5, <3>1, <3>2, <3>3 DEF Next
  <2> QED
    BY <1>1, <2>6 DEF OrderInv, OrderKept, ElectionPreventsRaces
<1> QED
  BY <1>2, <1>3

\* As long as only elections start daemons and nothing disturbs an election,
\* no daemon reclaims another lock than the one it read.
THEOREM ElectionsPreventRaces == Spec => []ElectionPreventsRaces
<1>1. OrderInv => ElectionPreventsRaces
  BY DEF OrderInv
<1> QED
  BY <1>1, OrderInit, OrderNext, PTL DEF Spec

-----------------------------------------------------------------------------
(* Causes for giving up.                                                   *)

\* A lock is owned by a process of its kind, and once emptied is never again
\* that of a process from before.
LocksAreOfTheirKind ==
  /\ \A f \in Files : lock[f] \in Procs => FileOf(lock[f]) = f
  /\ \A p \in Procs : place[p] = "recreating" => lock[FileOf(p)] # Ghost

SomeDaemonIn(places) == \E d \in Daemons : place[d] \in places

SomeClientDied == \E b \in Clients : place[b] = "crashed"

Departed == Leaving \cup {"exited", "crashed"}

Winners == {"starting"} \cup Running \cup Departed

\* A daemon that runs wrote the run file; whoever wrote over it or erased it
\* either lives or has gone the way of daemons that leave.
RunnersLeaveATrace == SomeDaemonIn(Running) => RunFileIsLive \/ SomeDaemonIn(Departed)

\* Nobody is refused unless somebody has won.
RefusalsHaveAWinner ==
  (lock["daemon.lock"] \in Daemons \/ SomeDaemonIn({"refused"})) =>
    SomeDaemonIn(Winners)

\* Nobody waits unless somebody was elected, and nobody has waited for any
\* time unless somebody was spawned or died with the election.
SpawnedOrDied == SomeDaemonIn(DaemonPlaces \ {"unborn"}) \/ SomeClientDied

WaitersHaveAnElection ==
  /\ lock["spawn.lock"] \in Clients \/ (\E c \in Clients : place[c] = "waiting") =>
       SpawnedOrDied \/ \E b \in Clients : place[b] = "elected"
  /\ \A c \in Clients : waited[c] > 0 => SpawnedOrDied

CauseInv ==
  /\ ElectionInv /\ LocksAreOfTheirKind /\ RunnersLeaveATrace
  /\ RefusalsHaveAWinner /\ WaitersHaveAnElection

LEMMA CauseInit == Init => CauseInv
<1> SUFFICES ASSUME Init PROVE CauseInv
  OBVIOUS
<1>1. ElectionInv
  BY InvInit
<1>2. LocksAreOfTheirKind /\ RunnersLeaveATrace /\ RefusalsHaveAWinner
  BY ProcsAssumption
  DEF Init, LocksAreOfTheirKind, RunnersLeaveATrace, RefusalsHaveAWinner, SomeDaemonIn,
      Running, Files, Procs
<1>3. WaitersHaveAnElection
  BY ProcsAssumption DEF Init, WaitersHaveAnElection, Files, Procs
<1> QED
  BY <1>1, <1>2, <1>3 DEF CauseInv

\* A process moves by a step of its own, but for a daemon's birth.
LEMMA OneProcessMoves ==
  ASSUME TypeOK, [Next]_vars
  PROVE  /\ \A d \in Daemons :
              \/ place'[d] = place[d]
              \/ place[d] = "unborn" /\ place'[d] = "creating"
              \/ Locking(d) \/ Crash(d) \/ DaemonStep(d) \/ StartFails(d) \/ Stop(d)
         /\ \A c \in Clients :
              \/ place'[c] = place[c]
              \/ Locking(c) \/ Crash(c) \/ ClientStep(c) \/ Call(c)
<1>0. /\ \A d \in Daemons : d \in Procs /\ d \notin Clients
      /\ \A c \in Clients : c \in Procs /\ c \notin Daemons
      /\ place \in [Procs -> DaemonPlaces \cup ClientPlaces]
  BY ProcsAssumption DEF Procs, TypeOK
<1>1. ASSUME NEW p \in Procs, Locking(p) \/ Crash(p)
      PROVE  \A q \in Procs : q = p \/ place'[q] = place[q]
  <2>1. \E there : place' = [place EXCEPT ![p] = there]
    BY <1>1 DEF Locking, Create, CreateWins, CreateFails, Inspect, Unlink, Release, Remove,
       Drop, Goto, Crash
  <2> QED
    BY <1>0, <2>1
<1>2. ASSUME NEW d \in Daemons, DaemonStep(d) \/ Launch(d) \/ StartFails(d) \/ Stop(d)
      PROVE  \A q \in Procs : q = d \/ place'[q] = place[q]
  <2>1. \E there : place' = [place EXCEPT ![d] = there]
    BY <1>2 DEF DaemonStep, WriteRunFile, StartHeartbeat, ReadOwnLock, Beat, ReadRunFile,
       EraseRunFile, Launch, StartFails, Stop, Goto
  <2> QED
    BY <1>0, <2>1
<1>3. ASSUME NEW d \in Daemons, Launch(d)
      PROVE  place[d] = "unborn" /\ place'[d] = "creating"
  BY <1>0, <1>3 DEF Launch, Goto
<1>4. ASSUME NEW c \in Clients, ClientStep(c) \/ Call(c)
      PROVE  \A q \in Procs :
               \/ q = c \/ place'[q] = place[q]
               \/ q \in Daemons /\ place[q] = "unborn" /\ place'[q] = "creating"
  <2>1. \/ \E there : place' = [place EXCEPT ![c] = there]
        \/ \E d \in Daemons :
             place[d] = "unborn" /\ place' = [place EXCEPT ![c] = "waiting", ![d] = "creating"]
    BY <1>4 DEF ClientStep, Spawn, SkipSpawn, FindRunFile, Found, Return, Timeout, Call, Goto
  <2> QED
    BY <1>0, <2>1
<1>5. Tick \/ UNCHANGED vars => place' = place
  BY DEF Tick, vars
<1>6. CASE \E p \in Procs : Locking(p) \/ Crash(p)
  BY <1>0, <1>1, <1>6
<1>7. CASE \E d \in Daemons : DaemonStep(d) \/ Launch(d) \/ StartFails(d) \/ Stop(d)
  BY <1>0, <1>2, <1>3, <1>7
<1>8. CASE \E c \in Clients : ClientStep(c) \/ Call(c)
  BY <1>0, <1>4, <1>8
<1> QED
  BY <1>5, <1>6, <1>7, <1>8 DEF Next

\* The way of a daemon: born, it boots, wins, runs and leaves, never back.
LEMMA DaemonMoves ==
  ASSUME TypeOK, [Next]_vars, NEW d \in Daemons
  PROVE  /\ place[d] # "unborn" => place'[d] # "unborn"
         /\ place[d] \in Departed => place'[d] \in Departed
         /\ place[d] \in Winners => place'[d] \in Winners
         /\ place'[d] \in Running => place[d] \in Running \/ WriteRunFile(d)
         /\ place'[d] \in Gone =>
              place[d] \in Gone \cup Acquiring \/ place'[d] \in Departed
         /\ place'[d] = "refused" =>
              place[d] = "refused" \/ Inspect(d) \/ Create(d)
<1>0. /\ d \in Procs /\ place \in [Procs -> DaemonPlaces \cup ClientPlaces]
      /\ place[d] \in DaemonPlaces
  BY DEF Procs, TypeOK
<1>1. \/ place'[d] = place[d]
      \/ place[d] = "unborn" /\ place'[d] = "creating"
      \/ Locking(d) \/ Crash(d) \/ DaemonStep(d) \/ StartFails(d) \/ Stop(d)
  BY OneProcessMoves
<1> USE <1>0 DEF Departed, Winners, Running, Leaving, Gone, Acquiring, Booting, Goto
<1>2. CASE place'[d] = place[d] \/ (place[d] = "unborn" /\ place'[d] = "creating")
  BY <1>2
<1>3. CASE Create(d)
  BY <1>3 DEF Create, CreateWins, CreateFails, Won, Lost
<1>4. CASE Inspect(d)
  BY <1>4 DEF Inspect, Lost
<1>5. CASE Unlink(d)
  BY <1>5 DEF Unlink
<1>6. CASE Release(d) \/ Remove(d)
  BY <1>6 DEF Release, Remove, Drop, AfterRelease
<1>7. CASE Crash(d)
  BY <1>7 DEF Crash, Alive
<1>8. CASE DaemonStep(d)
  BY <1>8 DEF DaemonStep, WriteRunFile, StartHeartbeat, ReadOwnLock, Beat, ReadRunFile,
     EraseRunFile
<1>9. CASE StartFails(d) \/ Stop(d)
  BY <1>9 DEF StartFails, Stop
<1> QED
  BY <1>1, <1>2, <1>3, <1>4, <1>5, <1>6, <1>7, <1>8, <1>9 DEF Locking

\* How a client comes to wait, and leaves its election.
LEMMA ClientMoves ==
  ASSUME TypeOK, [Next]_vars, NEW c \in Clients
  PROVE  /\ place[c] = "crashed" => place'[c] = "crashed"
         /\ place[c] = "elected" =>
              place'[c] \in {"elected", "crashed"} \/ Spawn(c) \/ SkipSpawn(c)
         /\ place'[c] = "waiting" =>
              place[c] = "waiting" \/ Inspect(c) \/ Create(c) \/ Spawn(c)
<1>0. /\ c \in Procs /\ c \notin Daemons
      /\ place \in [Procs -> DaemonPlaces \cup ClientPlaces]
      /\ place[c] \in ClientPlaces
  BY ProcsAssumption DEF Procs, TypeOK
<1>1. \/ place'[c] = place[c]
      \/ Locking(c) \/ Crash(c) \/ ClientStep(c) \/ Call(c)
  BY OneProcessMoves
<1> USE <1>0 DEF Goto
<1>2. CASE place'[c] = place[c]
  BY <1>2
<1>3. CASE Create(c) \/ Inspect(c)
  BY <1>3 DEF Create, Inspect
<1>4. CASE Unlink(c)
  BY <1>4 DEF Unlink
<1>5. CASE Release(c) \/ Remove(c)
  BY <1>5 DEF Release, Remove, Drop, AfterRelease
<1>6. CASE Crash(c)
  BY <1>6 DEF Crash, Alive, Gone
<1>7. CASE Spawn(c) \/ SkipSpawn(c)
  <2>1. place[c] = "elected"
    BY <1>7 DEF Spawn, SkipSpawn
  <2>2. SkipSpawn(c) => place'[c] # "waiting"
    BY DEF SkipSpawn, Found, Return
  <2> QED
    BY <1>7, <2>1, <2>2
<1>8. CASE FindRunFile(c) \/ Timeout(c) \/ Call(c)
  BY <1>8 DEF FindRunFile, Found, Return, Timeout, Call
<1> QED
  BY <1>1, <1>2, <1>3, <1>4, <1>5, <1>6, <1>7, <1>8 DEF Locking, ClientStep

\* Who writes a lock file: a winner of it, or the daemon that beats.
LEMMA LockMoves ==
  ASSUME TypeOK, [Next]_vars, NEW f \in Files
  PROVE  \/ lock'[f] \in {lock[f], NoOne}
         \/ \E p \in Procs :
              /\ FileOf(p) = f /\ lock'[f] = p
              /\ \/ place'[p] = Won(p)
                 \/ p \in Daemons /\ place[p] = "beating"
<1>0. \A d \in Daemons : d \in Procs /\ FileOf(d) = "daemon.lock"
  BY DEF Procs, FileOf
<1>1. ASSUME NEW p \in Procs, Create(p)
      PROVE  \/ lock' = lock
             \/ lock' = [lock EXCEPT ![FileOf(p)] = p] /\ place'[p] = Won(p)
  BY <1>1 DEF Create, CreateFails, CreateWins, Goto, files, TypeOK
<1>2. ASSUME NEW p \in Procs, Inspect(p) \/ Unlink(p) \/ Release(p) \/ Remove(p) \/ Crash(p)
      PROVE  lock' = lock \/ lock' = [lock EXCEPT ![FileOf(p)] = NoOne]
  BY <1>2 DEF Inspect, Unlink, Release, Remove, Crash, files
<1>3. ASSUME NEW d \in Daemons, DaemonStep(d) \/ Launch(d) \/ StartFails(d) \/ Stop(d)
      PROVE  \/ lock' = lock
             \/ lock' = [lock EXCEPT !["daemon.lock"] = d] /\ place[d] = "beating"
  BY <1>3 DEF DaemonStep, WriteRunFile, StartHeartbeat, ReadOwnLock, Beat, ReadRunFile,
     EraseRunFile, Launch, StartFails, Stop, files
<1>4. ASSUME NEW c \in Clients, ClientStep(c) \/ Call(c)
      PROVE  lock' = lock
  BY <1>4 DEF ClientStep, Spawn, SkipSpawn, FindRunFile, Found, Timeout, Call, files
<1>5. Tick \/ UNCHANGED vars => lock' = lock
  BY DEF Tick, vars
<1> USE DEF TypeOK
<1>6. CASE \E p \in Procs : Locking(p) \/ Crash(p)
  BY <1>1, <1>2, <1>6 DEF Locking
<1>7. CASE \E d \in Daemons : DaemonStep(d) \/ Launch(d) \/ StartFails(d) \/ Stop(d)
  BY <1>0, <1>3, <1>7
<1>8. CASE \E c \in Clients : ClientStep(c) \/ Call(c)
  BY <1>4, <1>8
<1> QED
  BY <1>5, <1>6, <1>7, <1>8 DEF Next

LEMMA RunFileMoves ==
  ASSUME [Next]_vars
  PROVE  \/ runFile' = runFile
         \/ \E d \in Daemons : WriteRunFile(d) \/ place[d] = "erasing"
<1>1. ASSUME NEW p \in Procs, Locking(p) \/ Crash(p) PROVE runFile' = runFile
  BY <1>1 DEF Locking, Create, Inspect, Unlink, Release, Remove, Crash
<1>2. ASSUME NEW d \in Daemons, DaemonStep(d) \/ Launch(d) \/ StartFails(d) \/ Stop(d)
      PROVE  runFile' = runFile \/ WriteRunFile(d) \/ place[d] = "erasing"
  BY <1>2 DEF DaemonStep, StartHeartbeat, ReadOwnLock, Beat, ReadRunFile, EraseRunFile,
     Launch, StartFails, Stop
<1>3. ASSUME NEW c \in Clients, ClientStep(c) \/ Call(c) PROVE runFile' = runFile
  BY <1>3 DEF ClientStep, Spawn, SkipSpawn, FindRunFile, Found, Timeout, Call
<1>4. Tick \/ UNCHANGED vars => runFile' = runFile
  BY DEF Tick, vars
<1>5. CASE \E p \in Procs : Locking(p) \/ Crash(p)
  BY <1>1, <1>5
<1>6. CASE \E d \in Daemons : DaemonStep(d) \/ Launch(d) \/ StartFails(d) \/ Stop(d)
  BY <1>2, <1>6
<1>7. CASE \E c \in Clients : ClientStep(c) \/ Call(c)
  BY <1>3, <1>7
<1> QED
  BY <1>4, <1>5, <1>6, <1>7 DEF Next

LEMMA WaitedMoves ==
  ASSUME [Next]_vars
  PROVE  waited' = waited \/ Tick \/ \E c \in Clients : Call(c)
<1>1. ASSUME NEW p \in Procs, Locking(p) \/ Crash(p) PROVE waited' = waited
  BY <1>1 DEF Locking, Create, Inspect, Unlink, Release, Remove, Crash, clients
<1>2. ASSUME NEW d \in Daemons, DaemonStep(d) \/ Launch(d) \/ StartFails(d) \/ Stop(d)
      PROVE  waited' = waited
  BY <1>2 DEF DaemonStep, WriteRunFile, StartHeartbeat, ReadOwnLock, Beat, ReadRunFile,
     EraseRunFile, Launch, StartFails, Stop, clients
<1>3. ASSUME NEW c \in Clients, ClientStep(c) PROVE waited' = waited
  BY <1>3 DEF ClientStep, Spawn, SkipSpawn, FindRunFile, Found, Timeout, clients
<1>4. UNCHANGED vars => waited' = waited
  BY DEF vars
<1>5. CASE \E p \in Procs : Locking(p) \/ Crash(p)
  BY <1>1, <1>5
<1>6. CASE \E d \in Daemons : DaemonStep(d) \/ Launch(d) \/ StartFails(d) \/ Stop(d)
  BY <1>2, <1>6
<1>7. CASE \E c \in Clients : ClientStep(c) \/ Call(c)
  BY <1>3, <1>7
<1> QED
  BY <1>4, <1>5, <1>6, <1>7 DEF Next

LEMMA CauseLocks ==
  ASSUME CauseInv, [Next]_vars
  PROVE  LocksAreOfTheirKind'
<1>1. TypeOK /\ LocksAreOfTheirKind
  BY DEF CauseInv, ElectionInv
<1>2. \A f \in Files : (lock'[f] \in Procs => FileOf(lock'[f]) = f)
  <2> SUFFICES ASSUME NEW f \in Files, lock'[f] \in Procs PROVE FileOf(lock'[f]) = f
    OBVIOUS
  <2>1. lock'[f] # NoOne
    BY ProcsAssumption
  <2>2. lock'[f] = lock[f] \/ \E p \in Procs : FileOf(p) = f /\ lock'[f] = p
    BY <1>1, <2>1, LockMoves
  <2> QED
    BY <1>1, <2>2 DEF LocksAreOfTheirKind
<1>3. ASSUME NEW p \in Procs, place'[p] = "recreating"
      PROVE  lock'[FileOf(p)] # Ghost
  <2>1. place[p] = "recreating" \/ Unlink(p)
    <3>1. \/ place'[p] = place[p]
          \/ Locking(p) \/ Crash(p)
          \/ p \in Daemons /\ (DaemonStep(p) \/ StartFails(p) \/ Stop(p))
          \/ p \in Clients /\ (ClientStep(p) \/ Call(p))
      BY <1>1, <1>3, OneProcessMoves DEF Procs
    <3>2. place \in [Procs -> DaemonPlaces \cup ClientPlaces]
      BY <1>1 DEF TypeOK
    <3>3. CASE Create(p) \/ Inspect(p)
      BY <1>3, <3>2, <3>3 DEF Create, CreateWins, CreateFails, Inspect, Goto, Won, Lost
    <3>4. CASE Release(p) \/ Remove(p) \/ Crash(p)
      BY <1>3, <3>2, <3>4 DEF Release, Remove, Drop, AfterRelease, Goto, Crash
    <3>5. CASE p \in Daemons /\ (DaemonStep(p) \/ StartFails(p) \/ Stop(p))
      BY <1>3, <3>2, <3>5
      DEF DaemonStep, WriteRunFile, StartHeartbeat, ReadOwnLock, Beat, ReadRunFile,
          EraseRunFile, StartFails, Stop, Goto
    <3>6. CASE p \in Clients /\ (ClientStep(p) \/ Call(p))
      <4>1. p \notin Daemons
        BY <3>6, ProcsAssumption
      <4> QED
        BY <1>3, <3>2, <3>6, <4>1
        DEF ClientStep, Spawn, SkipSpawn, FindRunFile, Found, Return, Timeout, Call, Goto
    <3> QED
      BY <1>3, <3>1, <3>3, <3>4, <3>5, <3>6 DEF Locking
  <2>2. CASE Unlink(p)
    <3>1. lock'[FileOf(p)] = NoOne
      BY <1>1, <2>2, FilesOfProcs DEF Unlink, TypeOK
    <3> QED
      BY <3>1, ProcsAssumption
  <2>3. CASE place[p] = "recreating"
    <3>1. lock[FileOf(p)] # Ghost
      BY <1>1, <2>3 DEF LocksAreOfTheirKind
    <3> QED
      BY <1>1, <3>1, LockMoves, FilesOfProcs, ProcsAssumption
  <2> QED
    BY <2>1, <2>2, <2>3
<1> QED
  BY <1>2, <1>3 DEF LocksAreOfTheirKind

LEMMA CauseTrace ==
  ASSUME CauseInv, [Next]_vars
  PROVE  RunnersLeaveATrace'
<1>1. TypeOK /\ RunnersLeaveATrace /\ RunFileIsOurs
  BY DEF CauseInv, ElectionInv
<1>2. \A d \in Daemons : d \in Procs
  BY DEF Procs
<1> SUFFICES ASSUME NEW r \in Daemons, place'[r] \in Running,
                    \A d \in Daemons : place'[d] \notin Departed
             PROVE  RunFileIsLive'
  BY DEF RunnersLeaveATrace, SomeDaemonIn
<1>3. \A d \in Daemons : place[d] \notin Departed
  BY <1>1, DaemonMoves
<1>4. CASE \E d \in Daemons : WriteRunFile(d)
  <2>1. PICK d \in Daemons : WriteRunFile(d)
    BY <1>4
  <2>2. runFile' = d /\ place'[d] = "opening"
    BY <1>1, <1>2, <2>1 DEF WriteRunFile, Goto, TypeOK
  <2> QED
    BY <1>2, <2>2 DEF RunFileIsLive, Alive, Gone
<1>5. CASE \A d \in Daemons : ~WriteRunFile(d)
  <2>1. place[r] \in Running
    BY <1>1, <1>5, DaemonMoves
  <2>2. RunFileIsLive
    BY <1>1, <1>3, <2>1 DEF RunnersLeaveATrace, SomeDaemonIn
  <2>3. runFile' = runFile
    BY <1>3, <1>5, RunFileMoves DEF Departed, Leaving
  <2>4. runFile \in Daemons /\ place[runFile] \notin {"unborn"} \cup Gone \cup Acquiring
    BY <1>1, <2>2, ProcsAssumption DEF RunFileIsLive, Alive, TypeOK, RunFileIsOurs
  <2>5. place'[runFile] \notin {"unborn"} \cup Gone
    BY <1>1, <2>4, DaemonMoves
  <2> QED
    BY <1>2, <2>3, <2>4, <2>5 DEF RunFileIsLive, Alive
<1> QED
  BY <1>4, <1>5

LEMMA CauseWinner ==
  ASSUME CauseInv, [Next]_vars
  PROVE  RefusalsHaveAWinner'
<1>1. TypeOK /\ RefusalsHaveAWinner /\ LocksAreOfTheirKind
  BY DEF CauseInv, ElectionInv
<1>2. "daemon.lock" \in Files /\ \A d \in Daemons : FileOf(d) = "daemon.lock" /\ d \in Procs
  BY DEF Files, FileOf, Procs
<1>3. \A p \in Procs : FileOf(p) = "daemon.lock" => p \in Daemons
  BY DEF FileOf
<1>4. SomeDaemonIn(Winners) => SomeDaemonIn(Winners)'
  BY <1>1, DaemonMoves DEF SomeDaemonIn
<1>5. CASE lock["daemon.lock"] \in Daemons
  BY <1>1, <1>4, <1>5 DEF RefusalsHaveAWinner
<1>6. CASE lock'["daemon.lock"] \in Daemons /\ lock["daemon.lock"] \notin Daemons
  <2>1. lock'["daemon.lock"] # NoOne
    BY <1>2, <1>6, ProcsAssumption
  <2>2. PICK p \in Procs : /\ FileOf(p) = "daemon.lock"
                           /\ place'[p] = Won(p) \/ place[p] = "beating"
    BY <1>1, <1>2, <1>6, <2>1, LockMoves
  <2>3. p \in Daemons
    BY <1>3, <2>2
  <2>4. place[p] = "beating" => SomeDaemonIn(Winners)
    BY <2>3 DEF SomeDaemonIn, Winners, Running
  <2>5. place'[p] = Won(p) => SomeDaemonIn(Winners)'
    BY <2>3 DEF SomeDaemonIn, Winners, Won
  <2> QED
    BY <1>4, <2>2, <2>4, <2>5 DEF RefusalsHaveAWinner
<1>7. ASSUME NEW d \in Daemons, place'[d] = "refused", lock["daemon.lock"] \notin Daemons
      PROVE  SomeDaemonIn(Winners)'
  <2>1. place[d] = "refused" \/ Inspect(d) \/ Create(d)
    BY <1>1, <1>7, DaemonMoves
  <2>2. CASE place[d] = "refused"
    BY <1>1, <1>4, <2>2 DEF RefusalsHaveAWinner, SomeDaemonIn
  <2>3. lock["daemon.lock"] \notin Procs
    BY <1>1, <1>2, <1>3, <1>7 DEF LocksAreOfTheirKind
  <2>4. CASE Inspect(d)
    <3>1. IsStale("daemon.lock")
      BY <2>3 DEF IsStale, Alive
    <3>2. place'[d] = "unlinking"
      BY <1>1, <1>2, <2>4, <3>1 DEF Inspect, Goto, TypeOK
    <3> QED
      BY <1>7, <3>2
  <2>5. CASE Create(d)
    <3>1. place[d] = "recreating" /\ lock["daemon.lock"] # NoOne
      BY <1>1, <1>2, <1>7, <2>5 DEF Create, CreateWins, CreateFails, Goto, Won, TypeOK
    <3>2. lock["daemon.lock"] # Ghost
      BY <1>1, <1>2, <3>1 DEF LocksAreOfTheirKind
    <3> QED
      BY <1>1, <1>2, <2>3, <3>1, <3>2 DEF TypeOK, Owners
  <2> QED
    BY <2>1, <2>2, <2>4, <2>5
<1> QED
  BY <1>5, <1>6, <1>7 DEF RefusalsHaveAWinner, SomeDaemonIn

LEMMA CauseElection ==
  ASSUME CauseInv, [Next]_vars, Daemons # {}
  PROVE  WaitersHaveAnElection'
<1>1. TypeOK /\ WaitersHaveAnElection /\ LocksAreOfTheirKind /\ RunFileIsOurs
  BY DEF CauseInv, ElectionInv
<1>2. /\ "spawn.lock" \in Files
      /\ \A c \in Clients : FileOf(c) = "spawn.lock" /\ c \in Procs /\ c \notin Daemons
      /\ \A p \in Procs : FileOf(p) = "spawn.lock" => p \in Clients
  BY ProcsAssumption DEF Files, FileOf, Procs
<1> DEFINE Elected == \E b \in Clients : place[b] = "elected"
           Reason == SpawnedOrDied \/ Elected
<1>3. SpawnedOrDied => SpawnedOrDied'
  <2>1. \A d \in Daemons : place'[d] \in DaemonPlaces
    BY <1>1, TypeNext DEF TypeOK
  <2> QED
    BY <1>1, <2>1, DaemonMoves, ClientMoves DEF SpawnedOrDied, SomeDaemonIn, SomeClientDied
<1>4. ASSUME NEW c \in Clients, Spawn(c) PROVE SpawnedOrDied'
  <2>1. \/ \E d \in Daemons : place' = [place EXCEPT ![c] = "waiting", ![d] = "creating"]
        \/ \A d \in Daemons : place[d] # "unborn" /\ place' = [place EXCEPT ![c] = "waiting"]
    BY <1>4 DEF Spawn, Goto
  <2>2. \E d \in Daemons : place'[d] # "unborn"
    BY <1>1, <1>2, <2>1 DEF TypeOK, Procs
  <2>3. \A d \in Daemons : place'[d] \in DaemonPlaces
    BY <1>1, TypeNext DEF TypeOK
  <2> QED
    BY <2>2, <2>3 DEF SpawnedOrDied, SomeDaemonIn
<1>5. ASSUME NEW c \in Clients, SkipSpawn(c) PROVE SpawnedOrDied
  <2>1. runFile \in Daemons /\ place[runFile] # "unborn"
    BY <1>1, <1>5, ProcsAssumption DEF SkipSpawn, Found, RunFileIsLive, Alive, TypeOK
  <2> QED
    BY <1>1, <2>1 DEF SpawnedOrDied, SomeDaemonIn, TypeOK
<1>6. Reason => Reason'
  <2>1. ASSUME NEW b \in Clients, place[b] = "elected" PROVE Reason'
    <3>1. place'[b] \in {"elected", "crashed"} \/ Spawn(b) \/ SkipSpawn(b)
      BY <1>1, <2>1, ClientMoves
    <3>2. place'[b] = "crashed" => SpawnedOrDied'
      BY DEF SpawnedOrDied, SomeClientDied
    <3> QED
      BY <1>3, <1>4, <1>5, <3>1, <3>2
  <2> QED
    BY <1>3, <2>1
<1>7. ASSUME lock["spawn.lock"] \in Clients \/ \E c \in Clients : place[c] = "waiting"
      PROVE  Reason'
  BY <1>1, <1>6, <1>7 DEF WaitersHaveAnElection
<1>8. ASSUME lock'["spawn.lock"] \in Clients, lock["spawn.lock"] \notin Clients
      PROVE  Reason'
  <2>1. lock'["spawn.lock"] # NoOne
    BY <1>2, <1>8, ProcsAssumption
  <2>2. PICK p \in Procs : /\ FileOf(p) = "spawn.lock"
                           /\ place'[p] = Won(p) \/ p \in Daemons
    BY <1>1, <1>2, <1>8, <2>1, LockMoves
  <2>3. p \in Clients /\ place'[p] = "elected"
    BY <1>2, <2>2 DEF Won
  <2> QED
    BY <2>3
<1>9. ASSUME NEW c \in Clients, place'[c] = "waiting", place[c] # "waiting",
             lock["spawn.lock"] \notin Clients
      PROVE  Reason'
  <2>1. Inspect(c) \/ Create(c) \/ Spawn(c)
    BY <1>1, <1>9, ClientMoves
  <2>2. lock["spawn.lock"] \notin Procs
    BY <1>1, <1>2, <1>9 DEF LocksAreOfTheirKind
  <2>3. CASE Inspect(c)
    <3>1. IsStale("spawn.lock")
      BY <2>2 DEF IsStale, Alive
    <3>2. place'[c] = "unlinking"
      BY <1>1, <1>2, <2>3, <3>1 DEF Inspect, Goto, TypeOK
    <3> QED
      BY <1>9, <3>2
  <2>4. CASE Create(c)
    <3>1. place[c] = "recreating" /\ lock["spawn.lock"] # NoOne
      BY <1>1, <1>2, <1>9, <2>4 DEF Create, CreateWins, CreateFails, Goto, Won, TypeOK
    <3>2. lock["spawn.lock"] # Ghost
      BY <1>1, <1>2, <3>1 DEF LocksAreOfTheirKind
    <3> QED
      BY <1>1, <1>2, <2>2, <3>1, <3>2 DEF TypeOK, Owners
  <2> QED
    BY <1>4, <2>1, <2>3, <2>4
<1>10. ASSUME NEW c \in Clients, waited'[c] > 0 PROVE SpawnedOrDied'
  <2>1. waited'[c] <= waited[c] \/ (Tick /\ place[c] = "waiting")
    <3>1. CASE Tick
      BY <1>1, <3>1 DEF Tick, TypeOK
    <3>2. CASE \E b \in Clients : Call(b)
      BY <1>1, <3>2, TimesAssumption DEF Call, TypeOK
    <3>3. CASE waited' = waited
      BY <1>1, <3>3, TimesAssumption DEF TypeOK
    <3> QED
      BY <3>1, <3>2, <3>3, WaitedMoves
  <2>2. CASE waited'[c] <= waited[c]
    <3>1. waited[c] > 0
      BY <1>1, <1>10, <2>2, TimesAssumption, TypeNext DEF TypeOK
    <3> QED
      BY <1>1, <1>3, <3>1 DEF WaitersHaveAnElection
  <2>3. CASE Tick /\ place[c] = "waiting"
    <3>1. ~Elected
      BY <1>2, <2>3 DEF Tick, TakesNoTime
    <3> QED
      BY <1>1, <1>3, <2>3, <3>1 DEF WaitersHaveAnElection
  <2> QED
    BY <2>1, <2>2, <2>3
<1> QED
  BY <1>7, <1>8, <1>9, <1>10 DEF WaitersHaveAnElection

LEMMA CauseNext ==
  ASSUME Daemons # {}
  PROVE  CauseInv /\ [Next]_vars => CauseInv'
<1> SUFFICES ASSUME CauseInv, [Next]_vars PROVE CauseInv'
  OBVIOUS
<1>1. ElectionInv'
  BY InvNext DEF CauseInv
<1> QED
  BY <1>1, CauseLocks, CauseTrace, CauseWinner, CauseElection DEF CauseInv

\* Whoever has waited out his time has a cause.
LEMMA CauseOfATimeout ==
  ASSUME CauseInv, SpawnWait > 0, NEW c \in Clients, Timeout(c)
  PROVE  \/ \E d \in Daemons : place[d] \in Booting \cup Leaving \cup {"exited", "crashed"}
         \/ \E b \in Clients : place[b] = "crashed"
         \/ RunFileIsLive
<1>1. /\ TypeOK /\ WaitersHaveAnElection /\ RunnersLeaveATrace /\ RefusalsHaveAWinner
  BY DEF CauseInv, ElectionInv
<1>2. SpawnedOrDied
  BY <1>1 DEF Timeout, WaitersHaveAnElection
<1>3. CASE SomeClientDied
  BY <1>3 DEF SomeClientDied
<1>4. ASSUME NEW d \in Daemons, place[d] \in DaemonPlaces \ {"unborn"}
      PROVE  \/ \E e \in Daemons : place[e] \in Booting \cup Departed
             \/ RunFileIsLive
  <2>1. SomeDaemonIn(Running) => RunFileIsLive \/ SomeDaemonIn(Departed)
    BY <1>1 DEF RunnersLeaveATrace
  <2>2. CASE place[d] \in Booting \cup Departed
    BY <2>2
  <2>3. CASE place[d] \in Running
    BY <2>1, <2>3 DEF SomeDaemonIn
  <2>4. CASE place[d] = "refused"
    <3>1. SomeDaemonIn(Winners)
      BY <1>1, <2>4 DEF RefusalsHaveAWinner, SomeDaemonIn
    <3> QED
      BY <2>1, <3>1 DEF SomeDaemonIn, Winners, Booting
  <2> QED
    BY <1>4, <2>2, <2>3, <2>4 DEF DaemonPlaces, Gone, Departed
<1> QED
  BY <1>2, <1>3, <1>4 DEF SpawnedOrDied, SomeDaemonIn, Departed

\* A client that gives up has a cause, whatever was crashed, raced or left
\* behind: provided waiting takes any time at all, and there is a program to
\* spawn.
THEOREM ClientsGiveUpWithCause ==
  ASSUME Daemons # {}, SpawnWait > 0
  PROVE  Spec => GivesUpWithCause
<1>1. CauseInv =>
        \A c \in Clients : Timeout(c) =>
          \/ \E d \in Daemons : place[d] \in Booting \cup Leaving \cup {"exited", "crashed"}
          \/ \E b \in Clients : place[b] = "crashed"
          \/ RunFileIsLive
  BY CauseOfATimeout
<1>2. CauseInv /\ [Next]_vars => CauseInv'
  BY CauseNext
<1> QED
  BY <1>1, <1>2, CauseInit, PTL DEF Spec, GivesUpWithCause
=============================================================================
