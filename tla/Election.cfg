SPECIFICATION Spec
CONSTANTS
  Daemons = {d1, d2}
  Clients = {c1, c2}
  NoOne = NoOne
  Ghost = Ghost
  DaemonStale = 1
  SpawnWait = 1
  MaxLogins = 1
  MaxCrashes = 1
SYMMETRY Alike
CHECK_DEADLOCK FALSE
INVARIANTS
  TypeOK
  ElectionExcludes
  ElectionPreventsRaces
  RunFileNamesTheDaemon
  SpawnLockOutlivesWait
PROPERTIES
  GivesUpWithCause
