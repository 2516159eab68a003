\* Two ends, two debates, one round, sends that cross, get lost or are cut by a crash.
SPECIFICATION Spec
CONSTANTS
  None = None
  Agents = {"a", "b"}
  Users = {11, 12}
  Roster <- MCRoster
  Threads = {1, 2}
  Eids = {1, 2, 3, 4}
  MaxHistory = 8
  Says <- MCSays
  MaxRounds = 1
  MaxSends = 4
  MaxCrashes = 1
CHECK_DEADLOCK FALSE
PROPERTIES
  RoundsAreCapped
INVARIANTS
  DebatesCanEnd
  EndsAgree
