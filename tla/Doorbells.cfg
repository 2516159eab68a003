\* Two messages, a scan of one row, one restart, one change of the ladder.
SPECIFICATION FairSpec
CONSTANTS
  None = None
  Wire <- MCWire
  Depth = 1
  Levels = {"off", "notify", "wake", "autopilot", "refused"}
  Cooldown = 1
  Window = 2
  Budget = 1
  MaxRows = 2
  MaxRestarts = 1
  MaxChanges = 1
CHECK_DEADLOCK FALSE
INVARIANTS
  TypeOK
  NoCallIsMissed
  WakesAreBounded
PROPERTIES
  EveryCallIsHeard
