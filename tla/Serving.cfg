\* One client, one waiting fetch beside others, two messages, two threads.
SPECIFICATION FairSpec
CONSTANTS
  None = None
  Clients = {c1}
  Calls = {k1}
  Threads = {1, 2}
  MaxRows = 2
  MaxClock = 1
  CatchUp = 0
  Keep = 0
  Overdue = 1
  Requests <- MCRequests
  Surfaced = 1
  FloorNew = 1
  FloorReminder = 0
CHECK_DEADLOCK FALSE
INVARIANTS
  NothingIsPassedOver
PROPERTIES
  EveryTurnSurfaces
