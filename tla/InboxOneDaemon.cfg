\* One daemon, every kind of message, every split into responses, one crash.
SPECIFICATION Spec
CONSTANTS
  None = None
  Me = "me"
  Names <- MCNames
  Users <- MCUsers
  Roster <- MCRoster
  Threads <- MCThreads
  Eids <- MCEids
  MaxHistory = 2
  Wire <- AnyWire
  Pollers = {p1}
  Initial <- AnyLedger
  MaxBatch = 2
  MaxUpdates = 3
  MaxCrashes = 1
  MaxFailures = 0
  MaxEvictions = 0
CHECK_DEADLOCK TRUE
INVARIANTS
  TypeOK
  ConfirmedIsJudged
  NoPoisonBatch
  ExactlyOneAudit
  ThreadsAreSound
PROPERTIES
  ThreadsOnlyMoveForward
