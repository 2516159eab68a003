\* The fair loop through a crash, a failure, a conflict and an eviction.
SPECIFICATION FairSpec
CONSTANTS
  None = None
  Me = "me"
  Names <- MCNames
  Users <- MCUsers
  Roster <- MCRoster
  Threads <- MCThreads
  Eids <- MCEids
  MaxHistory = 2
  Wire <- FairWire
  Pollers = {p1}
  Initial <- FreshLedger
  MaxBatch = 2
  MaxUpdates = 3
  MaxCrashes = 1
  MaxFailures = 1
  MaxEvictions = 1
CHECK_DEADLOCK FALSE
PROPERTIES
  ImplementsJudgedLog
  EveryUpdateIsJudged
