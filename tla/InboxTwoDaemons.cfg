\* Two daemons on one bot, as after a lock taken over from a stalled one.
SPECIFICATION Spec
CONSTANTS
  None = None
  Me = "me"
  Names <- MCNames
  Users <- MCUsers
  Roster <- MCRoster
  Threads <- MCThreads
  Eids <- MCEids
  MaxHistory = 2
  Wire <- TwiceWire
  Pollers = {p1,p2}
  Initial <- FreshLedger
  MaxBatch = 2
  MaxUpdates = 3
  MaxCrashes = 1
  MaxFailures = 0
  MaxEvictions = 1
SYMMETRY EitherDaemon
CHECK_DEADLOCK TRUE
INVARIANTS
  LedgerMatchesItsInbox
  AnchorIsCaptured
  ConfirmedIsJudged
