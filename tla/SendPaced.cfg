\* Two calls at the daemon's and at Telegram's limits, to one peer or to all, every call scheduled.
SPECIFICATION FairSpec
CONSTANTS
  None = None
  Me = "me"
  Names <- MCNames
  Users <- MCUsers
  Roster <- MCRoster
  Threads <- MCThreads
  Eids <- MCEids
  MaxHistory = 8
  Calls <- TwoCalls
  ThreadOf <- FreshTwo
  Inputs <- PaceInputs
  PeerSays <- NoPeers
  Initial <- OneEach
  Waits = {1, 2}
  GroupLimit = 1
  ChatLimit = 1
  Minute = 2
  Second = 1
  MaxClock = 2
  MaxLimited = 2
  MaxCrashes = 0
CHECK_DEADLOCK FALSE
INVARIANTS
  LongestWaitIsKept
  PaceIsKept
PROPERTIES
  EveryCallSettles
