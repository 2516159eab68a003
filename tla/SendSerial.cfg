\* Two calls on one binding, every kind of input, four peer messages that may be admitted during their awaits, one crash.
SPECIFICATION Spec
CONSTANTS
  None = None
  Me = "me"
  Names <- MCNames
  Users <- MCUsers
  Roster <- MCRoster
  Threads <- MCThreads
  Eids <- MCEids
  MaxHistory = 8
  Calls <- TwoCalls
  ThreadOf <- FreshTwo
  Inputs <- AllInputs
  PeerSays <- AllPeers
  Initial <- OneEach
  Waits = {1}
  GroupLimit = 2
  ChatLimit = 2
  Minute = 1
  Second = 1
  MaxClock = 0
  MaxLimited = 0
  MaxCrashes = 1
CHECK_DEADLOCK FALSE
INVARIANTS
  TypeOK
  SendsAreSerial
  OwnWordIsKept
  RefusedReachedNobody
  UntoldCloseIsAbandonment
  ClosesAreEntitled
