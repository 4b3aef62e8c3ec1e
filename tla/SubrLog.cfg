CONSTANTS
  InitSize = 3
  MaxMsgBSize = 4
  Requests <- MCRequests
  ResidSizes = {1, 2}
  MaxChars = 5
  MaxResizes = 2
  d1 = d1
  d2 = d2
  LogdThreads <- MCLogdThreads
SPECIFICATION MCSpec
INVARIANT TypeOK
INVARIANT RecentCharsInOrder
INVARIANT SelectNotStale
PROPERTY ReadReturns
PROPERTY SelectorWoken
