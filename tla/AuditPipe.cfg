CONSTANTS
  r1 = r1
  r2 = r2
  c1 = c1
  c2 = c2
  a1 = a1
  adef = adef
  NULL = NULL
  Readers <- MCReaders
  RecordLens = {1, 2}
  ResidSizes = {1, 3}
  MaxSubmits = 3
  QLimitDefault = 2
  QLimitMin = 1
  QLimitMax = 2
  QLimitRequests = {0, 1, 3}
  Clients <- MCClients
  Minors = {0, 1}
  Auids = {a1, adef}
  DefAuid = adef
  Masks <- MCMasks
  Sorfs <- MCSorfs
  Modes = {"trail", "local", "other"}
  MaxIoctls = 2
SPECIFICATION MCSpec
INVARIANT TypeOK
INVARIANT QueueAccounting
INVARIANT CopyTargetStable
INVARIANT NoSleepWithRecords
INVARIANT ExclusiveOpen
PROPERTY ReadReturns
PROPERTY PreselectRefinement
