\* One call of log_dmesg on every small ring, and the host notification
\* registry; a call that returns stops, and so does the registry once the
\* requests are used up; process creation stops when every caller is
\* refused by the limits, or when the kernel stops.
CONSTANTS
  NUL = NUL
  NL = NL
  LT = LT
  GT = GT
  a = a
  Other <- MCOther
  Sizes = {1, 2, 3, 4}
  BufSizes = {2, 5}
  pt1 = pt1
  pt2 = pt2
  pt3 = pt3
  n1 = n1
  n2 = n2
  e1 = e1
  e2 = e2
  e3 = e3
  NONE = NONE
  Ports <- MCPorts
  Notifiers <- MCNotifiers
  Entries <- MCEntries
  MaxRequests = 8
  t1 = t1
  t2 = t2
  t3 = t3
  Callers <- MCCallers
  CallerProc <- MCCallerProc
  InitProcs <- MCInitProcs
  MaxProc = 5
  RlimNproc = 3
  PidMax = 6
  PidWrap = 3
SPECIFICATION MCSpec
SYMMETRY MCSymmetry
INVARIANT TypeOK
INVARIANT DmesgMatchesReference
INVARIANT RegistryIntegrity
INVARIANT ForkAccounting
INVARIANT VforkState
CHECK_DEADLOCK FALSE
