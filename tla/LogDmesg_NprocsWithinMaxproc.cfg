\* fork1 callers racing past the maxproc test under the limits of LogDmesg.cfg.
CONSTANTS
  NUL = NUL
  NL = NL
  LT = LT
  GT = GT
  a = a
  Other <- MCOther
  Sizes = {1, 2, 3}
  BufSizes = {2, 5}
  pt1 = pt1
  pt2 = pt2
  pt3 = pt3
  n1 = n1
  n2 = n2
  e1 = e1
  e2 = e2
  e3 = e3
  NONE = NONE
  Ports <- MCPorts
  Notifiers <- MCNotifiers
  Entries <- MCEntries
  MaxRequests = 8
  t1 = t1
  t2 = t2
  t3 = t3
  Callers <- MCCallers
  CallerProc <- MCCallerProc
  InitProcs <- MCInitProcs
  MaxProc = 5
  RlimNproc = 3
  PidMax = 6
  PidWrap = 3
SPECIFICATION MCSpec
SYMMETRY MCSymmetry
INVARIANT NprocsWithinMaxproc
CHECK_DEADLOCK FALSE
