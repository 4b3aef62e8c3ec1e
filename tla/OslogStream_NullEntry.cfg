\* Records written into short rings with few list entries; a panic stops the
\* machine and the number of calls is bounded, so the system really stops.
CONSTANTS
  w1 = w1
  r1 = r1
  r2 = r2
  o1 = o1
  o2 = o2
  s1 = s1
  Writers <- MCWriters
  Readers <- MCReaders
  Openers <- MCOpeners
  Selectors <- MCSelectors
  BufSize = 3
  NumEntries = 2
  Lens = {1, 2, 4}
  MaxMsgs = 3
  u1 = u1
  u2 = u2
  u3 = u3
  LogSize = 3
  NULL = NULL
SPECIFICATION MCSpec
INVARIANT NoNullEntry
CHECK_DEADLOCK FALSE
