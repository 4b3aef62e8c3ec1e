CONSTANTS
  w1 = w1
  w2 = w2
  w3 = w3
  NULL = NULL
  Writers <- MCWriters
  LogSize = 3
SPECIFICATION Spec
INVARIANT RecordedMatchesOccupancy
