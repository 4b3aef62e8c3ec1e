CONSTANTS
  t1 = t1
  t2 = t2
  t3 = t3
  t4 = t4
  NULL = NULL
  Destroyed = Destroyed
  Threads <- MCThreads
  LowSpin = 2
  HighSpins <- MCHighSpins
  NCpus = {1, 2, 3}
  Dts = {1, 2}
  OwnerIds = {0, 1, 2}
  W = 3
  LockTimeOut = 2
  Durations = {2, 6}

SPECIFICATION MCSpec

INVARIANT TypeOK
INVARIANT MutualExclusion
INVARIANT WaitersMatchTurnstile
INVARIANT PriorityInheritance
INVARIANT SpinDivisorPositive
INVARIANT NoPanic
INVARIANT NoEarlyTimeout
INVARIANT NoDebugPanic

PROPERTY NoLostWakeup
PROPERTY MutexRefinement
PROPERTY SpinMutexRefinement
