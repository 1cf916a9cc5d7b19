CONSTANTS
  New = {n1, n2}
  Old = {o1}
  Pids = {i1, i2}
  NoProc = NoProc
  NoPid = NoPid
SPECIFICATION FairSpec
INVARIANTS
  LockInv
PROPERTIES
  NoLiveSteal
  ImplementsMutex
  StaleSentinelRecovered
  AttemptEnds
