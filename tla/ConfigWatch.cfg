SPECIFICATION FairSpec
CONSTANTS
  k1 = k1
  k2 = k2
  v1 = v1
  v2 = v2
  Keys = {k1, k2}
  Vals = {v1, v2}
  NoVal = NoVal
  Unknown = Unknown
  Missing = Missing
  MaxQueue = 2
  Budget <- WatchBudget
INVARIANTS TypeOK NothingMissed Converged
PROPERTY EventuallyAgrees
CHECK_DEADLOCK FALSE
