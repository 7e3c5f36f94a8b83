SPECIFICATION Spec
CONSTANTS
  k1 = k1
  k2 = k2
  v1 = v1
  v2 = v2
  Keys = {k1, k2}
  Vals = {v1, v2}
  NoVal = NoVal
  Unknown = Unknown
  Missing = Missing
  MaxQueue = 3
  Budget <- FaultBudget
INVARIANT SnapshotAnnounced
CHECK_DEADLOCK FALSE
