SPECIFICATION Spec
CONSTANTS
  k1 = k1
  k2 = k2
  v1 = v1
  v2 = v2
  h1 = h1
  h2 = h2
  p1 = p1
  p2 = p2
  Keys = {k1}
  Vals = {v1, v2}
  NoKey = NoKey
  NoVal = NoVal
  Capacity = 2
  Handles = {h1, h2}
  Procs = {p1, p2}
  ProcOf <- TwoProcs
  Kinds = {"write", "read", "delete", "repair"}
  StartOpen = FALSE
  ClockStepsBack = FALSE
  MaxClock = 0
  Budget <- RaceBudget
INVARIANT OpenFindsHeader
