SPECIFICATION Spec
CONSTANTS
  k1 = k1
  k2 = k2
  v1 = v1
  v2 = v2
  h1 = h1
  h2 = h2
  p1 = p1
  p2 = p2
  Keys = {k1}
  Vals = {v1, v2}
  NoKey = NoKey
  NoVal = NoVal
  Capacity = 4
  Handles = {h1}
  Procs = {p1}
  ProcOf <- Alone
  Kinds = {"write", "repair"}
  StartOpen = TRUE
  ClockStepsBack = FALSE
  MaxClock = 0
  Budget <- TieBudget
SYMMETRY DataSymmetry
PROPERTY AckedWriteVisible
