SPECIFICATION Spec
CONSTANTS
  k1 = k1
  k2 = k2
  k3 = k3
  v1 = v1
  v2 = v2
  w1 = w1
  w2 = w2
  Keys = {k1, k2}
  Vals = {v1, v2}
  NoVal = NoVal
  Writers = {w1, w2}
  NoOne = NoOne
  MaxPairs = 2
  InitPairs = 2
  Budget <- MisreadBudget
PROPERTY OneKeyAtATime
CHECK_DEADLOCK FALSE
