SPECIFICATION Spec
CONSTANTS
  k1 = k1
  k2 = k2
  Keys = {k1}
  Cfgs <- BothCfgs
  NoCfg = NoCfg
  Bad = Bad
  NoKey = NoKey
  StartFiles <- OneOrAll
  Flows = {"low", "high"}
  Interval = 1
  Slack = 1
  Window = 3
  Threshold = 2
  Budget <- ZombieBudget
INVARIANT HealthyMeansAttached
CHECK_DEADLOCK FALSE
