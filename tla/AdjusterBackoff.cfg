SPECIFICATION Spec
CONSTANTS
  k1 = k1
  k2 = k2
  Keys = {k1}
  Cfgs <- BothCfgs
  NoCfg = NoCfg
  Bad = Bad
  NoKey = NoKey
  StartFiles <- OneOrAll
  Flows = {"low", "high"}
  Interval = 1
  Slack = 1
  Window = 1
  Threshold = 2
  Budget <- BackoffBudget
PROPERTY BackoffHolds
CHECK_DEADLOCK FALSE
