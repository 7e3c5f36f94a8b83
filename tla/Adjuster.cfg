SPECIFICATION FairSpec
CONSTANTS
  k1 = k1
  k2 = k2
  Keys = {k1, k2}
  Cfgs <- BothCfgs
  NoCfg = NoCfg
  Bad = Bad
  NoKey = NoKey
  StartFiles <- OneOrAll
  Flows = {"low", "high"}
  Interval = 1
  Slack = 1
  Window = 3
  Threshold = 2
  Budget <- AdjusterBudget
INVARIANTS TypeOK OneDecoderPerPoint NoOrphans AsConfigured NoReloadLost ReportedCount
PROPERTIES BackoffHolds StopEnds Served
CHECK_DEADLOCK FALSE
