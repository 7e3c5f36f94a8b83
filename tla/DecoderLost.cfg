SPECIFICATION Spec
CONSTANTS
  good1 = good1
  good2 = good2
  bad = bad
  Msgs = {good1, bad}
  Malformed = {bad}
  Processor = "lineprotocol"
  NoMsg = NoMsg
  MaxDrops = 0
INVARIANT FailuresAreKept
CHECK_DEADLOCK FALSE
