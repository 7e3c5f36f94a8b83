SPECIFICATION FairSpec
CONSTANTS
  good1 = good1
  good2 = good2
  bad = bad
  Msgs = {good1, good2, bad}
  Malformed = {bad}
  Processor = "lineprotocol"
  NoMsg = NoMsg
  MaxDrops = 2
INVARIANTS TypeOK SettledAtExit
PROPERTIES ExitsOnStop SubscribesAgain
CHECK_DEADLOCK FALSE
