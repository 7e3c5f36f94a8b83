SPECIFICATION FairSpec
CONSTANTS
  c1 = c1
  c2 = c2
  small = small
  Clients = {c1, c2}
  Limits = {small}
  Default = Default
  Grace = 1
  NoAnswer = NoAnswer
  Budget <- ApiBudget
INVARIANTS TypeOK CreatedIsPending
PROPERTIES GraceKept RequestAnswered ImplementsStore
CHECK_DEADLOCK FALSE
