SPECIFICATION Spec
CONSTANTS
  c1 = c1
  c2 = c2
  small = small
  Clients = {c1, c2}
  Limits = {small}
  Default = Default
  Grace = 1
  NoAnswer = NoAnswer
  Budget <- AskedBudget
PROPERTY AskedFirst
CHECK_DEADLOCK FALSE
