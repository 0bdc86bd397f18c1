CONSTANTS
  a = a
  b = b
  c = c
  d = d
  e1 = e1
  e2 = e2
  Order <- MCDiamond
  Dependencies <- MCDiamondDependencies
  Registered = {a, b, c, d}
  MaxRetries = 1
  Runs = {e1, e2}
  Sequential = {e2}
  MaxConcurrent = 2
  MaxCalls = 1
SPECIFICATION Spec
INVARIANTS StartedOnce
PROPERTIES PendingOnlyBehindFailures RunsEnd
CHECK_DEADLOCK FALSE
