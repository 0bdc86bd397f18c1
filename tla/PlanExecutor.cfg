CONSTANTS
  a = a
  b = b
  c = c
  d = d
  e1 = e1
  e2 = e2
  Order <- MCChain
  Dependencies <- MCChainDependencies
  Registered = {a, b}
  MaxRetries = 1
  Runs = {e1, e2}
  Sequential = {e2}
  MaxConcurrent = 2
  MaxCalls = 2
SPECIFICATION Safety
INVARIANTS DependenciesFirst
PROPERTIES InProgressIsRun
CHECK_DEADLOCK FALSE
