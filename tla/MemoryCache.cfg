CONSTANTS
  k1 = k1
  k2 = k2
  k3 = k3
  v1 = v1
  v2 = v2
  Nothing = Nothing
  NoTTL = NoTTL
  Keys = {k1, k2, k3}
  Values = {v1, v2}
  TTLs <- MCTTLs
  MaxSize = 2
  MaxTime = 3
SYMMETRY MCSymmetry
SPECIFICATION Spec
INVARIANTS SizeWithinLimit
PROPERTIES OldestLeaveFirst ImplementsBaseCache
CHECK_DEADLOCK FALSE
