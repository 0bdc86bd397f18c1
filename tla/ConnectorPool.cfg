CONSTANTS
  c1 = c1
  c2 = c2
  c3 = c3
  users = users
  orders = orders
  NoConn = NoConn
  Sources = {users, orders}
  Calls = {c1, c2, c3}
  Target <- MCTarget
SPECIFICATION Spec
INVARIANTS SingleFlight LocksReleased NoHalfBuilt
PROPERTIES ClosesThePinned ImplementsRegistry CallsReturn CloseEnds
CHECK_DEADLOCK FALSE
