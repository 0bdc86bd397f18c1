CONSTANTS
  w1 = w1
  w2 = w2
  r1 = r1
  inserts = inserts
  selects = selects
  Error = Error
  Nothing = Nothing
  NoTTL = NoTTL
  Requests = {w1, w2}
  Writes = {w1, w2}
  Timed = {}
  Keys = {inserts, selects}
  Key <- MCKey
  Ttl = 1
  MaxTime = 1
SPECIFICATION Safety
INVARIANTS InsertsHappen
CHECK_DEADLOCK FALSE
