CONSTANTS
  w1 = w1
  w2 = w2
  r1 = r1
  inserts = inserts
  selects = selects
  Error = Error
  Nothing = Nothing
  NoTTL = NoTTL
  Requests = {w1, w2, r1}
  Writes = {w1, w2}
  Timed = {w1, r1}
  Keys = {inserts, selects}
  Key <- MCKey
  Ttl = 1
  MaxTime = 2
SPECIFICATION Spec
INVARIANTS CacheHoldsAnswers CachedAnswersAreRecent SuccessIsCommitted
PROPERTIES TimedExecutionsEnd RequestsEnd
CHECK_DEADLOCK FALSE
