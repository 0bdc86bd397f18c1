CONSTANTS
  r1 = r1
  r2 = r2
  r3 = r3
  session1 = session1
  session2 = session2
  session = session
  sales = sales
  staff = staff
  select = select
  insert = insert
  v1 = v1
  NoSession = NoSession
  NotLoaded = NotLoaded
  Requests = {r1, r2, r3}
  Questions = {sales, staff}
  Sessions = {session1, session2}
  Question <- MCQuestion
  Given <- MCGiven
  Name <- MCName
  Statements = {select, insert}
  Features <- MCFeatures
  Readonly = FALSE
  MaxTurns = 1
  Versions = {v1}
SPECIFICATION Spec
INVARIANTS CacheIsContextFree RemembersAnswers ChargedOnce
PROPERTIES AuditedUnlessReplaced QueriesEnd
CHECK_DEADLOCK FALSE
