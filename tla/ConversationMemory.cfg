CONSTANTS
  s1 = s1
  s2 = s2
  Sessions = {s1, s2}
  MaxTurns = 2
  TTL = 1
  Recent = 1
  MaxTime = 3
  MaxIds = 4
SPECIFICATION MemorySpec
INVARIANTS MemoryTypeOK DropInReplacement
PROPERTIES NewestIsKept
CHECK_DEADLOCK FALSE
