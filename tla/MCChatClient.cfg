SPECIFICATION FairSpec
CONSTANTS
  sa = sa  sb = sb  c1 = c1
  Sessions = {sa, sb}
  Known = {sa}
  Calls = {c1}
  History <- MCHistory
  MaxChanges <- MCMaxChanges
INVARIANTS StreamIsShown SocketFollowsScreen
CHECK_DEADLOCK FALSE
PROPERTIES CalmScreenCatchesUp
