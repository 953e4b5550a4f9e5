SPECIFICATION FairSpec
CONSTANTS
  sa = sa  sb = sb
  Sessions = {sa, sb}
  Stopped = {sa}
INVARIANTS OneRemoteTurn SuccessIsComplete
PROPERTIES TurnSettlesOrStrands
CHECK_DEADLOCK FALSE
