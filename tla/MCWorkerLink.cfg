SPECIFICATION FairLinkSpec
CONSTANTS
  Conns = {c1, c2, c3}
  MaxQueued = 2
  MaxFaults = 2
INVARIANTS OneOpenSession
PROPERTIES LinkSettles
