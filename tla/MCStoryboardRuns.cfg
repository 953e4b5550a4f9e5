SPECIFICATION FairSpec
CONSTANTS
  MaxRuns = 3
  Specs = {1, 2}
  MaxRestarts = 1
INVARIANTS UnchangedIsOfTheStoryboard
PROPERTIES OnlyCancelIsUndone EveryRunEnds
