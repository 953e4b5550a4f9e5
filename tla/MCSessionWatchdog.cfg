SPECIFICATION FairSpec
CONSTANTS
  IdleTimeout = 2
  TypingGrace = 1
  Limits = {0, 2}
  NudgeBound = 2
INVARIANTS NobodyIsForgotten
PROPERTIES PromptsKeepApart StuckStepIsBlocked
