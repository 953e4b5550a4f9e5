SPECIFICATION SilentSpec
CONSTANTS
  m1 = m1  m2 = m2  r1 = r1  r2 = r2  q1 = q1
  Messages = {m1, m2}
  Settings <- MCSettings
  KindOf <- MCKindOf
  Tags <- MCTags
  PostedRoles = {"user", "system"}
  Processes = {}
  Outlined = {}
  Slots = {r1, r2}
  Requests = {q1}
  Faults = {}
CHECK_DEADLOCK FALSE
PROPERTIES EveryTurnEnds QueuedMessageIsTaken
