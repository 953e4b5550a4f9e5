SPECIFICATION Spec
CONSTANTS
  m1 = m1  m2 = m2  m3 = m3  p1 = p1  p2 = p2  r1 = r1  r2 = r2  q1 = q1
  Messages = {m1, m2}
  Settings <- MCSettings
  KindOf <- MCKindOf
  Tags <- NoTags
  PostedRoles = {"user", "system"}
  Processes = {p1}
  Outlined = {p1}
  Slots = {r1, r2}
  Requests = {q1}
  Faults = {"switch"}
CHECK_DEADLOCK FALSE
INVARIANT StopHitsOnlyItsTurn
