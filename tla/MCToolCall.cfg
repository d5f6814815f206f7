SPECIFICATION FairToolSpec
CONSTANTS
  Call = {c1, c2}
  c1 = c1
  c2 = c2
  p1 = p1
  p2 = p2
  t1 = t1
  t2 = t2
  Process = {p1, p2}
  Tool = {t1, t2}
  Allowed = {t1}
  Bucket <- MCBucket
  MaxCalls <- MCMaxCalls
  Window = 2
  MaxNow = 2
  NoRow = NoRow
  NoLimit = NoLimit
  NoReply = NoReply
  Sites <- MCSites
  Settings <- MCSettings
  Payload = {0}
  MaxDay = 1
INVARIANTS ToolTypeOK WindowBound ForbiddenRunsOnlyUnanswered AuditTruthful
PROPERTIES GrantsWithinLimit CallsReturn
CHECK_DEADLOCK FALSE
