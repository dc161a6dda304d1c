SPECIFICATION Spec
CONSTANTS
  r1 = r1
  r2 = r2
  d1 = d1
  d2 = d2
  Backoff <- MCBackoff
  NULL = NULL
  NoRow = NoRow
  BatchSize = 2
  LockTTL = 2
  Rows <- OneRow
  Drains = {d1}
  Poison = {r1}
INVARIANT GivesUp
