SPECIFICATION Spec
CONSTANTS
  a = a
  b = b
  r1 = r1
  r2 = r2
  NoVotes = NoVotes
  Ids <- MCIds
  Rows <- MCRows
  N = 3
INVARIANTS TypeOK OneFate NoLaneLost ViolatorsRejected ScoredByOwnVotes
CHECK_DEADLOCK FALSE
