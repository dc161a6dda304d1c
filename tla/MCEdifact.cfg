SPECIFICATION EdifactSpec
CONSTANTS
  d1 = d1
  d2 = d2
  Invented = Invented
  OwnDate = OwnDate
  NoDate = NoDate
  MaxLength = 5
  MaxCells = 4
  Dates <- TwoDates
INVARIANTS EdifactTypeOK ClustersExact EveryLineAnswered DatesGrounded
CHECK_DEADLOCK FALSE
