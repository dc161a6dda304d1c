SPECIFICATION FairSpec
CONSTANTS
  NoLane = NoLane
  EnsembleCall = 2
  EnsembleTotal = 6
  CorrectionCall = 2
  CorrectionTotal = 4
  Backoff = 1
  LaneRecords <- FewLanes
INVARIANTS TypeOK PairsWereVoted UnanimousSurvives EnsembleFitsItsBudget CutOffLate ScoreFollowsTheVote
PROPERTIES RoundsEnd
CHECK_DEADLOCK FALSE
