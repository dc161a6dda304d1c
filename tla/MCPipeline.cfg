SPECIFICATION FairSpec
CONSTANTS
  j1 = j1
  j2 = j2
  ch1 = ch1
  ch2 = ch2
  c1 = c1
  c2 = c2
  w1 = w1
  w2 = w2
  NoJob = NoJob
  NoChannel = NoChannel
  Jobs <- TwoJobs
  Channels <- TwoChannels
  Clients <- TwoClients
  Workers <- TwoWorkers
  Faults <- FaultKinds
INVARIANTS TypeOK OneChainPerJob CarriedOrDropped CompletedIsWhole FailureIsRecorded DeliveredWhenCompleted
PROPERTIES OutcomeStands ChainOfDelivery EventuallySettled
CHECK_DEADLOCK FALSE
