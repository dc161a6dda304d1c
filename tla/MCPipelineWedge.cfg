SPECIFICATION Spec
CONSTANTS
  j1 = j1
  j2 = j2
  ch1 = ch1
  ch2 = ch2
  c1 = c1
  c2 = c2
  w1 = w1
  w2 = w2
  NoJob = NoJob
  NoChannel = NoChannel
  Jobs <- OneJob
  Channels <- TwoChannels
  Clients <- TwoClients
  Workers <- TwoWorkers
  Faults = {"raises"}
INVARIANTS JobsDoNotWedge
CHECK_DEADLOCK FALSE
