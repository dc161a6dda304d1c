SPECIFICATION HistorySpec
CONSTANTS
  j1 = j1
  ch1 = ch1
  ch2 = ch2
  c1 = c1
  c2 = c2
  w1 = w1
  NoJob = NoJob
  NoChannel = NoChannel
  Jobs <- OneJob
  Channels <- TwoChannels
  Clients <- TwoClients
  Workers <- OneWorker
  Faults = {}
INVARIANTS SlackGoesToSubmitter
CHECK_DEADLOCK FALSE
