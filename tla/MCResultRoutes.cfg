SPECIFICATION FairSpec
CONSTANTS
  j1 = j1
  j2 = j2
  d1 = d1
  s1 = s1
  s2 = s2
  c1 = c1
  NoJob = NoJob
  ArchiveAge = 1
  Jobs <- OneJob
  Drains <- OneDrain
  Sweeps <- TwoSweeps
  Clients <- OneClient
INVARIANTS TypeOK PayloadKept MissingOnlyWhenArchived OnlyJobRoutesRaise
PROPERTIES OnlyOldArchived KeepsPromise ResultLands
