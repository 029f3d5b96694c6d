SPECIFICATION FairSpec
CONSTANTS
  Mutants <- GoodOnly
  Saved <- GoodOnly
  MaxSaved = 1
  SweepLimit = 14
  BatchLimit = 16
  Rounds = 4
  Endless = TRUE
  Batch = 3
  Seeds = 1
  CorpusMax = 2
  BulkEvery = 4
  DbgEvery = 2
  LaneEvery = 1
  StopOnFinding = FALSE
  Timed = FALSE
PROPERTY SigintReports
CHECK_DEADLOCK FALSE
