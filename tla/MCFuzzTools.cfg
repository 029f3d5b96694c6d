SPECIFICATION FairSpec
CONSTANTS
  Mutants <- Drawable
  Saved <- OnDisk
  MaxSaved = 4
  SweepLimit = 14
  BatchLimit = 16
  Rounds = 6
  Endless = FALSE
  Batch = 3
  Seeds = 1
  CorpusMax = 2
  BulkEvery = 4
  DbgEvery = 2
  LaneEvery = 1
  StopOnFinding = FALSE
  Timed = TRUE
INVARIANTS
  BlameIsRight
  CleanExitMeansClean
  Accounted
PROPERTY ToolEnds
CHECK_DEADLOCK FALSE
