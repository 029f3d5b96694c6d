SPECIFICATION Spec
CONSTANT Instances <- Bodies
INVARIANTS
  PendingFits
  LoadsReach
  NothingRunsIntoData
  ResumeAtEnd
  BranchesLand
  SlotsLeadToCases
CHECK_DEADLOCK FALSE
