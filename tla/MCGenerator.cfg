SPECIFICATION FairSpec
CONSTANTS
  ByteBits = 2
  AddrBits = 3
  MaxSteps = 100
  Instances <- Starts
  OnStack = {0, 3, 6, 9}
  InAcc = {1, 250}
  MaxOps = 2
  Defined <- Functions_
  Root = "a"
  CallSites <- Sites_
  Frames <- Frames_
INVARIANTS
  AcceptedHasOneAnswer
  MutantsLower
  BrokenIsRefused
  WitnessIsReal
  ShrunkIsMinimal
  HalvesAgree
  MarginIsWorst
PROPERTY ShrinkEnds
CHECK_DEADLOCK FALSE
