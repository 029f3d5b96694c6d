\* A region of its own that does not hold every procedure at once.
SPECIFICATION FairSpec
CONSTANTS
  Base = 1
  Limit = 9
  StackLimit = 0
  OverlapsStack = FALSE
  InterruptReserve = 0
  NoFloor = 1000
  ProcCount = 5
  Trampoline = 900
  TickMod = 8
  NarrowLen <- SplitNarrowLen
  WideLen <- SplitWideLen
  NarrowFits <- SplitNarrowFits
  WideFits <- SplitWideFits
  MaxCallDepth = 2
  SpEntry = 40
  RecordSize = 2
  TranslatorEntry = 2
  LevelFrame = 2
  Margin = 2
  PrologueLen = 1
  MaxBlocks = 1
INVARIANTS
  TypeOK
  ResidentsIntact
  PackedEndToEnd
  BufferIntact
  NeverPastCeiling
  HandsBackArena
PROPERTIES
  ExhaustedOnlyWhenTooLong
  TranslationEnds
  VictimIsOldest
  ImplementsCallReturn
