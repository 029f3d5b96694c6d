CHECK_DEADLOCK FALSE
\* The arena and the stack share one region and grow towards each other.
SPECIFICATION Spec
CONSTANTS
  Base = 1
  Limit = 900
  StackLimit = 1
  OverlapsStack = TRUE
  InterruptReserve = 0
  NoFloor = 1000
  ProcCount = 3
  Trampoline = 950
  TickMod = 4
  NarrowLen <- MCNarrowLen
  WideLen <- MCWideLen
  NarrowFits <- MCNarrowFits
  WideFits <- MCWideFits
  MaxCallDepth = 2
  SpEntry = 18
  RecordSize = 2
  TranslatorEntry = 2
  LevelFrame = 2
  Margin = 2
  PrologueLen = 1
  MaxBlocks = 2
INVARIANTS
  NeverPastCeiling
