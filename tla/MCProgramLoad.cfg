SPECIFICATION Spec
CONSTANTS
  Procs = 2
  Cases = {1, 2, 3}
  Extensions <- MCExtensions
  MaxNesting = 2
  MaxBytes = 14
CHECK_DEADLOCK FALSE
INVARIANTS
  DirectoryNamesBodies
  TranslatorEndsWithBody
  LrSavedWhenUsed
