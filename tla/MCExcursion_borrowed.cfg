\* The same with C helpers that use r8 as the AAPCS lets them.
SPECIFICATION Spec
CONSTANTS
  EntryWords = 1
  Codes <- MCCodes
  HelperBorrows = TRUE
  MaxWords = 2
  MaxRequests = 2
INVARIANT DisarmedBeforePops
