\* Every window of a run, two cancellations in it, helpers that leave r8 alone.
SPECIFICATION FairSpec
CONSTANTS
  EntryWords = 1
  Codes <- MCCodes
  HelperBorrows = FALSE
  MaxWords = 2
  MaxRequests = 2
INVARIANTS
  HostResumes
  DisarmedBeforePops
  AcceptedCancelWins
PROPERTY CancelEndsRun
