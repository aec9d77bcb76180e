CONSTANTS
  MaxHistory = 2
  MaxReads = 6
SPECIFICATION FairSpec
INVARIANT TypeOK
INVARIANT HistoryOwnsStrings
INVARIANT AtMostOneLateCommand
PROPERTY TermStops
PROPERTY EofStops
CHECK_DEADLOCK FALSE
