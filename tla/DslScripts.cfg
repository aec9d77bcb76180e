CONSTANTS
  Sources <- MCSources
  MaxToken = 2
  MaxArgs = 2
SPECIFICATION FairSpec
INVARIANT TypeOK
INVARIANT TokensInOrder
INVARIANT StatementsAreLines
PROPERTY EveryStepCounts
PROPERTY EveryStatementRuns
CHECK_DEADLOCK FALSE
