CONSTANTS
  Procs = {p1, p2}
  Workspaces = {w1}
  MaxRuns = 2
  Movable = {"httpx"}
  MaxMoves = 1
SPECIFICATION Spec
SYMMETRY ProcSymmetry
INVARIANT TypeOK
INVARIANT MixedOnlyAfterTrouble
PROPERTY CleanScanIsComplete
CHECK_DEADLOCK FALSE
