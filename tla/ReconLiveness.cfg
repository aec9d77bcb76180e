CONSTANTS
  Procs = {p1}
  Workspaces = {w1}
  MaxRuns = 2
  Movable = {"httpx"}
  MaxMoves = 1
SPECIFICATION FairSpec
PROPERTY ScanEnds
CHECK_DEADLOCK FALSE
