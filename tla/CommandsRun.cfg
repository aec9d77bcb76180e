CONSTANTS
  Heads <- MCHeads
  Subs <- MCSubs
  MaxArgc = 5
  Adapters = {"subfinder"}
SPECIFICATION Spec
INVARIANT RunRunsTheTool
CHECK_DEADLOCK FALSE
