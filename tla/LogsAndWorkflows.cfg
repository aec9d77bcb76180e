CONSTANTS
  Procs = {p1, p2}
  Names = {n1}
  BadNames = {bad}
  MaxClock = 3
  LocalTime <- SetBack
  MaxSessions = 4
  Installed = {"subfinder", "httpx", "katana", "nuclei"}
  MaxRuns = 3
  MaxStray = 1
SPECIFICATION LogsSpec
INVARIANT LogsTypeOK
INVARIANT LogIsTimeline
INVARIANT HolesAreFilled
INVARIANT CleanRunIsWhole
PROPERTY StoppedIsLogged
PROPERTY PastLogsAreSafe
PROPERTY OlderOnlyAfterFailure
CHECK_DEADLOCK FALSE
