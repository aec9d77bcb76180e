CONSTANTS
  Heads <- MCHeads
  Subs <- MCSubs
  MaxArgc = 5
  Adapters = {"subfinder"}
  Procs = {p1, p2}
  Texts <- MCTexts
  Queries <- MCQueries
  BadQueries = {"quote"}
  Hits <- MCHits
  MaxNotes = 2
  Keys = {"a", "b"}
  Values = {"", "v", "vn"}
  AsRead <- MCAsRead
  Torn <- MCTorn
  Files <- MCFiles
  FirstCapacity = 2
  MaxEntries = 3
SPECIFICATION PartsSpec
INVARIANT ArgumentsArePresent
INVARIANT PartsTypeOK
INVARIANT SavedIsKept
INVARIANT HarderIsNoWorse
PROPERTY SearchIsExact
PROPERTY ImplementsNotebook
PROPERTY ImplementsSettings
CHECK_DEADLOCK FALSE
