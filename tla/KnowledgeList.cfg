CONSTANTS
  Procs = {p1}
  Texts <- MCTexts
  Queries <- MCQueries
  BadQueries = {"quote"}
  Hits <- MCHits
  MaxNotes = 2
SPECIFICATION KnowledgeSpec
PROPERTY ListShowsAll
CHECK_DEADLOCK FALSE
