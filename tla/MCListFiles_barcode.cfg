SPECIFICATION Spec
CONSTANTS
  MaxSave = 2
  Entries <- TapeEntries
  SavedDirs <- NoDump
  MainDir = "null"
  WalkDir = "tape"
  Requests <- AllRequests
  MaxRuns = 1
CHECK_DEADLOCK FALSE
INVARIANT ListedIsFound
