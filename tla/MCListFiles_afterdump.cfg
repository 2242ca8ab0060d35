SPECIFICATION Spec
CONSTANTS
  MaxSave = 2
  Entries <- TapeEntries
  SavedDirs <- FullDump
  MainDir = "tape"
  WalkDir = "tape"
  Requests <- AllRequests
  MaxRuns = 1
CHECK_DEADLOCK FALSE
INVARIANT ListedIsFound
