SPECIFICATION Spec
CONSTANTS
  MaxSave = 2
  Entries <- TapeEntries
  SavedDirs <- AnyDump
  MainDir = "tape"
  WalkDir = "tape"
  Requests <- AllRequests
  MaxRuns = 2
CHECK_DEADLOCK FALSE
INVARIANTS ListsWhole SearchFinds
