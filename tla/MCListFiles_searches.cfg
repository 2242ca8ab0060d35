SPECIFICATION Spec
CONSTANTS
  MaxSave = 2
  Entries <- TapeEntries
  SavedDirs <- NoDump
  MainDir = "tape"
  WalkDir = "tape"
  Requests <- AnyRequests
  MaxRuns = 1
CHECK_DEADLOCK FALSE
INVARIANTS LatestIsLatest SelectedHasKey OneLatest ListSize
