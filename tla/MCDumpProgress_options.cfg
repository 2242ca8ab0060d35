SPECIFICATION SpecDump
CONSTANTS
  Letters <- DumpLetters
  IntervalArgs <- TypedLong
  MIN_HISTORY_INTERVAL = 2
  MAX_HISTORY_INTERVAL = 3
  UINT_MAX = 15
  MIN_REQUIRED = 2
  Spaces <- Ample
  NumPos = 1
  MaxPoTime = 0
  Large <- LargeObjects
  MaxRuns = 1
CHECK_DEADLOCK FALSE
INVARIANTS IntervalOfDump SaveDirUsable IntervalTyped
