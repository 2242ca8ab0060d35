SPECIFICATION SpecDump
CONSTANTS
  Letters <- DumpLetters
  IntervalArgs <- Typed
  MIN_HISTORY_INTERVAL = 2
  MAX_HISTORY_INTERVAL = 4
  UINT_MAX = 15
  MIN_REQUIRED = 1
  Spaces <- Ample
  NumPos = 3
  MaxPoTime = 2
  Large <- LargeObjects
  MaxRuns = 1
CHECK_DEADLOCK FALSE
INVARIANT DumpStopsWhenShort
