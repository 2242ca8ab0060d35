SPECIFICATION SpecDump
CONSTANTS
  Letters <- DumpLetters
  IntervalArgs <- Typed
  MIN_HISTORY_INTERVAL = 2
  MAX_HISTORY_INTERVAL = 4
  UINT_MAX = 15
  MIN_REQUIRED = 1
  Spaces <- Ample
  NumPos = 3
  MaxPoTime = 0
  Large <- LargeObjects
  MaxRuns = 3
CHECK_DEADLOCK FALSE
INVARIANTS IntervalStopsWhenShort NoGapEver
