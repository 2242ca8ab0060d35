SPECIFICATION SpecDump
CONSTANTS
  Letters <- AllLetters
  IntervalArgs <- Typed
  MIN_HISTORY_INTERVAL = 2
  MAX_HISTORY_INTERVAL = 3
  UINT_MAX = 15
  MIN_REQUIRED = 2
  Spaces <- Ample
  NumPos = 3
  MaxPoTime = 2
  Large <- LargeObjects
  MaxRuns = 2
CHECK_DEADLOCK FALSE
INVARIANTS TypeOKDump DoesWhatWasAsked PlaceSavedWhenShort SavedFresh NoGap
PROPERTY RunsEnd
