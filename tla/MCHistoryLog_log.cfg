SPECIFICATION Spec
CONSTANTS
  Tapes = {"A00001L8", "B00002L8"}
  MaxRuns = 3
  MaxWrites = 3
CHECK_DEADLOCK FALSE
INVARIANTS OneLinePerKey ReadsOwnSection
PROPERTIES FlushKeepsHistory IsAStore
