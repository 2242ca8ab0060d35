SPECIFICATION Spec
CONSTANTS
  BlockSize = 8
  IdentifierSize = 3
  HeaderSize = 6
  DirSize = 4
  Packs <- TapePacks
  Objects <- TapeObjects
  Selections <- TapeSelections
  MaxRuns = 2
CHECK_DEADLOCK FALSE
INVARIANTS NothingTwice WholeUnlessTorn
