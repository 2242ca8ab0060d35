SPECIFICATION Spec
CONSTANTS
  BlockSize = 4
  Word = 256
  MaxMeta = 8
  MaxSize = 13
  Objects <- SmallObjects
CHECK_DEADLOCK FALSE
INVARIANTS TypeOK ObjectWhole HeadAfterObject RefusedOnlyAligned
