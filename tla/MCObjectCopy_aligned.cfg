SPECIFICATION Spec
CONSTANTS
  BlockSize = 4
  Word = 256
  MaxMeta = 4
  MaxSize = 13
  Objects <- SmallObjects
CHECK_DEADLOCK FALSE
INVARIANT PaddingAccepted
