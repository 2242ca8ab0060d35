SPECIFICATION Spec
CONSTANTS
  BlockSize = 24
  LTOS_BLOCK_SIZE = 24
  FirstBlock = 6
  Shapes <- AllShapes
  HeapWords = {3}
  MAX_PO_SIZE = 67
  META_MAX_SIZE = 7
CHECK_DEADLOCK FALSE
INVARIANTS RightPasses SoundTapeFound SilentMeansContents WalkInTapeOrder
