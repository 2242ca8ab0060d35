SPECIFICATION Spec
CONSTANTS
  Metadatas <- AllMetadatas
  BucketLists <- AllBucketLists
  Labels <- AllLabels
  Vol1Labels <- AllVol1Labels
  Names <- AllNames
  IntRange = 32
  MIN_BLOCKSIZE_IN_LABEL = 4
  DefaultBlockSize = 10
  MaxText = 10
  BUCKETNAME_MAX_SIZE = 7
CHECK_DEADLOCK FALSE
INVARIANTS RightPasses WrongIsSaid NamesByLabels
