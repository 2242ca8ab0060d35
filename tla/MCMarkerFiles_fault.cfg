SPECIFICATION Spec
CONSTANTS
  Tapes <- TwoTapes
  PrBlocks <- TapePrs
  PrNames <- ThreePrs
  Order <- SomeOrder
  Barcodes <- Readable
  MaxRuns = 2
  MaxFaults = 1
CHECK_DEADLOCK FALSE
INVARIANT WalkOwnMarkers
