SPECIFICATION Spec
CONSTANTS
  Tapes <- TwoTapes
  PrBlocks <- TapePrs
  PrNames <- ThreePrs
  Order <- SomeOrder
  Barcodes <- Unreadable
  MaxRuns = 2
  MaxFaults = 0
CHECK_DEADLOCK FALSE
INVARIANT WalkOwnMarkers
