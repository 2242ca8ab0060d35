SPECIFICATION Spec
CONSTANTS
  Tapes <- TwoTapes
  PrBlocks <- TapePrs
  PrNames <- ThreePrs
  Order <- SomeOrder
  Barcodes <- Readable
  MaxRuns = 3
  MaxFaults = 0
CHECK_DEADLOCK FALSE
INVARIANTS FormattedIsAccepted ForeignReported
