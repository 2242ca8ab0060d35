SPECIFICATION Spec
CONSTANTS
  Tapes <- TwoTapes
  PrBlocks <- TapePrs
  PrNames <- ThreePrs
  Order <- SomeOrder
  Barcodes <- AnyCodes
  MaxRuns = 3
  MaxFaults = 1
CHECK_DEADLOCK FALSE
INVARIANTS HeadAtFirst FilesWhole WrongMarkersReported NoFalseAlarm
