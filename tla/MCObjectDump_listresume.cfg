SPECIFICATION Spec
CONSTANTS
  MaxSave = 2
  Buckets = {"b1", "b2"}
  NoName = NoName
  Null = Null
  FirstData = 1
  LastRcm = 23
  Address <- TapeAddress
  PoBucket <- TapePoBucket
  DataEnd <- TapeDataEnd
  Modes = {"full_dump", "resume_dump", "output_list"}
  IntervalGiven = FALSE
  MaxRuns = 2
CHECK_DEADLOCK FALSE
INVARIANT ResumePointSaved
