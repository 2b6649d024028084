SPECIFICATION Spec
CONSTANTS
  Unit = 2
  Nominal = 2
  ClockBits = 8
  ClockAhead = 0
  MaxLatency = 1
  Depth = 1
  MaxRecordings = 2
  MaxFrames = 3
  MaxGap = 3
  MaxFaults = 1
  Sides = {4, 5, 6}
  RegionMax = 7
  MinimumSide = 2
  Bits = 4
  CropOrigins = {0, 1, 2, 15}
  CropSides = {1, 3, 5, 15}
  Padding = {0, 2}
INVARIANTS
  EncoderInvariant
  TrackIsInTime
  FileIsWhole
  RecordsTheRegion
CHECK_DEADLOCK FALSE
