SPECIFICATION MixSpec
CONSTANTS
  Sources = {s1, s2}
  FrameSize = 2
  GapThreshold = 1
  StallTolerance = 4
  First = 1
  Counter = 64
  BufferSizes = {3}
  MaxJitter = 1
  MaxHole = 2
  MaxTime = 9
  MaxFailures = 1
INVARIANTS
  NeverHeardEarly
  MixInvariant
CHECK_DEADLOCK FALSE
