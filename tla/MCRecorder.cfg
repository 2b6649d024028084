SPECIFICATION Spec
CONSTANT MaxStarts = 2
INVARIANTS
  RecorderInvariant
  DescriptorsOwned
  OneStartUnderWay
PROPERTIES
  NeverClosesItsOwnRecording
  StartSettles
  EndsComplete
  ImplementsPhases
CHECK_DEADLOCK FALSE
