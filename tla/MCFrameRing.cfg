SPECIFICATION Spec
CONSTANTS
  NumSlots = 3
  MaxFrames = 6
INVARIANTS
  SlotsConserved
  SemaphoreCounts
  EncoderOutlivesItsUsers
PROPERTIES
  IsALossyQueue
  StopCompletes
