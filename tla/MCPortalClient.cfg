SPECIFICATION CallerSpec
CONSTANTS
  MaxStarts = 2
  MaxCloses = 1
PROPERTIES
  CallsStayApart
  EveryStartIsAnsweredOnce
  CallerIsReleased
CHECK_DEADLOCK FALSE
