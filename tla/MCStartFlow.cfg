SPECIFICATION Spec
CONSTANT MaxShots = 2
INVARIANTS
  StartInvariant
  HandedFilesAreHeld
  AnswersAreOfThisStart
  AnswerWakesTheLoop
PROPERTIES
  OwnHidesSettle
  StartsComplete
  ImplementsPhases
CHECK_DEADLOCK FALSE
