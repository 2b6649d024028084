SPECIFICATION Spec
CONSTANTS
  Tokens = {t1}
  None = None
  MaxStarts = 1
  MaxTicks = 1
  MaxClicks = 1
  MaxRestarts = 1
INVARIANTS
  TrayTellsTheState
PROPERTIES
  NothingComesTooLate
  RequestsAreTaken
CHECK_DEADLOCK FALSE
