SPECIFICATION Spec
CONSTANTS
  Klips = {k1, k2, k3}
  None = None
  MaxFaults = 2
PROPERTIES
  KlipsTakeTurns
  LaunchesSettle
CHECK_DEADLOCK FALSE
