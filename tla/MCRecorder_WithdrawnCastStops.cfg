SPECIFICATION Spec
CONSTANT MaxStarts = 2
PROPERTY WithdrawnCastStops
CHECK_DEADLOCK FALSE
