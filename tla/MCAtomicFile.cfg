SPECIFICATION Spec
CONSTANTS
  Writers = {klip, other}
  Texts = {t1, t2}
  NoText = NoText
  MaxWrites = 3
  MaxFaults = 2
PROPERTIES
  WritesAreTidy
  ImplementsRegister
CHECK_DEADLOCK FALSE
