SPECIFICATION Spec
CONSTANTS
  Fields = {"directory", "source", "frameRate", "rememberWindow", "device", "gain", "screenToken", "windowToken"}
  NumberBits = 12
  Tokens <- MCTokens
  OldToken = "t0"
  OldWindowToken = "w0"
  DeviceLists <- MCDeviceLists
  MaxRuns = 2
  MaxActs = 2
  MaxEdits = 1
  MaxFaults = 1
INVARIANTS
  FileHasTheTokens
  HeldTokenIsLive
  SettingsInvariant
PROPERTIES
  SavesKeepTheFile
  ChoiceReachesTheFile
CHECK_DEADLOCK FALSE
