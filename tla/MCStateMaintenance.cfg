SPECIFICATION Spec
CONSTANTS
  LineSize <- MCLineSize
  RotateMax = 3
  FileMax = 6
  KeepArchives = 1
  KeepBackups = 2
  MaxFaults = 1
  MaxCrashes = 1
INVARIANTS GoneIsRestorable RestoreIsWhole
