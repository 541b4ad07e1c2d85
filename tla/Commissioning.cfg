SPECIFICATION Spec
CONSTANTS
  Devices = {d1, d2}
  Calls = {c1, c2}
  Retries = 2
  MaxId = 2
  MaxReading = 1
  MaxCrashes = 1
INVARIANTS
  UniqueIds
  NextIdIsFree
  NoStrayDevice
SYMMETRY Symmetry
CHECK_DEADLOCK FALSE
