SPECIFICATION Spec
CONSTANTS
  Interval = 5
  Width = 256
  DefaultTimeout = 10
  Timeouts = {20, 260}
  MaxWrites = 3
  MaxReboots = 1
INVARIANTS
  TypeOK
  Coherent
  Persisted
  ShownAtRest
PROPERTIES
  
  CalibrationEnds
CHECK_DEADLOCK FALSE
