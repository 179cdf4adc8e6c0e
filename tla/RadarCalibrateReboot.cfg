SPECIFICATION Spec
CONSTANTS
  Interval = 5
  Width = 256
  DefaultTimeout = 10
  Timeouts = {20, 260}
  MaxWrites = 1
  MaxReboots = 1
PROPERTY CalibrationTimesOut
CHECK_DEADLOCK FALSE
