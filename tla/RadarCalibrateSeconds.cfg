SPECIFICATION Spec
CONSTANTS
  Interval = 5
  Width = 256
  DefaultTimeout = 10
  Timeouts = {20, 260}
  MaxWrites = 2
  MaxReboots = 0
PROPERTY LastsAsAskedFor
CHECK_DEADLOCK FALSE
