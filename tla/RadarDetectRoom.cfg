SPECIFICATION Spec
CONSTANTS
  RingSize = 2
  Windows = {1, 2}
  Cycle = 2
  FilterCounts = {1, 2}
  Jitters = {0, 1}
  Thresholds = {0, 1}
  Timeouts = {3}
  LedHold = 1
  ReportEvery = 1
  MaxAge = 4
INVARIANT NoOneReported
CHECK_DEADLOCK FALSE
