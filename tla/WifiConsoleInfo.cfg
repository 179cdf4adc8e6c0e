SPECIFICATION Spec
CONSTANTS
  Nets = {a, b}
  None = None
  MaxCmds = 3
  MaxFaults = 1
  MaxTries = 2
INVARIANTS
  DisconnectHolds
CHECK_DEADLOCK FALSE
