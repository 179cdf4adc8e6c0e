SPECIFICATION Spec
CONSTANTS
  Nets = {a, b}
  None = None
  MaxCmds = 3
  MaxFaults = 2
  MaxTries = 2
INVARIANTS
  TypeOK
  FlagsAgree
  RightNetwork
  KeepsTrying
PROPERTIES
  WaitEnds
CHECK_DEADLOCK FALSE
