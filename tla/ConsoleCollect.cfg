SPECIFICATION Spec
CONSTANTS
  Numbers = {0, 1, 2}
  Width = 4
  MaxCmds = 3
INVARIANTS
  TypeOK
  NothingLeft
PROPERTIES
  TicksAsAsked
  RowsLabelled
  LabelEnds
CHECK_DEADLOCK FALSE
