SPECIFICATION Spec
CONSTANTS
  RxCap = 1
  DisplayCap = 1
  UartCap = 1
  WireCap = 2
  TableSize = 1
  ChartPoints = 2
  MaxId = 1
  MaxEpoch = 2
  StackIds <- MCStackIds
  IdCuts <- MCIdCuts
INVARIANTS
  TypeOK
  HeapAccounted
  PairAttributed
PROPERTY
  PlottedInOrder
CHECK_DEADLOCK FALSE
