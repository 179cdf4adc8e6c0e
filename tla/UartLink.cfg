SPECIFICATION Spec
CONSTANTS
  MaxFrames = 7
  FifoCap = 4
  RingCap = 6
  EventCap = 2
INVARIANTS
  TypeOK
  ReadNeverBlocks
PROPERTIES
  TornOnlySilently
  InOrderLink
CHECK_DEADLOCK FALSE
