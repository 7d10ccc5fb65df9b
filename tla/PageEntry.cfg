SPECIFICATION TableSpec
CONSTANTS
  Slots = {p0, a, b, c}
  P0 = p0
  Pages = {1,2,3,4,5,6,7,8,9,10,11,12,13,14,15,16,17,18,19,20,21,22}
  LEVELS = 3
  FAN = 3
  PAGE_SIZE = 4
  SPAN <- Span_
  UART = 16
  Gic <- Gic_
  CODE_0 = 20
  KEND = 27
  MEM_0 = 36
  MEM_END = 43
  Images <- Programs
INVARIANTS EntryAtZero
ACTION_CONSTRAINT FirstPage
CHECK_DEADLOCK FALSE
