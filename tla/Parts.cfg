SPECIFICATION PartsSpec
CONSTANTS
  FRQ = 12
  Units <- Units_
  WORD = 200
  Hertz <- Hertz_
  MAX_NOW = 22
  MAX_LEN = 12
  D = 3
  Cap = 5
  Keys = {1, 2, 3}
  Data = {1, 2, 3, 4, 5, 6}
  NoData = 0
  Tasks = {s, t}
  JRT_CODE_PHYS = 8
  JRT_CODE_SIZE = 24
  PAGE_SIZE = 8
  Sizes = {8, 16}
  Offsets = {0, 2, 12}
  LINE = 8
  MaxMaps = 3
  MaxLoads = 2
  LANE = 2
  SIZE = 8
  Bytes = {x, y}
  Formats <- Formats_
  BufSizes = {0, 1, 5, 12}
  BITS <- BITS_
  UART_BUF <- UART_BUF_
  POINTER = 4
  DEF_PREC = 1
  MAX_PREC = 2
  MANT = 8
SYMMETRY TaskSymmetry
ACTION_CONSTRAINT FirstValue
INVARIANTS
  WaitLength
  OnGrid
  WindowsApartUnlessRaced
  ImagesInWindows
  CallExact
  BufferExact
  IntegerField
  ValueKept
  NearestDecimal
PROPERTIES
  NoneMissed
  RefinesPQueue
  ImageFetchable
CHECK_DEADLOCK FALSE
