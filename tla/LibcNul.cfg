SPECIFICATION LibcSpec
CONSTANTS
  LANE = 2
  SIZE = 8
  Bytes = {x, y}
  Formats <- Formats_
  BufSizes = {0, 1, 5, 12}
  BITS <- BITS_
  UART_BUF <- UART_BUF_
  POINTER = 4
  DEF_PREC = 1
  MAX_PREC = 2
  MANT = 8
INVARIANTS Terminated
CHECK_DEADLOCK FALSE
