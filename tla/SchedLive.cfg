SPECIFICATION FairSpec
CONSTANTS
  MAX_PROC = 3
  READY_MAX = 2
  IPC_BUDGET = 1
  Deadlines = {1}
  Untils = {1, 2, 7}
  Half = 4
  MaxTime = 3
PROPERTIES
  WaitsEnd
