SPECIFICATION Spec
CONSTANTS
  MAX_PROC = 3
  READY_MAX = 2
  IPC_BUDGET = 2
  Deadlines = {1, 2}
  Untils = {1, 3, 7}
  Half = 4
  MaxTime = 3
INVARIANTS
  TypeOK
  EDF
  SlotsPartitioned
  CopiesAgree
  TimerCoversWaiters
PROPERTIES
  NoEarlyWake
  PreemptOnlyEarlier
