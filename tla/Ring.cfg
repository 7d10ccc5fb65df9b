SPECIFICATION FairSpec
CONSTANTS
  Producers = {p1, p2}
  SIZE = 2
  RANGE = 6
  IPC_BUDGET = 1
  Recs = {r1, r2}
  NoRec = NoRec
  Overtake = TRUE
  MAX_LOADS = 1
CONSTRAINT Whole
INVARIANTS StrandedOnlyBy
PROPERTIES RefinesFifo 
