SPECIFICATION Spec
CONSTANTS
  END = 200
  BASE = 1
  WORD = 1024
  Lens = {4}
  PageLens = {16}
  Align = 16
  Growth = {}
  Values = {7}
  MaxLive = 3
INVARIANTS StaysInHeap
