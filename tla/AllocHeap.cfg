SPECIFICATION Spec
CONSTANTS
  END = 84
  BASE = 1
  WORD = 1024
  Lens = {0, 4, 29}
  PageLens = {16}
  Align = 16
  Growth = {2, 7}
  Values = {7}
  MaxLive = 3
CONSTRAINT Sound
INVARIANTS StaysUnlessSpoiled Tiled FreeListed LiveKept
