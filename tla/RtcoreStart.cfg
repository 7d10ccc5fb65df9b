SPECIFICATION DeviceSpec
CONSTANTS
  Tasks = {s, t}
  JRT_CODE_PHYS = 8
  JRT_CODE_SIZE = 24
  PAGE_SIZE = 8
  Sizes = {8, 16}
  Offsets = {0, 2, 4, 12}
  LINE = 8
  MaxMaps = 3
  MaxLoads = 2
SYMMETRY TaskSymmetry
PROPERTIES KernelFetchable
