\* One kind of frame, in a ring with room for two.
CONSTANTS
  size = 16
  Frame <- OneFrame
  MaxByte = 255
  MaxPops = 1
SPECIFICATION Spec
INVARIANTS EmptyHasRoom
CHECK_DEADLOCK FALSE
