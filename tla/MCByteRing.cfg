\* A ring for three small frames; one sender's identifier has the header byte.
CONSTANTS
  size = 22
  Frame <- SmallFrames
  MaxByte = 255
  MaxPops = 2
SPECIFICATION Spec
INVARIANTS TypeOK UnreadIntact
PROPERTIES FirstIsFirst
CHECK_DEADLOCK FALSE
