\* One periodic object whose trigger passes while the wait is prepared.
CONSTANTS
  p1 = p1
  p2 = p2
  e1 = e1
  Objects = {p1}
  Periodic = {p1}
  Period <- EveryTwo
  Mask <- AllEvents
  TriggerAny = {}
  NULL = NULL
  Careless = FALSE
  NumEvents = 1
  UintRange = 8
  NsecPerUsec = 2
  FreshMasks <- ZeroedMemory
  WaitOps = {"any"}
SPECIFICATION Spec
PROPERTIES TriggerBoundsWait
