\* One periodic and one event object, one event; a wait of -1 ends after 3 us.
CONSTANTS
  p1 = p1
  p2 = p2
  e1 = e1
  Objects = {p1, e1}
  Periodic = {p1}
  Period <- EveryTwo
  Mask <- AllEvents
  TriggerAny = {e1}
  NULL = NULL
  Careless = FALSE
  NumEvents = 1
  UintRange = 8
  NsecPerUsec = 2
  FreshMasks <- ZeroedMemory
  WaitOps = {"any"}
SPECIFICATION FairSpec
INVARIANTS SearchEnds
PROPERTIES PeriodicRuns EventDelivered DestroyTerminates
