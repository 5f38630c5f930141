\* Three objects in every order of registration; one event; timeouts 0..3.
CONSTANTS
  p1 = p1
  p2 = p2
  e1 = e1
  Objects = {p1, p2, e1}
  Periodic = {p1, p2}
  Period <- EveryMicrosecond
  Mask <- AllEvents
  TriggerAny = {e1}
  NULL = NULL
  Careless = FALSE
  NumEvents = 1
  UintRange = 4
  NsecPerUsec = 2
  FreshMasks <- ZeroedMemory
  WaitOps = {"any"}
SPECIFICATION Spec
INVARIANTS TypeOK NoUseAfterUnregister RegisteredIsListed ThreadSetBeforeUse QuietAfterDestroy
PROPERTIES ImplementsRegistry
