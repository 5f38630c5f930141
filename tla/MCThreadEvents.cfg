\* Both waits; three events; timeouts 0..7 with the product wrapping at 8 ns
\* for 2 ns a microsecond, so timeouts of 4 and more are cut short.
CONSTANTS
  NumEvents = 3
  UintRange = 8
  NsecPerUsec = 2
  FreshMasks <- RecycledMemory
  WaitOps = {"any", "all"}
SPECIFICATION FairSpec
INVARIANTS TypeOK NoMissedWakeUp
PROPERTIES SignalEndsWait ImplementsFlags
