\* Two sending threads, a ring of two frames, either core the CM7.
CONSTANTS
  Senders = {s1, s2}
  Rx = rx
  Capacity = 2
SPECIFICATION FairSpec
INVARIANTS TypeOK OneCoreAtRing SleepIsSafe
PROPERTIES Received SleepersWake
