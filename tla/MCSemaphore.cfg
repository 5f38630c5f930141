\* Three threads, two levels of recursion.
CONSTANTS
  Threads = {t1, t2, t3}
  NULL = NULL
  MaxDepth = 2
  Timeouts <- SomeTimeouts
SPECIFICATION FairSpec
INVARIANTS TypeOK Agreement
PROPERTIES ImplementsLock WaitersGetIt
