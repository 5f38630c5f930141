\* Three objects: the main thread's and two managed ones, or three of these.
CONSTANTS
  Objects = {o1, o2, o3}
  NULL = NULL
  Main = main
SPECIFICATION FairSpec
INVARIANTS TypeOK RunnersAlive CurrentIsAlive DestroyedOnce NothingSurvives
PROPERTIES StopsEnd
CHECK_DEADLOCK FALSE
