SPECIFICATION FairSpec
CONSTANTS
  Threads = {t1, t2}
  Theta <- MCTheta
  Never <- MCNever
  Infinite = 1000
  Interval = 1
  Iterations = 2
  MaxTime = 3
  MayClose = TRUE
  Free = free
  Unread = unread
INVARIANTS
  TypeOK
  OffsetAccurate
  SkipsForNewer
PROPERTIES
  MutexReleased
CHECK_DEADLOCK FALSE
