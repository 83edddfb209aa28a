\* Three threads, so that a second violator can meet the mutex the first one
\* poisoned, or one thread hold each role and the third violate both.  The threads may all panic: the system really stops then.
CONSTANTS
  Threads = {a, b, c}
  NoThread = NoThread
  NoRole = NoRole
  RingSize = 2
  Wrap = 4
  Ticks = {t1}
  NoTick = NoTick
SPECIFICATION Spec
INVARIANTS TypeOK OneThreadPerRole
PROPERTIES ClaimIsForever MutexIsFreed IsRing
CHECK_DEADLOCK FALSE
