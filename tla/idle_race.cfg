SPECIFICATION Spec
CONSTANTS
  Threads = {t1, t2}
  W = 32
  MILLI = 2
  MaxMillis = 5
  TIMER_INTERVAL = 3
  MaxLatency = 2
  MaxCounter = 20
INVARIANT IdleTimerInTime
CHECK_DEADLOCK FALSE
