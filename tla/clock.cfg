SPECIFICATION Spec
CONSTANTS
  Threads = {t1, t2}
  W = 32
  MILLI = 2
  MaxMillis = 4
  TIMER_INTERVAL = 3
  MaxLatency = 1
  MaxCounter = 16
PROPERTY SleepsLongEnough
INVARIANT IdleTimerInTime
PROPERTY MatchesAnswered
CHECK_DEADLOCK FALSE
