SPECIFICATION CalmFairSpec
CONSTANTS
  MAX_THREADS = 3
  NumStacks = 3
  TIMER_INTERVAL = 1
  TIMER_WRAP = 6
  MaxSleep = 2
  RefLimit = 8
  UART_INPUT_BUFFER_SIZE = 1
  NUL = nul
  Chars = {}
  FatalChars = {}
  Calls <- Sleeping
INVARIANT RunqueueOK
INVARIANT SleepqueueOK
INVARIANT AllSleepersLinked
INVARIANT IdleTimerInTime
PROPERTY HandlersReturn
PROPERTY SleepersWake
PROPERTY ReadyRuns
PROPERTY LoopProgresses
PROPERTY NobodyOverslept
