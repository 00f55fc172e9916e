SPECIFICATION CalmSpec
CONSTANTS
  MAX_THREADS = 4
  NumStacks = 4
  TIMER_INTERVAL = 2
  TIMER_WRAP = 6
  MaxSleep = 3
  RefLimit = 8
  UART_INPUT_BUFFER_SIZE = 1
  NUL = nul
  Chars = {}
  FatalChars = {}
  Calls <- Sleeping
INVARIANT AllSleepersLinked
