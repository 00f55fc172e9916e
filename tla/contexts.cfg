SPECIFICATION QuietSpec
CONSTANTS
  MAX_THREADS = 2
  NumStacks = 2
  TIMER_INTERVAL = 1
  TIMER_WRAP = 2
  MaxSleep = 1
  RefLimit = 8
  UART_INPUT_BUFFER_SIZE = 2
  NUL = nul
  Chars = {a, N}
  FatalChars = {N}
  Calls <- WithoutProcesses
  Steps = 2
INVARIANT RegistersKept
INVARIANT ContextsKept
PROPERTY ThreadsServed
CHECK_DEADLOCK FALSE
