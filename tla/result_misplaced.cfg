SPECIFICATION QuietSpec
CONSTANTS
  MAX_THREADS = 2
  NumStacks = 2
  TIMER_INTERVAL = 1
  TIMER_WRAP = 6
  MaxSleep = 1
  RefLimit = 8
  UART_INPUT_BUFFER_SIZE = 2
  NUL = nul
  Chars = {a}
  FatalChars = {}
  Calls <- Reading
  Steps = 2
INVARIANT ResultsKept
