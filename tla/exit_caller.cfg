SPECIFICATION FairSpec
CONSTANTS
  MAX_THREADS = 2
  NumStacks = 2
  TIMER_INTERVAL = 1
  TIMER_WRAP = 6
  MaxSleep = 1
  RefLimit = 8
  UART_INPUT_BUFFER_SIZE = 1
  NUL = nul
  Chars = {a}
  FatalChars = {}
  Calls <- Reading
PROPERTY ExitEndsCaller
