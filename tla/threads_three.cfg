SPECIFICATION MemorySpec
CONSTANTS
  MAX_THREADS = 3
  NumStacks = 3
  TIMER_INTERVAL = 1
  TIMER_WRAP = 3
  MaxSleep = 1
  RefLimit = 8
  UART_INPUT_BUFFER_SIZE = 1
  NUL = nul
  Chars = {a}
  FatalChars = {}
  Calls <- Reading
  PAGE = 16
  L2_SIZE = 8
  RAM_END = 4096
  KernelTextSize = 40
  KernelDataSize = 100
  UserTextSize = 20
  GlobalsSize = 12
INVARIANT WaitersOK
INVARIANT RunqueueOK
INVARIANT MemoryOK
INVARIANT AllocationOK
INVARIANT NoStaleTranslation
