SPECIFICATION Spec
CONSTANTS
  MAX_THREADS = 2
  NumStacks = 2
  TIMER_INTERVAL = 2
  TIMER_WRAP = 6
  MaxSleep = 3
  RefLimit = 8
  UART_INPUT_BUFFER_SIZE = 2
  NUL = nul
  Chars = {a, N}
  FatalChars = {N}
  Calls <- AnyCall
  PAGE = 16
  L2_SIZE = 6
  RAM_END = 1536
  KernelTextSize = 40
  KernelDataSize = 100
  UserTextSize = 20
  GlobalsSize = 12
INVARIANT TypeOK
INVARIANT PointersOK
INVARIANT RunqueueOK
INVARIANT WaitersOK
INVARIANT MemoryOK
INVARIANT AddressSpaceOK
INVARIANT UserWritesIsolated
INVARIANT CodeIsReadOnly
INVARIANT StacksGuarded
INVARIANT KernelReachesThreads
INVARIANT ArgumentsFit
CHECK_DEADLOCK FALSE
