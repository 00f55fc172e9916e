SPECIFICATION ConsoleSpec
CONSTANTS
  UART_INPUT_BUFFER_SIZE = 2
  NUL = "nul"
  Chars <- KernelChars
  Pieces <- SomePieces
  Numbers <- SomeNumbers
  WORD = 268435456
  PAGE = 4096
  L2_SIZE = 256
  RAM_END = 268435456
  KernelTextSize = 40000
  KernelDataSize = 9000
  UserTextSize = 3000
  GlobalsSize = 100
INVARIANT TypeOK
PROPERTY InOrder
PROPERTY ReaderServed
PROPERTY KernelProtected
INVARIANT NumeralsRight
INVARIANT ReportsRight
CHECK_DEADLOCK FALSE
