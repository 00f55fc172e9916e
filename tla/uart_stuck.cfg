SPECIFICATION Spec
CONSTANTS
  UART_INPUT_BUFFER_SIZE = 4
  NUL = nul
  Chars = {a, b}
INVARIANT WaitsOnlyIfEmpty
CHECK_DEADLOCK FALSE
