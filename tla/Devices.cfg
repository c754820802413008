CONSTANTS
  p1 = p1
  p2 = p2
  Procs = {p1, p2}
  Intr = Intr
  None = None
  INPUT_BUF_SIZE = 4
  UART_TX_BUF_SIZE = 2
  RX = 1
  UINT = 8
  Keys = {"a", "nl", "^D", "^H", "^U"}
  Calls <- MCCalls
  Bounds <- MCBounds
  MaxTicks = 2
SPECIFICATION Spec
INVARIANTS SleepsForACause OutputInOrder
PROPERTIES IsTerminal SleepsLongEnough
CHECK_DEADLOCK FALSE
