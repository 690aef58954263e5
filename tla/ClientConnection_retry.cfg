SPECIFICATION Spec
CONSTANTS
  MaxAttempts = 2
  MaxLines = 1
INVARIANT IdleConnectIsAttempted
CHECK_DEADLOCK FALSE
