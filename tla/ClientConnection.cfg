SPECIFICATION FairSpec
CONSTANTS
  MaxAttempts = 3
  MaxLines = 1
INVARIANTS
  TypeOK
  NoTimeoutWhenConnected
  NoMissedConnect
  ToldAsItIs
  ConfirmedClientConnects
PROPERTY TimedAttemptsConclude
CHECK_DEADLOCK FALSE
