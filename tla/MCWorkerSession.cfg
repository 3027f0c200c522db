SPECIFICATION Spec
CONSTANTS
  MaxLines = 3
  Capacity = 1
  Bounded = TRUE
  Eof = Eof
  None = None
INVARIANTS NoGap OkIsComplete NothingLeftBehind
PROPERTIES ShutdownReturns
CHECK_DEADLOCK FALSE
