SPECIFICATION lbSpec
CONSTANTS
  Byte <- MCByte
  NL = "NL"
  NUL = "NUL"
  SIZE = 5
  READ_MAX = 3
  MAX_LEN = 3
  MaxStream = 7
INVARIANTS ContentTerminated LinesOfTheStream
CHECK_DEADLOCK FALSE
