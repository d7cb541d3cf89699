SPECIFICATION JVSpec
CONSTANTS
  IntHalf = 4
  LongHalf = 16
  MaxDigits = 20
  None = None
INVARIANTS
  ValueKept
  DoubleAgrees
