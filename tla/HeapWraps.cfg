\* A stream longer than the numbers last, and a heap that is never empty.
SPECIFICATION LongGapSpec
CONSTANTS
  Modulus = 12
  Window = 4
  MaxMessages = 16
INVARIANT NoneStuck
CHECK_DEADLOCK FALSE
