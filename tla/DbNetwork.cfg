CONSTANTS
  Modulus = 32
  MaxAttempt = 120
SPECIFICATION Spec
CHECK_DEADLOCK FALSE
INVARIANTS LaterIsNewer NewerIsAhead DelayAsDocumented
