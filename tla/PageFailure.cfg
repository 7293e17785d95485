CONSTANTS
  f1 = f1
  f2 = f2
  Modulus = 6
  Fetch <- OneFetch
  MaxMade = 2
  MaxResets = 0
SPECIFICATION Spec
CHECK_DEADLOCK FALSE
INVARIANT FailureIsOwn
