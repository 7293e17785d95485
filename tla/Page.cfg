CONSTANTS
  f1 = f1
  f2 = f2
  Modulus = 6
  Fetch <- TwoFetches
  MaxMade = 2
  MaxResets = 1
SPECIFICATION FairSpec
CHECK_DEADLOCK FALSE
INVARIANTS TypeOK ReplacedIsTrue FailureNotOlder
PROPERTIES PollsGoOn ReplacementNoticed
