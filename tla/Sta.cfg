CONSTANTS
  home = home
  p = p
  q = q
  Modulus = 8
  Ssid <- OneNetwork
  Password <- TwoPasswords
  MaxPosts = 2
  MaxAttempts = 2
  MaxQueued = 1
SPECIFICATION FairSpec
CHECK_DEADLOCK FALSE
INVARIANTS TypeOK AppliedIsInForce RetryNotLost
PROPERTIES ServiceKept LostLinkRetried
