CONSTANTS
  home = home
  p = p
  q = q
  Modulus = 8
  Ssid <- OneNetwork
  Password <- TwoPasswords
  MaxPosts = 1
  MaxAttempts = 1
  MaxQueued = 1
SPECIFICATION Spec
CHECK_DEADLOCK FALSE
INVARIANT OldLinkNeverCurrent
