SPECIFICATION LimiterSpec
CONSTANTS
  Tokens = {k1, k2, k3}
  Threads = {t1, t2}
  limit = 2
  window = 3
  capacity = 2
  MaxInstant = 8
  NONE = NONE
SYMMETRY Symmetry
INVARIANTS
  BoundsHold
  RetryAfterIsExact
PROPERTIES
  WindowsNeverRewind
