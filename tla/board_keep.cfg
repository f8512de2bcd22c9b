CONSTANTS
  a = a  b = b  m = m
  alice = alice  bob = bob  max = max
  NoUser = NoUser
  Session = {a, m}
  User = {alice, bob, max}
  Login <- LoginAM
  Manager = {max}
  Uses <- KeepUses
  KeepHeader = TRUE
  MaxDigest = 0
  MaxPostRetry = 0
  MaxTime = 1
  MaxPosts = 2
SPECIFICATION Spec
CHECK_DEADLOCK FALSE
INVARIANTS ListedExists ListedOnce PageAligned DigestExists
PROPERTIES NumbersStable
