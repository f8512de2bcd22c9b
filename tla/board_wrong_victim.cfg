CONSTANTS
  a = a  b = b  m = m
  alice = alice  bob = bob  max = max
  NoUser = NoUser
  Session = {a, m}
  User = {alice, bob, max}
  Login <- LoginAM
  Manager = {max}
  Uses <- TwoDeletersUses
  KeepHeader = FALSE
  MaxDigest = 0
  MaxPostRetry = 0
  MaxTime = 2
  MaxPosts = 3
SPECIFICATION Spec
CHECK_DEADLOCK FALSE
PROPERTIES DeleteHitsTarget
