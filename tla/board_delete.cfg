CONSTANTS
  a = a  b = b  m = m
  alice = alice  bob = bob  max = max
  NoUser = NoUser
  Session = {a, b, m}
  User = {alice, bob, max}
  Login <- LoginABM
  Manager = {max}
  Uses <- DeleteUses
  KeepHeader = TRUE
  MaxDigest = 0
  MaxPostRetry = 0
  MaxTime = 1
  MaxPosts = 2
SPECIFICATION Spec
CHECK_DEADLOCK FALSE
 
PROPERTIES CutByRightHolder  
