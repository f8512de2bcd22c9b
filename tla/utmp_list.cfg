CONSTANTS
  p1 = p1  p2 = p2  p3 = p3  p4 = p4  alice = alice  root = root
  NoUser = NoUser  NoPid = NoPid
  Session = {p1, p2, p3, p4}
  Ghost = {p4}
  User = {alice, root}
  Account <- ThreeSessions
  Sysop = {alice}
  Exempt = {}
  Guest = {}
  MaxActive = 3
  UshmSize = 3
  MultiLogins = 2
  MaxGuest = 1
SPECIFICATION Spec
CHECK_DEADLOCK FALSE
SYMMETRY Alices
INVARIANTS KeepsEntry LimitKept
 
