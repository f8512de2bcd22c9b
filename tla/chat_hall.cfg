CONSTANTS
  c1 = c1  c2 = c2  c3 = c3  root = root  out = out  guest = guest
  n1 = n1  n2 = n2  n3 = n3
  NoClient = NoClient  NoId = NoId
  MaxActive = 2
  MaxRoom = 2
  Client = {c1, root, guest}
  Sysop = {root}
  Cloaker = {root}
  Outsider = {}
  Guest = {guest}
  ChatId = {n1, n2}
  RoomName = {"main", "x"}
  MainRoom = "main"
  RoomFlag = {"locked", "secret"}
  MinConns = 0
SPECIFICATION Spec
INVARIANTS OccupantsExact NoInviteForFreeSlot
PROPERTIES LockHolds
