CONSTANTS
  c1 = c1  c2 = c2  c3 = c3  root = root  out = out  guest = guest
  n1 = n1  n2 = n2  n3 = n3
  NoClient = NoClient  NoId = NoId
  MaxActive = 3
  MaxRoom = 3
  Client = {c1, c2, out}
  Sysop = {}
  Cloaker = {}
  Outsider = {out}
  Guest = {}
  ChatId = {n1, n2, n3}
  RoomName = {"main", "x"}
  MainRoom = "main"
  RoomFlag = {"locked"}
  MinConns = 0
SPECIFICATION Spec
SYMMETRY Members
INVARIANTS  SoleOperator ChatIdsUnique
