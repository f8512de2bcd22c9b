CONSTANTS
  a = a  b = b  c = c
  al = al  bo = bo  ce = ce  da = da
  Process = {a, b, c}
  UserId = {al, bo, ce, da}
  Xempt = {ce}
  Admin = {ce}
  SysopId = ce
  Roles <- MCRoles
  InitFile <- Start
  MaxUsers = 4
  MaxTime = 2
  Nobody = Nobody
  Newcomer = Newcomer
SPECIFICATION AccountsSpec
CHECK_DEADLOCK FALSE
INVARIANTS OwnRecord NameUnique ListAgrees
PROPERTIES LevelKept
