CONSTANTS
  a = a  b = b  c = c  ann = ann  cat = cat  none = none
  Session = {a, b, c}
  Account = {ann, cat}
  NoAccount = none
  User <- MCUser
  FirstLogin <- MCFirstLogin
  Roles <- MCRoles
  MaxPoll = 2
SPECIFICATION Spec
CHECK_DEADLOCK FALSE
INVARIANTS BallotsPerAccount BallotCounted  MarkTells
PROPERTIES ExpiredCloses
