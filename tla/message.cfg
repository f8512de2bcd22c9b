CONSTANTS
  a = a  b = b  c = c
  alice = alice  bob = bob  carol = carol
  Session = {a, b, c}
  User = {alice, bob, carol}
  Account <- Accounts
  Writer = {a, b, c}
  Quitter = {b}
  GetKey = {a}
  UshmSize = 2
  MaxMsg = 2
  NoPid = NoPid
SPECIFICATION Spec
CHECK_DEADLOCK FALSE
INVARIANTS PrintsWhatItRead MissedOnlyWhenOvertaken AnswerToAsker
PROPERTIES NewestShown
