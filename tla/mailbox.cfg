CONSTANTS
  a = a  b = b  c = c
  Session = {a, b, c}
  Roles <- MCRoles
  InitBox <- Start
  MaxMail = 4
SPECIFICATION Spec
INVARIANTS NumbersMean  TextStays DeletionComplete
CHECK_DEADLOCK FALSE
