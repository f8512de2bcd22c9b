CONSTANTS
  ann = ann  ben = ben  cat = cat  none = none
  Slots = 3
  Account = {ann, ben, cat}
  NoAccount = none
  Logins <- MCLogins
  MaxCalls = 2
  Mortal = {2}
  Backlog = 2
SPECIFICATION Spec
INVARIANTS RightPartner
PROPERTIES CallIsAsked DroppedWithReason
CHECK_DEADLOCK FALSE
