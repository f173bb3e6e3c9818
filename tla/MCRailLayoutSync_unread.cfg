SPECIFICATION Spec
CONSTANTS
  a1 = a1
  a2 = a2
  None = None
  Accounts = {a1}
  Devices <- MCUnread
  LookupRelays = {TRUE, FALSE}
  Skew = 1
  MaxLayouts = 3
INVARIANTS AbsentHoldsNone
CHECK_DEADLOCK FALSE
