SPECIFICATION FairSpec
CONSTANTS
  a1 = a1
  a2 = a2
  None = None
  Accounts = {a1, a2}
  Devices <- MCDevices
  LookupRelays = {TRUE, FALSE}
  Skew = 1
  MaxLayouts = 3
INVARIANTS TypeOK ReadBeforeReplaced EditsWin AnsweredFirst RemoteIsOwn RestShowsNewest
PROPERTIES LoadingResolves
CHECK_DEADLOCK FALSE
