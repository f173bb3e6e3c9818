SPECIFICATION Spec
CONSTANTS
  e1 = e1
  e2 = e2
  r1 = r1
  r2 = r2
  r1raw = r1raw
  None = None
  Events = {e1}
  Urls <- MCUrls
  Norm <- MCNorm
  RelaySets <- MCBoth
  Tabs = {t1}
  Slots = {1}
  CompanionsOf <- MCNoCompanions
  MaxAttempts = 2
  MaxAge = 0
  MaxNow = 0
  MaxCrashes = 0
  MaxWriteFailures = 0
INVARIANTS UnansweredStaysPending
