SPECIFICATION Spec
CONSTANTS
  e1 = e1
  e2 = e2
  r1 = r1
  r2 = r2
  r1raw = r1raw
  None = None
  Events = {e1, e2}
  Urls = {r1, r2}
  Norm <- MCIdentity
  RelaySets <- SomeRelays
  Tabs = {t1, t2}
  Slots = {1}
  CompanionsOf <- MCLicence
  MaxAttempts = 1
  MaxAge = 0
  MaxNow = 0
  MaxCrashes = 1
  MaxWriteFailures = 0
INVARIANT AskedBeforeForgotten
PROPERTY KeepsPromise
CONSTRAINT OneOrTheOther
SYMMETRY MCSymmetry
CHECK_DEADLOCK FALSE
