SPECIFICATION FairSpec
CONSTANTS
  e1 = e1
  e2 = e2
  r1 = r1
  r2 = r2
  r1raw = r1raw
  None = None
  Events = {e1}
  Urls <- MCUrls
  Norm <- MCNorm
  RelaySets <- MCSetsAndEmpty
  Tabs = {t1}
  Slots = {1, 2}
  CompanionsOf <- MCNoCompanions
  MaxAttempts = 2
  MaxAge = 0
  MaxNow = 1
  MaxCrashes = 1
  MaxWriteFailures = 1
INVARIANTS TypeOK LiveKeepsUnanswered
PROPERTIES OutboxDrains DurableGetsAsked ImplementsPromise
CONSTRAINT MCOverlaps
