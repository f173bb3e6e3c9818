SPECIFICATION FairSpec
CONSTANTS
  Limit = 2
  MaxPages = 3
  Overlap = 2
  Skew = 1
  MaxTime = 3
  MaxEvents = 3
  MaxSends = 1
  MaxErrors = 2
INVARIANTS TypeOK SeenOnce NoGap
PROPERTIES SerialsStay Converges
CHECK_DEADLOCK FALSE
