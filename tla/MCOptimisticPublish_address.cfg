SPECIFICATION Spec
CONSTANTS
  p1 = p1
  p2 = p2
  Edits = {p1}
  Cacheable = {TRUE, FALSE}
  MaxVersions = 3
  MaxFaults = 1
INVARIANTS TypeOK NoPhantom NothingLost ReplacedIsBack
CHECK_DEADLOCK FALSE
