SPECIFICATION Spec
CONSTANTS
  p1 = p1
  p2 = p2
  Edits = {p1, p2}
  Cacheable = {TRUE, FALSE}
  MaxVersions = 3
  MaxFaults = 0
INVARIANTS NoPhantom
CHECK_DEADLOCK FALSE
