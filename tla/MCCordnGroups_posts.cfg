SPECIFICATION FairSpec
CONSTANTS
  a = a
  b = b
  g = g
  Devices = {a, b}
  Creator = a
  Guests = {g}
  MaxAsks = 4
  MaxPolls = 1
  MaxMishaps = 1
INVARIANTS TypeOK KeepsUp ShownOnce Delivered
PROPERTIES CatchesUp
CHECK_DEADLOCK FALSE
