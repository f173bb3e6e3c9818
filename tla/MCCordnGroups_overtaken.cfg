SPECIFICATION Spec
CONSTANTS
  a = a
  b = b
  g = g
  Devices = {a, b}
  Creator = a
  Guests = {g}
  MaxAsks = 4
  MaxPolls = 1
  MaxMishaps = 0
INVARIANTS NeverLeftBehind
CHECK_DEADLOCK FALSE
