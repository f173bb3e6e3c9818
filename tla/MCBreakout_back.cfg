SPECIFICATION Spec
CONSTANTS
  Main = Main
  None = None
  Rooms = {1, 2}
  Seated = {{}}
  MaxMoves = 2
  MaxUp = 2
  MaxHost = 2
  MaxUser = 1
  MaxFaults = 0
  MaxInputs = 3
INVARIANT LiveHasItsRoom
CHECK_DEADLOCK FALSE
