SPECIFICATION FairSpec
CONSTANTS
  Main = Main
  None = None
  Rooms = {1, 2}
  Seated = {{1}}
  MaxMoves = 2
  MaxUp = 2
  MaxHost = 3
  MaxUser = 1
  MaxFaults = 1
  MaxInputs = 3
INVARIANTS TypeOK NoGhost CurrentIsTheCall NotStranded
PROPERTIES SeatFollowsRoster AssignmentIsOffered SessionEnds
ACTION_CONSTRAINTS FirstOddity Paired
CHECK_DEADLOCK FALSE
