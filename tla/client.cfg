SPECIFICATION FairSpec
CHECK_DEADLOCK FALSE
CONSTANTS
  Rooms = {r1, r2}
  NoRoom = NoRoom
  Me = me
  Other = other
  MaxTaps = 4
  MaxMoves = 1
  MaxUp = 2
  MaxDown = 3
  MaxList = 3
INVARIANTS
  TypeOK
  
  ListOfOneInstant
PROPERTIES
  RefreshEnds
