CONSTANTS
  Handler = {g1, g2}
  Nobody = Nobody
  Blank = Blank
  MaxConns = 4
  MaxRequests = 4
  MaxNow = 4
SPECIFICATION Spec
SYMMETRY Goroutines
INVARIANTS
  TypeOK
  ChampionIsLatest
  FieldsOfTheDay
  AnnouncedIsFinal
CHECK_DEADLOCK FALSE
