CONSTANTS
  u1 = u1
  u2 = u2
  u3 = u3
  r1 = r1
  r2 = r2
  Handler = {g1, g2, g3}
  Room = {r1}
  EmptyCode = EmptyCode
  User = {u1, u2, u3}
  Addr = {u1, u2, u3}
  Request <- Conversation
  NoRequest = NoRequest
  NoOne = NoOne
  Gone = Gone
  MaxRequests = 4
SPECIFICATION Spec
SYMMETRY Goroutines
INVARIANTS
  RoomsConsistent
  LoopsCurrent
  ChatOrder
PROPERTIES
  TableSpec
CHECK_DEADLOCK FALSE
