CONSTANTS
  u1 = u1
  u2 = u2
  u3 = u3
  r1 = r1
  r2 = r2
  Handler = {g1, g2}
  Room = {r1}
  EmptyCode = EmptyCode
  User = {u1, u2}
  Addr = {u1, u2}
  Request <- Everything
  NoRequest = NoRequest
  NoOne = NoOne
  Gone = Gone
  MaxRequests = 3
SPECIFICATION Spec
SYMMETRY Goroutines
PROPERTIES
  QuitRemovesTheQuitter
CHECK_DEADLOCK FALSE
