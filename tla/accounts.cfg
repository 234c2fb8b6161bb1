CONSTANTS
  i1 = i1
  i2 = i2
  n1 = n1
  n2 = n2
  p1 = p1
  p2 = p2
  Handler = {g1, g2, g3}
  UserId = {i1, i2}
  Name = {n1, n2}
  Psw = {p1, p2}
  Request <- Rivals
  NoRequest = NoRequest
  MaxRequests = 4
  MaxFailures = 1
SPECIFICATION Spec
SYMMETRY Goroutines
INVARIANTS
  SignedUpCanLogIn
  VerdictsAreTrue
PROPERTIES
  BookSpec
CHECK_DEADLOCK FALSE
