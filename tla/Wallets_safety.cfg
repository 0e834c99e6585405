SPECIFICATION Spec
CONSTANTS
  p1 = p1  p2 = p2  b1 = b1  b2 = b2  w1 = w1  w2 = w2
  u1 = u1  u2 = u2
  NoKey = NoKey
  Apps = {p1, p2}
  Apis = {b1, b2}
  Waves = {w1}
  Users = {u1, u2}
  Owner <- MCOwner
  Temp <- MCTemp
  Faults = {"api", "service", "db"}
INVARIANTS
  RowsAreRight

  
SYMMETRY MCPartners
CONSTRAINT MCThree
CHECK_DEADLOCK FALSE
