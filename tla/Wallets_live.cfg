SPECIFICATION FairSpec
CONSTANTS
  p1 = p1  p2 = p2  b1 = b1  b2 = b2  w1 = w1  w2 = w2
  u1 = u1  u2 = u2
  NoKey = NoKey
  Apps = {p1, p2}
  Apis = {b1}
  Waves = {}
  Users = {u1, u2}
  Owner <- MCOwner
  Temp <- MCTemp
  Faults = {}
PROPERTY ToldGetsStored
CHECK_DEADLOCK FALSE
