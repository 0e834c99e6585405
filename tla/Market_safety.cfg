SPECIFICATION Spec
CONSTANTS
  l1 = l1  l2 = l2  e1 = e1  d1 = d1  b1 = b1  b2 = b2
  u1 = u1  v1 = v1  c1 = c1  sam = sam  kim = kim
  None = None
  Lists = {l1, l2}
  Edits = {e1}
  Deletes = {d1}
  Buys = {b1, b2}
  Pays = {u1}
  Ships = {v1}
  Completes = {c1}
  Users = {sam, kim}
  Caller <- MCCaller
  MaxStarts = 1
  Faults = {"db"}
INVARIANTS
  MarketIsRight
  UndisturbedTotal
  BuyerDecides
CONSTRAINT MCEither
CHECK_DEADLOCK FALSE
