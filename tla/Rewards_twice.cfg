SPECIFICATION Spec
CONSTANTS
  g1 = g1  g2 = g2  a1 = a1  a2 = a2  c1 = c1  c2 = c2
  staff = staff  anne = anne  bert = bert
  NoId = NoId
  NoUser = NoUser
  Gens = {g1}
  Adds = {}
  Claims = {c1, c2}
  Users = {staff, anne, bert}
  By <- MCBy
  Spend <- MCSpend
  Rates = {1}
  Faults = {}
INVARIANT ClaimedOnce
CHECK_DEADLOCK FALSE
