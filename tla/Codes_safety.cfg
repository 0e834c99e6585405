SPECIFICATION Spec
CONSTANTS
  r1 = r1  r2 = r2  n1 = n1  f1 = f1  m1 = m1  a1 = a1  a2 = a2
  x1 = x1  s1 = s1  l1 = l1  hugo = hugo  p1 = p1  p2 = p2
  None = None  Used = Used
  Regs = {r1, r2}
  Resends = {n1}
  Forgets = {f1}
  Mails = {m1}
  Adds = {a1, a2}
  Acts = {x1}
  Resets = {s1}
  Logins = {l1}
  Holders = {hugo}
  Owner <- MCOwner
  Phones = {p1, p2}
  Phone <- MCPhone
  MaxStarts = 1
  Faults = {"sms"}
INVARIANTS
  CodesAreRight
  
  
CONSTRAINT MCEither
CHECK_DEADLOCK FALSE
