SPECIFICATION Spec
CONSTANTS
  r1 = r1  r2 = r2  r3 = r3  o1 = o1  o2 = o2  l1 = l1  x1 = x1  x2 = x2
  f1 = f1  s1 = s1
  anne = anne  bert = bert  carl = carl
  NoCode = NoCode  Used = Used  ByOauth = ByOauth  Zero = Zero
  Regs = {r1, r2, r3}
  Oauths = {o1, o2}
  Logins = {l1}
  Acts = {x1}
  Forgets = {f1}
  Resets = {s1}
  Emails = {anne, bert, carl}
  Email <- MCEmail
  MaxStarts = 1
  Faults = {"mail", "provider"}
INVARIANTS
  AccountsAreRight
  
  
CONSTRAINT MCEither
CHECK_DEADLOCK FALSE
