SPECIFICATION MCSpec
CHECK_DEADLOCK FALSE
CONSTANTS
  t1 = t1  t2 = t2  a1 = a1  a2 = a2  f1 = f1  f2 = f2
  Keys = {1, 2, 3}
  Values = {"v", "w", "x"}
  Garbled = {"x"}
  NoValue = "none"
  PageSizes = {0, 2}
  MaxLength = 2
  MaxFaults = 1
  Tasks = {t1, t2}
  Accounts = {a1}
  Account <- MCAccount
  Call <- MCCall
  Watching = {t1}
  Functions = {f1, f2}
  Index <- MCIndex
  Failing <- MCFailing
  Nonces <- MCNonces
  MaxBlocks = 4
  MaxXts = 1
  Faults = {"link", "pool"}
INVARIANTS
  ExtrinsicsAreRight
  ToldIsItsOwn
  ListedIsRight
PROPERTIES
  IterationEnds
  WatchEnds
CONSTRAINT MCWorks
