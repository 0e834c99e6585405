SPECIFICATION MCSpec
CONSTANTS
  s1 = s1
  w1 = w1
  Shells <- MCShells
  Workers <- MCWorkers
  Lines <- MCLines
  Requests <- MCRequests
  Locations <- MCLocations
  Files <- MCFiles
  Fixtures <- MCFixtures
  Random <- MCRandom
  Spoken <- MCSpoken
  Long <- MCLong
  MaxRuns = 3
  p1 = p1  p2 = p2
  k1 = k1  k2 = k2  k3 = k3
  n1 = n1  n2 = n2  n3 = n3
  d1 = d1  d2 = d2
  g1 = g1  g2 = g2  g3 = g3
  People = {p1, p2}
  Submissions = {k1, k2, k3}
  Changes = {n1, n2, n3}
  Maker <- MCMaker
  Asked <- MCAsked
  Secrets = {"a", "b", "c"}
  NotSet = NotSet
  Staff = {p1, p2}
  Mailed = {p1, p2}
  Adds = {d1, d2}
  Gets = {g1, g2, g3}
  Sender <- MCSender
  Title <- MCTitle
  BranchNames = {"branch"}
  Token <- MCToken
  Jobs <- MCJobs
  Asks <- MCAsks
  Holders <- MCHolders
  NoLine = NoLine
INVARIANTS
  WalletIsRight
  BackupsAreRight
  RunsAsWritten
  DocumentsAreRight
  PartnersAreRight
  LedgerIsRight

  
CHECK_DEADLOCK FALSE
