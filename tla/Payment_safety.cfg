SPECIFICATION Spec
CONSTANTS
  r1 = r1  r2 = r2  r3 = r3
  u1 = u1  u2 = u2
  a1 = a1  a2 = a2
  NoId = NoId
  NoAccount = NoAccount
  Requests = {r1, r2, r3}
  Users = {u1, u2}
  Accounts = {a1, a2}
  ByApi <- MCByApi
  Payer <- MCPayer
  Dest <- MCDest
  Amount <- MCAmount
  Priority <- MCPriority
  Fee = 2
  Wallets <- MCWallets
  InitBalance <- MCBalance
  MaxForeign = 1
  Faults = {"api", "service", "link", "db"}
INVARIANTS
  PoolIsReady
  
  RefusedNeverMoves
PROPERTIES
  PaidAtMostOnce
  KeepsPromise
CHECK_DEADLOCK FALSE
