SPECIFICATION FairSpec
CONSTANTS
  r1 = r1  r2 = r2  r3 = r3
  u1 = u1  u2 = u2
  a1 = a1  a2 = a2
  NoId = NoId
  NoAccount = NoAccount
  Requests = {r1, r2}
  Users = {u1, u2}
  Accounts = {a1, a2}
  ByApi <- MCByApi
  Payer <- MCPayer
  Dest <- MCDest
  Amount <- MCAmount
  Priority <- MCPriority
  Fee = 2
  Wallets <- MCWallets
  InitBalance <- MCBalance
  MaxForeign = 1
  Faults = {"service", "foreign"}
INVARIANT IInv
PROPERTIES
  EveryRequestEnds
  AcceptedSettles
CHECK_DEADLOCK FALSE
