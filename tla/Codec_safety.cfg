SPECIFICATION MCSpec
CHECK_DEADLOCK FALSE
CONSTANTS
  MaxUInt = 99999
  MaxInt = 999
  u1 = u1
  u2 = u2
  c1 = c1
  Users = {u1, u2}
  Codes = {c1}
  MaxContracts = 2
  Registry <- MCRegistry
  Constructors <- MCConstructors
  Messages <- MCMessages
  Typed <- MCT
  Encoded <- EncodedLines
  ConstructorRuns <- RunsOfConstructors
  MessageRuns <- RunsOfMessages
  ByteSpan = 3
  Raws <- MCRaws
  Blocks <- MCBlocks
  SizeOf <- MCSizeOf
  Default <- MCDefault
  OwnStores <- MCOwnStores
  Changed = {"u8"}
  KeyArgs <- MCKeyArgs
  MaxAsked = 2
INVARIANTS
  
  TypedIsRun
  ReplayIsSame
  RequestsAreRight
  BlocksAreTold
