SPECIFICATION FairSpec
CONSTANTS
  ByteSpace = 16
  PortSpace = 65536
  KeyLen = 3
  TokenSize = 2
  MaxCalls = 3
  ProjectID <- MCProjectID
  ConnectionName <- MCConnectionName
  ProjectTokens <- MCProjectTokens
  Hubs <- MCHubs
CHECK_DEADLOCK FALSE
INVARIANTS TypeOK TicketWhole TicketOfThisCall GenuineAccepted AddressSplit
PROPERTY PrepareReturns
