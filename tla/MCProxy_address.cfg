SPECIFICATION FairSpec
CONSTANTS
  ByteSpace = 16
  PortSpace = 65536
  KeyLen = 3
  TokenSize = 2
  MaxCalls = 1
  ProjectID <- MCProjectID
  ConnectionName <- MCConnectionName
  ProjectTokens <- MCProjectTokens
  Hubs <- MCBareHubs
CHECK_DEADLOCK FALSE
PROPERTY PrepareReturns
