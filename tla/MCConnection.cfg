SPECIFICATION FairConnectionSpec
CONSTANTS
  Capacity = 2
  reader = reader
  app = app
  Producers = {reader}
  Consumers = {app}
  MaxPushes = 3
  MaxPops = 3
  Raw = Raw
  Empty = Empty
  Base = 3
  BufferSize = 3
  FrameLengths = {0, 3}
  SendLengths = {1}
  MaxFrames = 3
  MaxSends = 2
  MaxSessions = 2
CHECK_DEADLOCK FALSE
INVARIANTS TypeOK SizeAccounts NoUnderflowBeforeFull Fifo ConnectionTypeOK FramesWhole SentWhole
PROPERTY FramesArrive
