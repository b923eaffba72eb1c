SPECIFICATION FairSpec
CONSTANTS
  MaxTickets = 2
  QueueSize = 1
  MaxWire = 1
  HubKinds = {"request"}
INVARIANTS TypeOK CounterBuilt KeyFitsSocket
PROPERTIES ActsAsSession LossEndsListening DeadSocketNoticed
