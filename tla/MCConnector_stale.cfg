SPECIFICATION Spec
CONSTANTS
  MaxTickets = 2
  QueueSize = 1
  MaxWire = 1
  HubKinds = {"oneway", "response", "request"}
INVARIANT ActivatedByThisConnection
