SPECIFICATION Spec
CONSTANTS
  NumberBits = 2
  IndexSpace = 9
  Tags <- MCTags
  Tickets <- MCTickets
  Threads = {s1, s2}
  MaxIds = 3
  None = None
INVARIANTS TypeOK AtMostOnce AckedWasDelivered IdsDistinct
PROPERTY NumbersInOrder
