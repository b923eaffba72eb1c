SPECIFICATION FairSpec
CONSTANTS
  NumberBits = 2
  IndexSpace = 16
  InboxSize = 2
  MaxMessages = 3
  MaxSessions = 3
  MaxBoots = 2
CHECK_DEADLOCK FALSE
INVARIANTS TypeOK WindowKnows
PROPERTIES ActsAsMailbox EventuallyDelivered
