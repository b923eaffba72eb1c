SPECIFICATION FairSpec
CONSTANTS
  Capacity = 2
  Senders = {s1}
  Retries <- MCRetries
  NumberSpace = 4
  MaxIds = 3
  Null = Null
INVARIANTS TypeOK LengthAccounts PushFindsSlot RetryBudget
PROPERTIES Drains ActsAsOutbox
