SPECIFICATION Spec
CONSTANTS
  Capacity = 2
  Senders = {s1, s2}
  Retries <- MCPlainRetries
  NumberSpace = 4
  MaxIds = 3
  Null = Null
INVARIANT PushFindsSlot
