SPECIFICATION Spec
CONSTANTS
  Capacity = 2
  Senders = {s1}
  Retries <- MCPlainRetries
  NumberSpace = 4
  MaxIds = 3
  Null = Null
PROPERTY ClearsOwn
