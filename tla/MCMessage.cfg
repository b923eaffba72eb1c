SPECIFICATION Spec
CONSTANTS
  WordSize = 2
  LenIV = 1
  LenAuthenTag = 2
  LenSign = 3
  MaxName = 3
  Messages <- MCMessages
  Keys = {1, 2}
CHECK_DEADLOCK FALSE
INVARIANTS TypeOK RoundTrip OnlyGenuine InBounds AckAnswers
