SPECIFICATION Spec
CONSTANTS
  Capacity = 1
  Producers = {p1}
  Consumers = {c1}
  MaxPushes = 2
  MaxPops = 6
  Raw = Raw
  Empty = Empty
SYMMETRY Symmetry
CHECK_DEADLOCK FALSE
INVARIANT NoUnderflow
