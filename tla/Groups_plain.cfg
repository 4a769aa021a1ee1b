CONSTANTS
  Members = {m1}
  GroupIds = {0}
  MaxConsumers = 1
  Capacity = 1
  MaxHead = 2
  None = None
SPECIFICATION PlainSpec
INVARIANT Retained
