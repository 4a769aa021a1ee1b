CONSTANTS
  Members = {m1, m2}
  GroupIds = {0}
  MaxConsumers = 2
  Capacity = 2
  MaxHead = 4
  None = None
SPECIFICATION ScanSpec
SYMMETRY Symmetry
INVARIANT Retained
