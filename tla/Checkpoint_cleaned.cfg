CONSTANTS
  Members = {m1}
  GroupIds = {7}
  MaxConsumers = 2
  Capacity = 1
  MaxHead = 2
  None = None
SPECIFICATION CheckpointSpec
INVARIANT ReadsPosition
