CONSTANTS
  Members = {m1}
  GroupIds = {7}
  MaxConsumers = 1
  Capacity = 1
  MaxHead = 1
  None = None
SPECIFICATION CheckpointSpec
PROPERTY SaveReported
