CONSTANTS
  Members = {m1}
  GroupIds = {7}
  MaxConsumers = 2
  Capacity = 2
  MaxHead = 3
  None = None
SPECIFICATION CheckpointSpec
INVARIANTS NothingSkipped CheckpointBehind CheckpointInv
