CONSTANTS
  Members = {m1, m2}
  GroupIds = {7}
  MaxConsumers = 1
  Capacity = 2
  MaxHead = 2
  None = None
SPECIFICATION SharedSpec
PROPERTY HandedOutOnce
