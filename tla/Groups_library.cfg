CONSTANTS
  Members = {m1}
  GroupIds = {0}
  MaxConsumers = 1
  Capacity = 1
  MaxHead = 1
  None = None
SPECIFICATION LibrarySpec
INVARIANT GroupsSupported
