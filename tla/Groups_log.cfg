CONSTANTS
  Members = {m1, m2}
  GroupIds = {0}
  MaxConsumers = 2
  Capacity = 1
  MaxHead = 2
  None = None
SPECIFICATION FairSpec
INVARIANTS GroupsTypeOK Owned Retained
PROPERTIES HandedOutOnce IsGroupLog Progress
