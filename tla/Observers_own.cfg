CONSTANTS
  Capacity = 2
  IndexMod = 8
  LenMod = 1
  MaxPayload = 0
  MaxLen = 0
  Data = {}
  None = None
  Percent = 2
SPECIFICATION ObsSpec
INVARIANTS ObsInv UsedBounds FillInRange
PROPERTIES RoomLasts ItemLasts
