CONSTANTS
  Capacity = 2
  IndexMod = 4
  LenMod = 2
  MaxPayload = 1
  MaxLen = 2
  Data = {a, b}
  None = None
SPECIFICATION InterleavedSpec
PROPERTY HeadMonotone
