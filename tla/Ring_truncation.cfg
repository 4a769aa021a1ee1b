CONSTANTS
  Capacity = 2
  IndexMod = 4
  LenMod = 2
  MaxPayload = 2
  MaxLen = 2
  Data = {a, b}
  None = None
SPECIFICATION Spec
INVARIANT LengthKept
