CONSTANTS
  Capacity = 2
  IndexMod = 4
  LenMod = 2
  MaxPayload = 1
  MaxLen = 2
  Data = {a, b}
  None = None
SPECIFICATION Spec
INVARIANTS TypeOK CursorChain NoDataRace IInv
PROPERTIES PeekStable IsFifo
