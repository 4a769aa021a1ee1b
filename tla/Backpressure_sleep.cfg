CONSTANTS
  Capacity = 2
  IndexMod = 4
  LenMod = 2
  MaxPayload = 1
  MaxLen = 2
  Data = {a}
  None = None
  MAX_SPINS = 1
  SLEEP_US = 1
  MaxSleep = 2
  MAX_DELAY = 2
  INT_MAX = 7
  MaxRetries = 2
  BaseDelays = {1}
SPECIFICATION BPSpec
INVARIANT SleepGrows
