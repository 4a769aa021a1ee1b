CONSTANTS
  Capacity = 2
  IndexMod = 16
  LenMod = 1
  MaxPayload = 0
  MaxLen = 0
  Data = {}
  None = None
  Percent = 2
SPECIFICATION MonitoredSpec
INVARIANT MetricsFillInRange
