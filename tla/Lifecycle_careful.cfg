CONSTANTS
  Processes = {p, c, t}
  producer = p
  consumer = c
  Geometries <- OneGeometry
  ControlSize = 1
  MaxObjects = 2
  MaxHead = 2
  None = None
SPECIFICATION LifecycleSpec
INVARIANTS LifecycleTypeOK HandleGeometry CounterOrder
PROPERTY HealthyUntouched
