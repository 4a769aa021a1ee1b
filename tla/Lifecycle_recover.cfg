CONSTANTS
  Processes = {p, t}
  producer = p
  consumer = c
  Geometries <- OneGeometry
  ControlSize = 1
  MaxObjects = 1
  MaxHead = 1
  None = None
SPECIFICATION LifecycleSpec
PROPERTY RecoverHeals
