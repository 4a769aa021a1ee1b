CONSTANTS
  Processes = {p, c}
  producer = p
  consumer = c
  Geometries <- OneGeometry
  ControlSize = 1
  MaxObjects = 1
  MaxHead = 1
  None = None
SPECIFICATION RacingSpec
PROPERTY CreateIfNotExists
