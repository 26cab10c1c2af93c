SPECIFICATION TestsSpec
CONSTANTS
  Profiles = {"a", "b", "off"}
  Disabled = {"off"}
  MaxConcurrent = 2
  Ports = {1, 2}
  MaxBatches = 2
INVARIANTS
  MeasuredOwn
  CountersAgree
PROPERTIES
  
  BatchEnds
CHECK_DEADLOCK FALSE
