\* One Job in depth: two cancels, its time limits, two ends of the process.
SPECIFICATION ProgressSpec
CONSTANTS
  p1 = p1
  None = None
  Jobs = {1}
  Ports = {p1}
  Needs <- OnePort
  Adapter = "stl"
  MaxConcurrent = 1
  MaxCancels = 2
  MaxRestarts = 2
  Impatient = {1}
INVARIANTS
  TypeOK
  MarkerCoversTraffic
  FailClosedUnlessCut
  LeaseReturnedUnlessCut
PROPERTIES
  QuarantineLifted
  LifeCycle
  EveryJobEnds
