\* Two Jobs after one slot and one port a crash may strand: their time limits end
\* them.
SPECIFICATION FairSpec
CONSTANTS
  p1 = p1
  None = None
  Jobs = {1, 2}
  Ports = {p1}
  Needs <- OnePort
  Adapter = "stl"
  MaxConcurrent = 1
  MaxCancels = 0
  MaxRestarts = 1
  Impatient = {1, 2}
INVARIANT
  ExecutionsBounded
PROPERTY
  EveryJobEnds
