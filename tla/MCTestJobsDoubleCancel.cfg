\* Two cancels of one Job; over STL a single one is enough (a lost run).
SPECIFICATION Spec
CONSTANTS
  p1 = p1
  None = None
  Jobs = {1}
  Ports = {p1}
  Needs <- OnePort
  Adapter = "astf"
  MaxConcurrent = 1
  MaxCancels = 2
  MaxRestarts = 0
  Impatient = {}
INVARIANT
  FailClosed
