\* Two Jobs after one port, over the ASTF adapter, each cancelled at any time.
SPECIFICATION Spec
CONSTANTS
  p1 = p1
  None = None
  Jobs = {1, 2}
  Ports = {p1}
  Needs <- OnePort
  Adapter = "astf"
  MaxConcurrent = 2
  MaxCancels = 1
  MaxRestarts = 0
  Impatient = {}
INVARIANTS
  FailClosedUnlessCut
  LeaseCoversExecution
