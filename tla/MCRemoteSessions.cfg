\* Two STL Jobs after one port, or one ASTF Job; the Agent dies once or twice.
SPECIFICATION Spec
CONSTANTS
  p1 = p1
  p2 = p2
  None = None
  Reconciler = Reconciler
  Jobs = {1, 2, 3}
  Ports = {p1, p2}
  Needs <- MCNeeds
  AdapterOf <- MCAdapterOf
  Workloads <- MCWorkloads
  MaxRestarts = 2
INVARIANT MeasuresItsOwn
PROPERTIES
  KeepsPromise
  CallsReturn
CHECK_DEADLOCK FALSE
