\* Two frame sizes on every device, each found anew, and on an erratic one.
SPECIFICATION Spec
CONSTANTS
  Ceiling = 15
  Resolution = 2
  Samples = 2
  Confirmations = 2
  LossStep = 4
  ZeroLossRuns = 2
  MaxBurst = 7
  BurstStep = 2
  Repetitions = 2
  Capacities <- EveryCapacity
  Erratic = Erratic
  Pending = Pending
  Invalid = Invalid
  FrameSizes = 2
  Suites <- TheSuites
  Minimum = 7
  NoAssertion = NoAssertion
  LineRate = 15
INVARIANTS
  TypeOK
  ThroughputSound
  CurveSound
  BurstsSound
  NothingLeftOut
  FailsClosed
PROPERTIES
  BisectionsEndRight
  Ends
