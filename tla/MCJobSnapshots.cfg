SPECIFICATION Spec
CONSTANTS
  w1 = w1
  w2 = w2
  r1 = r1
  r2 = r2
  Jobs = {1}
  Writers = {w1, w2}
  Requests = {r1, r2}
  Calls <- MCCalls
  MaxRevision = 5
SYMMETRY Symmetric
INVARIANTS
  TypeOK
  EventLogComplete
  CopyFreshOrRefused
PROPERTIES
  CancelHonoured
  KeepsPromise
