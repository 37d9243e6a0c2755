\* Flows of a capture planned over revisions of a LabPath that differ elsewhere.
SPECIFICATION Spec
CONSTANTS
  mixed = mixed
  group = group
  w1 = w1
  w2 = w2
  v1 = v1
  v2 = v2
  Contents = {mixed, group}
  Publishers = {w1, w2}
  MaxRevisions = 1
  Intents = {"udp"}
  Paths <- FourPaths
  Features <- MixedAndGroup
  Versions = {v1, v2}
  MaxPlans = 1
  MaxRestarts = 1
SYMMETRY Interchangeable
INVARIANT
  NoCollision
CHECK_DEADLOCK FALSE
