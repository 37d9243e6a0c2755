\* Every kind of intent, two publications at a time, two versions of the policy.
SPECIFICATION Spec
CONSTANTS
  mixed = mixed
  group = group
  Contents = {mixed, group}
  w1 = w1
  w2 = w2
  v1 = v1
  v2 = v2
  Publishers = {w1, w2}
  MaxRevisions = 3
  Intents = {"traffic", "benchmark", "rewrite", "preserve", "udp", "stateful", "workload", "dns", "dhcp", "arp"}
  Paths <- FourPaths
  Features <- MixedAndGroup
  Versions = {v1, v2}
  MaxPlans = 1
  MaxRestarts = 1
SYMMETRY Interchangeable
INVARIANTS
  CatalogSound
  NoCollisionByPath
  SendsThePlan
  CheckedBeforeItRuns
PROPERTY
  Frozen
CHECK_DEADLOCK FALSE
