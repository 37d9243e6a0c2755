SPECIFICATION Spec
CONSTANTS
  a = a
  b = b
  o = o
  d1 = d1
  d2 = d2
  k = k
  k2 = k2
  p = p
  q = q
  None = None
  Jobs = {1, 2}
  Clients = {a, b, o}
  Principals = {p, q}
  PrincipalOf <- TwoPrincipals
  Documents = {d1, d2}
  Keys = {k, k2}
  Scripts <- TheScripts
  Reports = {"RUNNING", "SUCCEEDED", "FAILED"}
  MaxRevision = 4
  MaxBreaks = 2
INVARIANTS
  OneJobPerKey
  RetriesFollow
  StreamFaithful
  ExitTruthful
PROPERTY
  EndIsSeen
CHECK_DEADLOCK FALSE
