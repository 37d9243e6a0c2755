\* Two Jobs that write a content in common, and a cleanup at any time.
SPECIFICATION Spec
CONSTANTS
  w1 = w1
  w2 = w2
  d1 = d1
  d2 = d2
  Writers = {w1, w2}
  Digests = {d1, d2}
  Contents <- TwoBundles
  Cleaner = Cleaner
  None = None
INVARIANT
  RetainedUnlessRaced
PROPERTIES
  RetentionHonoured
  CleanupSpares
