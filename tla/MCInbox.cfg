CONSTANTS
  s1 = s1
  Dirs = {d1, d2}
  Sids = {s1}
  Mids = {m1, m2, m3}
  SidOf <- MCSidOf
  NoPage = NoPage
  NoDir = NoDir
  MaxRevision = 3
  MaxEpoch = 1
  MaxTokens = 1
SPECIFICATION Spec
SYMMETRY Symmetry
INVARIANTS
  ReadWasShown
PROPERTIES
  OpensQuietly
  KeepsPromise
CHECK_DEADLOCK FALSE
