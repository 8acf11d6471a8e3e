CONSTANTS
  s1 = s1
  Keys = {k1, k2}
  Scopes = {s1}
  ScopeOf <- MCScopeOf
  Messages = {m1}
  NoMessage = NoMessage
  Shots = {shot}
  NoShot = NoShot
  Baselines = {}
  NoBaseline = NoBaseline
  MaxVersion = 6
SPECIFICATION Spec
SYMMETRY KeySymmetry
INVARIANTS
  RowsConsistent
PROPERTIES
  NeverReplayed
  ConfirmedBeforeInput
  KeepsPromise
CHECK_DEADLOCK FALSE
