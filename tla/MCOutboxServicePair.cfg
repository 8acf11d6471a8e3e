CONSTANTS
  Tasks = {t1, t2}
  None = None
  Messages = {m1}
  NoMessage = NoMessage
  Shots = {frameA, frameB}
  NoShot = NoShot
  Baselines = {base}
  NoBaseline = NoBaseline
  QueueCap = 3
  MaxAttempt = 1
  MaxVersion = 4
  MaxEpoch = 0
  MaxWindow = 0
  MaxCrash = 1
  MaxFault = 1
  ReadMayFail = FALSE
  MayStop = TRUE
SPECIFICATION Spec
SYMMETRY TaskSymmetry
INVARIANTS NoneStranded
PROPERTIES KeepsPromise
CHECK_DEADLOCK FALSE
