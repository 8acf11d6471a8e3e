CONSTANTS
  Tasks = {t1}
  None = None
  Messages = {m1}
  NoMessage = NoMessage
  Shots = {frameA, frameB}
  NoShot = NoShot
  Baselines = {base}
  NoBaseline = NoBaseline
  QueueCap = 1
  MaxAttempt = 2
  MaxVersion = 9
  MaxEpoch = 2
  MaxWindow = 1
  MaxCrash = 1
  MaxFault = 1
  ReadMayFail = FALSE
  MayStop = TRUE
SPECIFICATION FairSpec
INVARIANTS InputIsOwned NoLateCompensation
PROPERTIES ClickAsConfirmed TasksEnd
CHECK_DEADLOCK FALSE
