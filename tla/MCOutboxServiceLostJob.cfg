CONSTANTS
  Tasks = {t1}
  None = None
  Messages = {m1}
  NoMessage = NoMessage
  Shots = {frameA, frameB}
  NoShot = NoShot
  Baselines = {base}
  NoBaseline = NoBaseline
  QueueCap = 2
  MaxAttempt = 1
  MaxVersion = 4
  MaxEpoch = 0
  MaxWindow = 0
  MaxCrash = 0
  MaxFault = 1
  ReadMayFail = TRUE
  MayStop = FALSE
SPECIFICATION FairSpec
PROPERTIES AttemptsEnd
CHECK_DEADLOCK FALSE
