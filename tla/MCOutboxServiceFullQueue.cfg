CONSTANTS
  Tasks = {t1, t2}
  None = None
  Messages = {m1}
  NoMessage = NoMessage
  Shots = {frameA, frameB}
  NoShot = NoShot
  Baselines = {base}
  NoBaseline = NoBaseline
  QueueCap = 1
  MaxAttempt = 1
  MaxVersion = 4
  MaxEpoch = 0
  MaxWindow = 0
  MaxCrash = 0
  MaxFault = 0
  ReadMayFail = FALSE
  MayStop = FALSE
SPECIFICATION Spec
PROPERTIES ConfirmedIsQueued
CHECK_DEADLOCK FALSE
