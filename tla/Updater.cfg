CONSTANTS
  MaxBuild = 2
  MaxAttempt = 2
  Fragile = {2}
  None = None
SPECIFICATION FairSpec
INVARIANTS GateHeld InstallsAsConfirmed
PROPERTIES UpdatesEnd
CHECK_DEADLOCK FALSE
