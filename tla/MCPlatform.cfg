CONSTANTS
  Accounts = {a1, a2}
  LoggedIn = a1
  MaxWrites = 3
  MaxBuilds = 2
  MaxAsks = 2
  Buyers = {b1}
  Seller = s1
  MaxQueue = 2
  MaxCaptures = 3
  Sids = {1, 2}
  Cids = {11, 12}
  Tags = {21}
  Names = {"a"}
  Stages = {"unknown", "lost"}
  Reasons = {"price"}
  Batches = {1, 2}
  MaxEdits = 2
  Requests = {r1, r2}
  MaxCalls = 3
  MaxWindows = 2
  MaxTargets = 2
  Apps = {1, 2}
  Secrets = {"s1", "s2"}
  MaxTokens = 2
  MaxRequests = 6
  Processes = {1, 2}
  MaxSessions = 3
  MaxJobs = 1
  MaxStarts = 3
  Archives = 2
  MaxAge = 2
  MaxSize = 2
  MaxTime = 4
  MaxFaults = 1
  MaxFailures = 2
SPECIFICATION PlatformSpec
SYMMETRY RequestSymmetry
INVARIANTS ServesRightCopy UsedFilesExist AuditExplains NavigatesForSelection AnsweredInOneEpoch NoCircularWait WriterKept OldStaysOld
PROPERTIES NeverRedirected StaleRefused LetInWithLiveToken
CHECK_DEADLOCK FALSE
