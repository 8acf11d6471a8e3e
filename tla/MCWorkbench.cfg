CONSTANTS
  Accounts = {a1, a2}
  Variants = {v1, v2}
  Runs = {1, 2}
  MaxSteps = 2
  MaxVariants = 2
  MaxCalls = 4
  Sessions = {1, 2}
  Edits = {11}
  MaxBuiltin = 2
  KeepRevisions = 2
  MaxTurns = 4
  Intents = {1, 2}
  Keys = {1, 2, 3}
  MaxRequests = 8
  MaxFaults = 2
  Cleaned = {1, 2, 3}
  Jobs = {1, 2}
  Hash <- ShortHash
  MaxSalt = 2
  ChunkSize = 2
  QueueSize = 2
  MaxEpoch = 1
  MaxSubmits = 2
  MaxFailures = 1
SPECIFICATION WorkbenchSpec
INVARIANTS RetriesTruncate DefaultsDelivered AnswersPinned SentOnce OneOfBatch OwnTranslation
PROPERTIES SuccessIsComplete RunsEnd
CHECK_DEADLOCK FALSE
