CONSTANTS
  a1 = a1
  a2 = a2
  Archives = {a1, a2}
  None = None
  MaxEpoch = 3
  ArchiveOf <- MCArchiveOf
  MaxRevision = 3
  MaxTarget = 3
  MaxFailure = 1
SPECIFICATION FairSpec
INVARIANTS AnswersTrue
PROPERTIES NeverRegresses RequestsEnd
CHECK_DEADLOCK FALSE
