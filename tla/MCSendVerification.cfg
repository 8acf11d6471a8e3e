CONSTANTS
  hello = hello
  Tasks = {t1, t2}
  Texts = {hello}
  TextOf <- MCTextOf
  Person = Person
  None = None
  MaxMessage = 2
  MaxTime = 2
  Slack = 1
  Window = 1
  MaxInput = 1
SPECIFICATION FairSpec
INVARIANTS NoMisattribution
PROPERTIES VerifierSettles
CHECK_DEADLOCK FALSE
