CONSTANTS
  Accounts = {a1}
  Variants = {v1}
  Runs = {1, 2, 3, 4, 5}
  MaxSteps = 2
  MaxVariants = 1
  MaxRequests = 7
  MaxFaults = 0
SPECIFICATION Spec
INVARIANTS BuyerOnce
CHECK_DEADLOCK FALSE
