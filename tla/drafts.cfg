SPECIFICATION FairSpec
CONSTANTS
  Drafts = {d1}
  Drains = {k1, k2}
  MaxCarts = 2
  MaxItems = 2
  MaxRetries = 1
  Batch = 2
  MaxFaults = 2
INVARIANTS DraftInOnePlace ToldIsTrueOrOwed
PROPERTIES OperationsSettle
CHECK_DEADLOCK FALSE
