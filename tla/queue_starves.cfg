SPECIFICATION FairSpec
CONSTANTS
  c1 = c1
  c2 = c2
  d1 = d1
  d2 = d2
  f1 = f1
  NSales = 2
  Counters = {c1}
  Drains = {d1}
  Forcers = {}
  MaxRetry = 1
  Batch = 1
  Verdicts = {"ok", "permanent"}
  SharedKey = FALSE
  DbMayFail = FALSE
  Voidable = {}
  MaxFaults = 0
  MaxLate = 0
PROPERTIES EverySaleSettles
