SPECIFICATION FairSpec
CONSTANTS
  c1 = c1
  c2 = c2
  d1 = d1
  d2 = d2
  f1 = f1
  NSales = 2
  Counters = {c1}
  Drains = {d1}
  Forcers = {}
  MaxRetry = 1
  Batch = 2
  Verdicts = {"ok", "busy", "permanent"}
  SharedKey = TRUE
  DbMayFail = FALSE
  Voidable = {1}
  MaxFaults = 1
  MaxLate = 1
INVARIANTS TypeOK
PROPERTIES SessionRefusalCostsNothing WrittenOffIsNotSent EverySaleSettles
