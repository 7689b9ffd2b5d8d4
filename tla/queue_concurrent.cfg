SPECIFICATION Spec
CONSTANTS
  c1 = c1
  c2 = c2
  d1 = d1
  d2 = d2
  f1 = f1
  NSales = 1
  Counters = {c1,c2}
  Drains = {d1,d2}
  Forcers = {f1}
  MaxRetry = 1
  Batch = 1
  Verdicts = {"ok"}
  SharedKey = FALSE
  DbMayFail = TRUE
  Voidable = {}
  MaxFaults = 1
  MaxLate = 1
INVARIANTS NoSaleLost SyncedMeansRecorded
PROPERTIES KeepsCustody
SYMMETRY Interchangeable
