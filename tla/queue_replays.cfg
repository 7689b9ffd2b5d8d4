SPECIFICATION Spec
CONSTANTS
  c1 = c1
  c2 = c2
  d1 = d1
  d2 = d2
  f1 = f1
  NSales = 1
  Counters = {c1}
  Drains = {d1}
  Forcers = {}
  MaxRetry = 2
  Batch = 1
  Verdicts = {"ok", "busy", "unreadable"}
  SharedKey = FALSE
  DbMayFail = FALSE
  Voidable = {}
  MaxFaults = 0
  MaxLate = 0
PROPERTIES ReplaysOnlyTheUnanswered
