SPECIFICATION Spec
CONSTANTS
  NTasks = 5
  MaxRetries = 2
  MaxFaults = 1
  MaxRestarts = 0
INVARIANTS OnePollAtATime
CHECK_DEADLOCK FALSE
