SPECIFICATION FairSpec
CONSTANTS
  NTasks = 5
  MaxRetries = 2
  MaxFaults = 1
  MaxRestarts = 1
INVARIANTS TypeOK SingleFlight ScreenTellsTheTruth
PROPERTIES SplashEnds ApprovalIsNoticed
CHECK_DEADLOCK FALSE
