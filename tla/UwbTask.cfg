SPECIFICATION FairSpec
CONSTANTS
  MaxCommands = 4
  MaxFailures = 3
  Reentrant = FALSE
INVARIANTS SleepsBetweenOperations
PROPERTIES IsService HealthyAnswered LinkRecovers
