SPECIFICATION FairSpec
CONSTANTS
  Subject = {task, user, result}
INVARIANTS TypeOK StartTellsTruth SendNeverBlocks
PROPERTIES FailureEndsStart CancelEndsEverything
CHECK_DEADLOCK FALSE
