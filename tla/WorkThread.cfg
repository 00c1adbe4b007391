CONSTANTS
    Jobs = {j1, j2}
    NoJob = NoJob
    MaxPasses = 2
    MaxPausers = 2
SPECIFICATION FairSpec
INVARIANTS NoJobLeftBehind CancelHolds PauserHolds
PROPERTIES ImplementsJobQueue JobsServed
CHECK_DEADLOCK FALSE
