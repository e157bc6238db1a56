SPECIFICATION FairJointSpec
CONSTANTS
  w1 = w1
  Request <- OneRequest
  StaleAfter = 0
  Worker <- OneWorker
  Adapter = "S3"
  NoRequest = NoRequest
  MaxFaults = 1
INVARIANTS NothingLeftPending ErasedStaysErased
PROPERTIES ImplementsExport 
CHECK_DEADLOCK FALSE
