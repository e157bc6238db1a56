SPECIFICATION FairSpec
CONSTANTS
  MaxRequest = 1
  Request <- Ids
  Worker = {w1, w2}
  NoRequest = NoRequest
  StaleAfter = 0
  Adapter = "S3"
  MaxFaults = 2
INVARIANTS DownloadableHasFile OrphansAreExplained ExpiredLeavesNoFile ClaimsAreBounded NotificationsAreTrue
 
CHECK_DEADLOCK FALSE
