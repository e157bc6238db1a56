SPECIFICATION FairSpec
CONSTANTS
  MaxRequest = 3
  Request <- Ids
  Worker = {w1, w2}
  Client = {c1}
  Identity = {i1}
  NoIdentity = NoIdentity
  NoRequest = NoRequest
  StaleAfter = 0
  GracePeriodJob = TRUE
  MaxFaults = 1
INVARIANTS CompletedMeansErased OneVerdictLogged NothingLeftToSend
PROPERTY DeletionIsCarriedOut
CHECK_DEADLOCK FALSE
