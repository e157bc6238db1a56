SPECIFICATION FairSpec
CONSTANTS
  MaxRequest = 2
  MaxSuspension = 2
  Request <- Ids
  Suspension <- Records
  Caller = {c1}
  Worker = {w1, w2}
  Identity = {i1}
  NoIdentity = NoIdentity
  NoSuspension = NoSuspension
  NoRequest = NoRequest
  StaleAfter = 0
  MaxFaults = 1
INVARIANTS
  NothingLostBeforeExpiry  RecoverableIsWhole
   ExpiredLeavesNoBackup 
PROPERTIES SuspensionIsFinished ExpiryIsCarriedOut
CHECK_DEADLOCK FALSE
