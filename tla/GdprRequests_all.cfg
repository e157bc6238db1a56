SPECIFICATION FairSpec
CONSTANTS
  MaxRequest = 2
  Request <- Ids
  Worker = {w1, w2}
  NoWorker = NoWorker
  Client = {c1}
  Identity = {i1, i2}
  NoIdentity = NoIdentity
  StaleAfter = 1
  BatchSize = 2
  MaxFaults = 1
INVARIANTS ExclusiveLease OneOpenRequest
PROPERTIES ImplementsLifecycle EveryRequestDecided
\* Once every row is decided and no id is left, the system waits for clients.
CHECK_DEADLOCK FALSE
