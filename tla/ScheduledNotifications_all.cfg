SPECIFICATION FairSpec
CONSTANTS
  i1 = i1
  i2 = i2
  x1 = x1
  x2 = x2
  MaxNotification = 1
  Notification <- Rows
  Run <- Runs
  InstanceOf <- RunsOn
  Instance <- Instances
  NoInstance = NoInstance
  Identity = {a1}
  NoIdentity = NoIdentity
  Ttl = 1
  BatchSize = 1
  MaxFaults = 1
INVARIANTS TypeOK LogsMatchVerdicts
PROPERTIES DeletedGetNothing DueIsProcessed
CHECK_DEADLOCK FALSE
