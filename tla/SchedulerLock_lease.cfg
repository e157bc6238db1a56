SPECIFICATION LockSpec
CONSTANTS
  i1 = i1
  i2 = i2
  i3 = i3
  x1 = x1
  x2 = x2
  x3 = x3
  x4 = x4
  Run <- Runs
  InstanceOf <- RunsOn
  Instance <- Instances
  NoInstance = NoInstance
  Ttl = 2
INVARIANTS OverlapHasACause
PROPERTIES ImplementsLease
CHECK_DEADLOCK FALSE
