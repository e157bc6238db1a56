SPECIFICATION FairAlertSpec
CONSTANTS
  own = own
  daily = daily
  i1 = i1
  i2 = i2
  Own = own
  Others = {daily}
  Instance <- TwoInstances
  NoInstance = NoInstance
  Expected = {daily}
  Overdue = 0
  Ttl = 1
  StuckAfter = 1
  OrphanAfter = 0
  Debounce = 0
  ErrWindow = 0
  MaxFaults = 1
INVARIANTS DebounceHolds
 
CHECK_DEADLOCK FALSE
