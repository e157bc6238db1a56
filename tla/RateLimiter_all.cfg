SPECIFICATION FairSpec
CONSTANTS
  i1 = i1
  r1 = r1
  r2 = r2
  k1 = k1
  k2 = k2
  Instance <- MCInstance
  Request <- MCRequest
  InstanceOf <- MCInstanceOf
  Key <- MCKey
  Limit = 1
  Window = 2
  MinimumTtl = 1
  MaxEntries = 1
  Cooldown = 2
  Observed <- MCObserved
  MaxFaults = 1
INVARIANTS SingleProbe AtMostTwoWindows
PROPERTIES WindowsEnd FallbackEnds
