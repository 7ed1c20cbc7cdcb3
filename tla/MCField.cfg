SPECIFICATION FieldSpec
CONSTANTS
  d1 = d1
  h0 = h0
  h1 = h1
  h2 = h2
  w1 = w1
  w2 = w2
  Hosts = {h0, h1, h2}
  Own = h0
  Devices = {d1}
  Of <- OneDevice
  Sweeps = {w1, w2}
  MaxConcurrent = 1
  Timeout = 2
  BusCap = 2
  KeepCap = 2
  SeedCap = 1
  ItemCap = 3
  MaxTime = 3
  MaxEvents = 6
INVARIANTS
  RegistryIsLatest
  TimelineHasNoHole
PROPERTIES
  ScanReturns
  TalkReturns
