SPECIFICATION Spec
CONSTANTS
  PoolIds = {p1}
  NoPool = NoPool
  InitialAssigned = {0, 1, 2}
  FplMayFail = FALSE
  SettingsMoments = {"stopped", "running"}
INVARIANT MemoryStickServed
