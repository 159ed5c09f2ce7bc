SPECIFICATION FairSpec
CONSTANTS
  PoolIds = {p1, p2}
  NoPool = NoPool
  InitialAssigned = {0, 1, 2}
  FplMayFail = FALSE
  SettingsMoments = {"stopped"}
INVARIANTS RestoredWhenStopped NoPoolLeak
PROPERTIES TableStableWhileOpen ServesTheChoice StartEnds
