SPECIFICATION ClientSpec
CONSTANTS
  PoolIds = {p1, p2}
  NoPool = NoPool
  InitialAssigned = {0, 1, 2}
  FplMayFail = TRUE
  AssignMayFail = TRUE
SYMMETRY Symmetry
INVARIANTS SystemRestored NoFlashForgotten NoDoubleUse ServedAsAsked
