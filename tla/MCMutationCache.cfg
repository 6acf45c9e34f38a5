SPECIFICATION Spec
CONSTANTS
  c1 = c1  c2 = c2  c3 = c3  c4 = c4  k1 = k1  k2 = k2  k3 = k3  f1 = f1  f2 = f2
  NoEntry = NoEntry  NoSlot = NoSlot  NoKey = NoKey  NoShape = NoShape
  Calls = {c1, c2, c3, c4}
  Keys = {k1, k2, k3}
  Shapes = {f1, f2}
  Capacity = 2
SYMMETRY CacheSymmetry
CHECK_DEADLOCK FALSE
INVARIANTS
  TypeOK
  OneRunPerKey
  SettledOnce
  OrderListsEntries
PROPERTIES
  ReplaysTellOutcome
