SPECIFICATION Spec
CONSTANTS
  s1 = s1 s2 = s2 a = a w = w g1 = g1 g2 = g2
  Cap1 = 3 Cap2 = 0
  NoStore = NoStore
  App = {a}
  Pool = {w, g1, g2}
  Stores = {s1, s2}
  Home <- HomeOf
  GcThread <- GcThreadOf
  CHUNK_SIZE = 2
  Capacity <- CapacityOf
  GcLwm = 1
  GcHwm = 2
  MaxNesting = 1
  MaxNodeCount = 2
INVARIANTS TypeOK HandedOutOnce NoSlotLost DetachedIsSynced CountNotBehind
CHECK_DEADLOCK FALSE
