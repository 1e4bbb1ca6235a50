SPECIFICATION Spec
CONSTANTS
  a = a
  b = b
  NoThread = NoThread
  Threads <- MCThreads
  PageSlots = 2
  MaxPages = 2
  MaxLevels = 2
  MaxFunctions = 2
  MaxRefs = 2
SYMMETRY Symmetry
INVARIANTS TypeOK SlabOutlivesHandles FreeListSound CountsExact ItemsCounted
CHECK_DEADLOCK FALSE
