SPECIFICATION Spec
CONSTANTS
  k1 = k1 k2 = k2 k3 = k3 k4 = k4 k5 = k5
  Keys = {k1, k2, k3, k4, k5}
  HashOf <- MCHash
  MaxReserve = 3
  MinCapacity = 4
  StatusBits = 3
  Kinds <- SafeKinds
  FREE = FREE TOMBSTONE = TOMBSTONE Undefined = Undefined
INVARIANTS TypeOK SearchEnds KeptIsFound
PROPERTY Implements
