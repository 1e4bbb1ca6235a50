SPECIFICATION FullSpec
CONSTANTS
  k1 = k1 k2 = k2 k3 = k3 k4 = k4 k5 = k5
  Keys = {k1, k2, k3, k4, k5}
  HashOf <- MCHash
  MaxReserve = 3
  MinCapacity = 4
  StatusBits = 3
  Kinds <- RetainKinds
  FREE = FREE TOMBSTONE = TOMBSTONE Undefined = Undefined
INVARIANT KeptIsFound
