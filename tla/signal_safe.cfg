SPECIFICATION Spec
CONSTANTS
  Users = {a, b, c}
  First = a
  MaxRefs = 4
INVARIANTS TypeOK QuitMeansUnused
PROPERTY ParkedThreadQuits
CHECK_DEADLOCK FALSE
