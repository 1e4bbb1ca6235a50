SPECIFICATION Spec
CONSTANTS
  i1 = i1 i2 = i2 i3 = i3
  Ids = {i1, i2, i3}
  NumLevels = 2
  MaxVars = 3
  MaxReorders = 2
SYMMETRY IdSymmetry
INVARIANT CountRightWithoutGc
