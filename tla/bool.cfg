SPECIFICATION Spec
CONSTANTS
  r1 = r1
  NumVars = 3
  Regs = {r1}
  Fixed <- TwoFunctions
  Kinds <- UsedKinds
  Managers = {"bdd", "bcdd", "zbdd"}
  MaxCount = 5
  MaxFileNumber = 300
  Rejected = Rejected
  GroupBits = 4
  Width = 5
INVARIANT ResultReduced
PROPERTY Implements
