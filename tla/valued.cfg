CONSTANTS
  NumVars = 2
  r1 = r1
  r2 = r2
  Regs <- MCRegs
  Bits = 2
  NaN = NaN
  MinusInf = MinusInf
  PlusInf = PlusInf
  MaxKept = 2
SPECIFICATION Spec
INVARIANT ResultReduced
 
CHECK_DEADLOCK FALSE
