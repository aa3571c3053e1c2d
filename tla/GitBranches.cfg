CONSTANTS
  Buffer = {b1, b2}
  Content = {c1, c2}
  NoFile = NoFile
  NoBranch = NoBranch
  Master = Master
  Faults <- AllFaults
SPECIFICATION Spec
INVARIANT TypeOK
INVARIANT OwnFileOnly
PROPERTY CommitsAreAtomic
SYMMETRY GitSymmetry
CHECK_DEADLOCK FALSE
