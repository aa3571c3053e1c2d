CONSTANTS
  Buffer = {b1, b2}
  e1 = e1
  e2 = e2
  Edit <- OneEdit
  Faults <- AllFaults
  MaxCommits = 3
  MaxRedo = 1
  MaxSteps = 2
SPECIFICATION Spec
INVARIANT HistoryOK
SYMMETRY BufferSymmetry
