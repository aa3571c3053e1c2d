CONSTANTS
  Buffer = {b1, b2}
  e1 = e1
  e2 = e2
  Edit <- OneEdit
  Faults <- GitFaults
  MaxCommits = 3
  MaxRedo = 2
  MaxSteps = 2
SPECIFICATION Spec
PROPERTY HistoryIsLog
PROPERTY StepsCounted
SYMMETRY BufferSymmetry
