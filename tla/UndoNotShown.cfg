CONSTANTS
  Buffer = {b1}
  e1 = e1
  e2 = e2
  Edit <- TwoEdits
  Faults <- NoFaults
  MaxCommits = 4
  MaxRedo = 2
  MaxSteps = 2
SPECIFICATION Spec
PROPERTY UndoVisible
