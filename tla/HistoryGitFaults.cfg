CONSTANTS
  Buffer = {b1}
  e1 = e1
  e2 = e2
  Edit <- OneEdit
  Faults <- GitFaults
  MaxCommits = 4
  MaxRedo = 3
  MaxSteps = 4
SPECIFICATION Spec
INVARIANT RedoMeansCurrent
PROPERTY HistoryKept
