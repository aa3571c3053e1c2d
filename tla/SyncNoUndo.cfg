CONSTANTS
  b1 = b1
  b2 = b2
  p1 = p1
  p2 = p2
  e1 = e1
  Buffer <- OneBuffer
  Path = {p1, p2}
  NoPath = NoPath
  Edit <- OneEdit
  Api <- NoUndoApi
SPECIFICATION Spec
INVARIANT TypeOK
INVARIANT ModifiedCoversEdits
PROPERTY UnforcedCloseKeepsEdits
