SPECIFICATION Spec
CONSTANTS Node <- MCNode
          MaxOps = 3
          Formats <- MCFormats
INVARIANT TypeOK
INVARIANT AttachedIsTree
INVARIANT TextIsTree
PROPERTY DeletedStaysDeleted
PROPERTY IdsSurviveRestart
CHECK_DEADLOCK FALSE
