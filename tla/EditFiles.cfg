SPECIFICATION Spec
CONSTANTS Server = {p1, p2}
          NoServer = NoServer
          Sid = {s1, s2}
          NoSid = NoSid
          MaxText = 1
          MaxTime = 1
          Coarse = TRUE
INVARIANT TypeOK
INVARIANT LockNamesLive
INVARIANT PastBackedUp
PROPERTY OwnEditsPublished
SYMMETRY IdSymmetry
CHECK_DEADLOCK FALSE
