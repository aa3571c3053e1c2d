CONSTANTS
  Session = {s1}
  Other = Other
  File = {f1}
  Faults <- AllFaults
  MaxCrashes = 1
SPECIFICATION Spec
INVARIANT TypeOK
INVARIANT LinkStands
INVARIANT LocksStand
INVARIANT CloseAllOrNothing
PROPERTY EditsLostOnlyByForce
PROPERTY ConnectRecovers
