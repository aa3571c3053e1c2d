CONSTANTS
  Pid = {e1, e2}
  Cli = {c1, c2}
  NoPid = NoPid
  Written <- Handmade
  MaxAccidents = 1
SPECIFICATION Spec
INVARIANTS TypeOK PidFileTrue ConfigValidated
PROPERTY StrayServersStopped
PROPERTY CommandsEnd
