SPECIFICATION Spec
CONSTANTS
  c1 = c1
  c2 = c2
  Connections = {c1, c2}
  Switches <- MCSwitches
  Dpids = {1, 2}
INVARIANT ViewRight
PROPERTIES Lifecycle StaysRegistered Announced
CHECK_DEADLOCK FALSE
