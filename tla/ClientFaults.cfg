SPECIFICATION Spec
CONSTANTS
  None = None
  Names <- TwoNames
  Values <- TwoClientValues
  WorkspaceDefined = TRUE
  Faults = {"new", "connect", "createClose", "createDestroy", "close", "destroy", "send"}
  MaxFaults = 3
  MaxChanges = 3
INVARIANTS TypeOK OnlyFailedCreateLeaks MirrorUnlessDisturbed
PROPERTIES Settles
CHECK_DEADLOCK FALSE
